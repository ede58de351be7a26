----------------------------- MODULE HashStore -----------------------------
(***************************************************************************)
(* The hash table of the data server (phash-lib.c) under the worker        *)
(* threads that serve requests on it (psiskv_server.c), with its log       *)
(* (log.c).                                                                *)
(*                                                                         *)
(* Every bucket is a chain of (key, item pointer) entries guarded by a     *)
(* readers-writer lock; a second array of mutexes, one per bucket, orders  *)
(* the appends to the log.  A thread takes the log mutex of its bucket     *)
(* before it releases the readers-writer lock, and appends after it.       *)
(* Items are value_structs on the heap: the model keeps their addresses,   *)
(* because a thread goes on using its own after the bucket is released.    *)
(*                                                                         *)
(* A critical section is two steps: the walk along the chain, which leaves *)
(* a cursor on the entry it found, and the access at that cursor.  A log   *)
(* append is one step: fwrite and fprintf hold the stream's own lock, and  *)
(* the fflush that follows comes before the mutex is released.             *)
(*                                                                         *)
(* A connection may fail in the middle of a request.  Its thread returns,  *)
(* and t then stands for the thread of the next connection.                *)
(***************************************************************************)
EXTENDS Naturals, SequencesExt

CONSTANTS
  Thread,       \* threads running answer_call, one per client connection
  Key,          \* uint32_t keys
  Value,        \* byte arrays
  Item,         \* addresses malloc may return for a value_struct
  Size,         \* number of buckets, STORESIZE in data-lib.h
  NULL,         \* a null pointer, no value, no request, nobody
  Garbage,      \* bytes that nobody wrote: fresh or freed memory
  MaxRequests   \* bound of the model: requests received in one behaviour

ASSUME SizeAssumption == Size \in Nat \ {0}
ASSUME KeyAssumption == Key \subseteq Nat
ASSUME NullAssumption ==
  /\ NULL \notin Thread \cup Value \cup Item
  /\ Garbage \notin Value \cup {NULL}
ASSUME MaxRequestsAssumption == MaxRequests \in Nat

VARIABLES
  table,      \* table[b]: the chain of bucket b, entries [key, item]
  heap,       \* heap[a]: the bytes of the value_struct at a, NULL if free
  readers,    \* readers[b]: threads that hold locks[b] for reading
  writer,     \* writer[b]: the thread that holds locks[b] for writing
  logger,     \* logger[b]: the thread that holds log_locks[b]
  log,        \* the records of the log file, oldest first
  pc,         \* pc[t]: the next step of thread t
  req,        \* req[t]: the request t is serving (kv_msg and its value)
  item,       \* item[t]: the item allocated for that request
  cursor,     \* cursor[t]: where its search stopped, 0 past the end
  reply,      \* reply[t]: the kv_msg that t will send back
  served,     \* number of requests received so far
  lost        \* history: the items that a failing connection left allocated

vars == <<table, heap, readers, writer, logger, log, pc, req, item, cursor,
          reply, served, lost>>

tableVars == <<table, heap>>
lockVars == <<readers, writer, logger>>
requestVars == <<req, item, cursor, served, lost>>

Bucket == 0 .. Size - 1

hash_function(k) == k % Size

Writes == {"WRITE_REQ", "WRITE_REQ_OW"}

(* What the bytes of an item can be: a value that a client sent whole, or, *)
(* when the connection closed before the last byte, an unfilled buffer:    *)
(* write_preq tests TCPnrecv for -1 and not for -2.                        *)
Bytes == Value \cup {Garbage}

Request ==
  [op : Writes, key : Key, val : Bytes]
    \cup [op : {"READ_REQ", "DELETE_REQ"}, key : Key, val : {NULL}]

(* A kv_msg sent back: code is the field its receiver looks at, key (999   *)
(* means "already exists") or value_len (0 means "no such item").          *)
Written(code) == [type |-> "WRITE_RESP", code |-> code, val |-> NULL]
Deleted(code) == [type |-> "DELETE_RESP", code |-> code, val |-> NULL]
Found(v)      == [type |-> "READ_RESP", code |-> 0, val |-> v]
NotFound      == [type |-> "ERROR", code |-> 0, val |-> NULL]

Reply ==
  {Written(c) : c \in {0, 999}} \cup {Deleted(c) : c \in {0, 1}}
    \cup {Found(v) : v \in Bytes} \cup {NotFound}

Entry == [key : Key, item : Item]

Record ==
  [op : {"I"}, key : Key, val : Bytes]
    \cup [op : {"D"}, key : Key, val : {NULL}]

Label == {"recv", "lock", "search", "act", "log_lock", "unlock", "log",
          "log_unlock", "send"}

-----------------------------------------------------------------------------
(* Helpers.                                                                *)

Goto(t, label) == pc' = [pc EXCEPT ![t] = label]

BucketOf(t) == hash_function(req[t].key)
IsWrite(t) == req[t].op \in Writes

(* insert_item refused the item of t; read_item made t a copy of one.      *)
Refused(t) == reply[t] = Written(999)
Copied(t) == req[t].op = "READ_REQ" /\ reply[t] # NotFound

Chain(k) == table[hash_function(k)]

(* The addresses malloc may return.                                        *)
Free == {a \in Item : heap[a] = NULL}

(* Where the search loops stop: the first entry of a chain with key k.     *)
IsAt(chain, k, n) ==
  /\ n \in 1 .. Len(chain)
  /\ chain[n].key = k
  /\ \A m \in 1 .. n - 1 : chain[m].key # k

(* Fault: the loop stops on the last entry without comparing its key.      *)
HasSkipsLast(k) == \E n \in 1 .. Len(Chain(k)) - 1 : Chain(k)[n].key = k

Has(k) == \E n \in 1 .. Len(Chain(k)) : Chain(k)[n].key = k
At(k) == CHOOSE n \in 1 .. Len(Chain(k)) : IsAt(Chain(k), k, n)
ItemAt(k) == Chain(k)[At(k)].item

(* The store as its clients see it.                                        *)
Content(k) == IF Has(k) THEN heap[ItemAt(k)] ELSE NULL

(* What thread t found: its search came to an end, or stopped at an entry. *)
Missed(t) == cursor[t] = 0
ItemFound(t) == Chain(req[t].key)[cursor[t]].item

SetChain(k, chain) == table' = [table EXCEPT ![hash_function(k)] = chain]

-----------------------------------------------------------------------------

Init ==
  /\ table = [b \in Bucket |-> << >>]
  /\ heap = [a \in Item |-> NULL]
  /\ readers = [b \in Bucket |-> {}]
  /\ writer = [b \in Bucket |-> NULL]
  /\ logger = [b \in Bucket |-> NULL]
  /\ log = << >>
  /\ pc = [t \in Thread |-> "recv"]
  /\ req = [t \in Thread |-> NULL]
  /\ item = [t \in Thread |-> NULL]
  /\ cursor = [t \in Thread |-> 0]
  /\ reply = [t \in Thread |-> NULL]
  /\ served = 0
  /\ lost = {}

(* process_psiskv_prequest receives a kv_msg; write_preq then allocates    *)
(* the item, receives the value into it and calls insert_item.  malloc may *)
(* return any free address, one that was freed a moment ago included.      *)
Receive(t, r) ==
  /\ pc[t] = "recv"
  /\ served < MaxRequests
  /\ served' = served + 1
  /\ req' = [req EXCEPT ![t] = r]
  /\ IF r.op \in Writes
     THEN \E a \in Free :
            /\ heap' = [heap EXCEPT ![a] = r.val]
            /\ item' = [item EXCEPT ![t] = a]
     ELSE UNCHANGED <<heap, item>>
  /\ Goto(t, "lock")
  /\ UNCHANGED <<table, lockVars, log, cursor, reply, lost>>

(* The connection fails while write_preq receives the value: it returns -1 *)
(* and does not free the buffer.                                           *)
ReceiveFails(t) ==
  /\ pc[t] = "recv"
  /\ served < MaxRequests
  /\ served' = served + 1
  /\ \E a \in Free :
       /\ heap' = [heap EXCEPT ![a] = Garbage]
       /\ lost' = lost \cup {a}
  /\ UNCHANGED <<table, lockVars, log, pc, req, item, cursor, reply>>

(* pthread_rwlock_rdlock in read_item.                                     *)
RdLock(t) ==
  /\ pc[t] = "lock"
  /\ req[t].op = "READ_REQ"
  /\ writer[BucketOf(t)] = NULL
  /\ readers' = [readers EXCEPT ![BucketOf(t)] = @ \cup {t}]
  /\ Goto(t, "search")
  /\ UNCHANGED <<tableVars, writer, logger, log, reply, requestVars>>

(* pthread_rwlock_wrlock in insert_item and delete_item.                   *)
WrLock(t) ==
  /\ pc[t] = "lock"
  /\ req[t].op # "READ_REQ"
  /\ writer[BucketOf(t)] = NULL
  /\ readers[BucketOf(t)] = {}
  /\ writer' = [writer EXCEPT ![BucketOf(t)] = t]
  /\ Goto(t, "search")
  /\ UNCHANGED <<tableVars, readers, logger, log, reply, requestVars>>

(* The loop along the chain in read_item, insert_item and delete_item.     *)
Search(t) ==
  LET k == req[t].key
  IN  /\ pc[t] = "search"
      /\ cursor' = [cursor EXCEPT ![t] = IF Has(k) THEN At(k) ELSE 0]
      /\ Goto(t, "act")
      /\ UNCHANGED <<tableVars, lockVars, log, req, item, reply, served, lost>>

(* read_item: the item is copied before the bucket is released.            *)
ReadItem(t) ==
  /\ pc[t] = "act"
  /\ req[t].op = "READ_REQ"
  /\ ~Missed(t)
  /\ \E a \in Free :
       /\ heap' = [heap EXCEPT ![a] = heap[ItemFound(t)]]
       /\ item' = [item EXCEPT ![t] = a]
  /\ reply' = [reply EXCEPT ![t] = Found(heap[ItemFound(t)])]
  /\ Goto(t, "unlock")
  /\ UNCHANGED <<table, lockVars, log, req, cursor, served, lost>>

(* read_item returns NULL: the key is not there.                           *)
ReadMissing(t) ==
  /\ pc[t] = "act"
  /\ req[t].op = "READ_REQ"
  /\ Missed(t)
  /\ reply' = [reply EXCEPT ![t] = NotFound]
  /\ Goto(t, "unlock")
  /\ UNCHANGED <<tableVars, lockVars, log, requestVars>>

(* insert_item, the key is not in the chain: the entry goes to its end.    *)
InsertNew(t) ==
  LET k == req[t].key
  IN  /\ pc[t] = "act"
      /\ IsWrite(t)
      /\ Missed(t)
      /\ SetChain(k, Append(Chain(k), [key |-> k, item |-> item[t]]))
      /\ reply' = [reply EXCEPT ![t] = Written(0)]
      /\ Goto(t, "log_lock")
      /\ UNCHANGED <<heap, lockVars, log, requestVars>>

(* Faults: the old item is not freed; the overwrite is not logged.         *)
OverwriteLeaks(t) ==
  LET k == req[t].key
  IN  /\ pc[t] = "act"
      /\ req[t].op = "WRITE_REQ_OW"
      /\ ~Missed(t)
      /\ SetChain(k, [Chain(k) EXCEPT ![cursor[t]].item = item[t]])
      /\ reply' = [reply EXCEPT ![t] = Written(0)]
      /\ Goto(t, "log_lock")
      /\ UNCHANGED <<heap, lockVars, log, requestVars>>

OverwriteUnlogged(t) ==
  LET k == req[t].key
  IN  /\ pc[t] = "act"
      /\ req[t].op = "WRITE_REQ_OW"
      /\ ~Missed(t)
      /\ heap' = [heap EXCEPT ![ItemFound(t)] = NULL]
      /\ SetChain(k, [Chain(k) EXCEPT ![cursor[t]].item = item[t]])
      /\ reply' = [reply EXCEPT ![t] = Written(0)]
      /\ Goto(t, "unlock")
      /\ UNCHANGED <<lockVars, log, requestVars>>

(* insert_item, the key is there and overwrite is set: item_delete frees   *)
(* the old item and the entry takes the new one.                           *)
Overwrite(t) ==
  LET k == req[t].key
  IN  /\ pc[t] = "act"
      /\ req[t].op = "WRITE_REQ_OW"
      /\ ~Missed(t)
      /\ heap' = [heap EXCEPT ![ItemFound(t)] = NULL]
      /\ SetChain(k, [Chain(k) EXCEPT ![cursor[t]].item = item[t]])
      /\ reply' = [reply EXCEPT ![t] = Written(0)]
      /\ Goto(t, "log_lock")
      /\ UNCHANGED <<lockVars, log, requestVars>>

(* Faults: the refused item is linked all the same; the refusal is not     *)
(* reported; the early return forgets to unlock.                           *)
InsertExistsLinks(t) ==
  LET k == req[t].key
  IN  /\ pc[t] = "act"
      /\ req[t].op = "WRITE_REQ"
      /\ ~Missed(t)
      /\ SetChain(k, [Chain(k) EXCEPT ![cursor[t]].item = item[t]])
      /\ reply' = [reply EXCEPT ![t] = Written(999)]
      /\ Goto(t, "unlock")
      /\ UNCHANGED <<heap, lockVars, log, requestVars>>

InsertExistsSilent(t) ==
  /\ pc[t] = "act"
  /\ req[t].op = "WRITE_REQ"
  /\ ~Missed(t)
  /\ reply' = [reply EXCEPT ![t] = Written(0)]
  /\ Goto(t, "unlock")
  /\ UNCHANGED <<tableVars, lockVars, log, requestVars>>

InsertExistsKeepsLock(t) ==
  /\ pc[t] = "act"
  /\ req[t].op = "WRITE_REQ"
  /\ ~Missed(t)
  /\ reply' = [reply EXCEPT ![t] = Written(999)]
  /\ Goto(t, "send")
  /\ UNCHANGED <<tableVars, lockVars, log, requestVars>>

(* insert_item returns 1: the key is there and must not be overwritten.    *)
InsertExists(t) ==
  /\ pc[t] = "act"
  /\ req[t].op = "WRITE_REQ"
  /\ ~Missed(t)
  /\ reply' = [reply EXCEPT ![t] = Written(999)]
  /\ Goto(t, "unlock")
  /\ UNCHANGED <<tableVars, lockVars, log, requestVars>>

(* delete_item, the key is in the chain: the entry is unlinked and freed.  *)
DeleteItem(t) ==
  LET k == req[t].key
  IN  /\ pc[t] = "act"
      /\ req[t].op = "DELETE_REQ"
      /\ ~Missed(t)
      /\ SetChain(k, RemoveAt(Chain(k), cursor[t]))
      /\ heap' = [heap EXCEPT ![ItemFound(t)] = NULL]
      /\ reply' = [reply EXCEPT ![t] = Deleted(1)]
      /\ Goto(t, "log_lock")
      /\ UNCHANGED <<lockVars, log, requestVars>>

(* delete_item returns false: the bucket is empty or the key is not there. *)
DeleteMissing(t) ==
  /\ pc[t] = "act"
  /\ req[t].op = "DELETE_REQ"
  /\ Missed(t)
  /\ reply' = [reply EXCEPT ![t] = Deleted(0)]
  /\ Goto(t, "unlock")
  /\ UNCHANGED <<tableVars, lockVars, log, requestVars>>

(* Fault: the log mutex is taken over from the thread that holds it.       *)
LogLockBarges(t) ==
  /\ pc[t] = "log_lock"
  /\ logger' = [logger EXCEPT ![BucketOf(t)] = t]
  /\ Goto(t, "unlock")
  /\ UNCHANGED <<tableVars, readers, writer, log, reply, requestVars>>

(* pthread_mutex_lock of the log mutex, with the bucket still locked.      *)
LogLock(t) ==
  /\ pc[t] = "log_lock"
  /\ logger[BucketOf(t)] = NULL
  /\ logger' = [logger EXCEPT ![BucketOf(t)] = t]
  /\ Goto(t, "unlock")
  /\ UNCHANGED <<tableVars, readers, writer, log, reply, requestVars>>

(* pthread_rwlock_unlock; a thread that changed the table goes on to log.  *)
Unlock(t) ==
  LET b == BucketOf(t)
  IN  /\ pc[t] = "unlock"
      /\ readers' = [readers EXCEPT ![b] = @ \ {t}]
      /\ writer' = [writer EXCEPT ![b] = IF @ = t THEN NULL ELSE @]
      /\ Goto(t, IF logger[b] = t THEN "log" ELSE "send")
      /\ UNCHANGED <<tableVars, logger, log, reply, requestVars>>

(* What item_get_size and item_to_byte_array find at address a: another    *)
(* thread may have freed the item since the bucket was released.           *)
BytesAt(a) == IF heap[a] = NULL THEN Bytes ELSE {heap[a]}

(* log_insert and log_delete.                                              *)
AppendLog(t) ==
  LET k == req[t].key
  IN  /\ pc[t] = "log"
      /\ IF IsWrite(t)
         THEN \E v \in BytesAt(item[t]) :
                log' = Append(log, [op |-> "I", key |-> k, val |-> v])
         ELSE log' = Append(log, [op |-> "D", key |-> k, val |-> NULL])
      /\ Goto(t, "log_unlock")
      /\ UNCHANGED <<tableVars, lockVars, reply, requestVars>>

(* pthread_mutex_unlock of the log mutex.                                  *)
LogUnlock(t) ==
  /\ pc[t] = "log_unlock"
  /\ logger' = [logger EXCEPT ![BucketOf(t)] = NULL]
  /\ Goto(t, "send")
  /\ UNCHANGED <<tableVars, readers, writer, log, reply, requestVars>>

(* The thread is done with its request.                                    *)
Finish(t) ==
  /\ pc[t] = "send"
  /\ req' = [req EXCEPT ![t] = NULL]
  /\ item' = [item EXCEPT ![t] = NULL]
  /\ cursor' = [cursor EXCEPT ![t] = 0]
  /\ reply' = [reply EXCEPT ![t] = NULL]
  /\ Goto(t, "recv")
  /\ UNCHANGED <<table, lockVars, log, served>>

(* Fault: write_preq destroys its item whatever insert_item returned.      *)
SendDestroysAll(t) ==
  /\ Finish(t)
  /\ IF IsWrite(t) \/ Copied(t)
     THEN heap' = [heap EXCEPT ![item[t]] = NULL]
     ELSE UNCHANGED heap
  /\ UNCHANGED lost

(* The handlers send the answer.  write_preq first destroys the item that  *)
(* insert_item did not take; read_preq destroys its copy in the end.       *)
Send(t) ==
  /\ Finish(t)
  /\ IF Refused(t) \/ Copied(t)
     THEN heap' = [heap EXCEPT ![item[t]] = NULL]
     ELSE UNCHANGED heap
  /\ UNCHANGED lost

(* TCPsend fails and the handler returns at once: read_preq does not       *)
(* destroy its copy.                                                       *)
SendFails(t) ==
  /\ Finish(t)
  /\ IF Refused(t)
     THEN heap' = [heap EXCEPT ![item[t]] = NULL]
     ELSE UNCHANGED heap
  /\ lost' = IF Copied(t) THEN lost \cup {item[t]} ELSE lost

(* One step of a thread that is serving a request.                         *)
Step(t) ==
  \/ RdLock(t) \/ WrLock(t) \/ Search(t)
  \/ ReadItem(t) \/ ReadMissing(t)
  \/ InsertNew(t) \/ Overwrite(t) \/ InsertExists(t)
  \/ DeleteItem(t) \/ DeleteMissing(t)
  \/ LogLock(t) \/ Unlock(t) \/ AppendLog(t) \/ LogUnlock(t)
  \/ Send(t) \/ SendFails(t)

Next ==
  \E t \in Thread :
    \/ \E r \in Request : Receive(t, r)
    \/ ReceiveFails(t)
    \/ Step(t)

(* The operating system runs every thread that is not blocked.  Clients    *)
(* are under no obligation to send anything.                               *)
Fairness == \A t \in Thread : WF_vars(Step(t))

Spec == Init /\ [][Next]_vars /\ Fairness

-----------------------------------------------------------------------------
(***************************************************************************)
(* Correctness.                                                            *)
(***************************************************************************)

(* Every variable has its type.                                            *)
TypeOK ==
  /\ table \in [Bucket -> Seq(Entry)]
  /\ heap \in [Item -> Bytes \cup {NULL}]
  /\ readers \in [Bucket -> SUBSET Thread]
  /\ writer \in [Bucket -> Thread \cup {NULL}]
  /\ logger \in [Bucket -> Thread \cup {NULL}]
  /\ log \in Seq(Record)
  /\ pc \in [Thread -> Label]
  /\ req \in [Thread -> Request \cup {NULL}]
  /\ item \in [Thread -> Item \cup {NULL}]
  /\ cursor \in [Thread -> Nat]
  /\ reply \in [Thread -> Reply \cup {NULL}]
  /\ served \in 0 .. MaxRequests
  /\ lost \subseteq Item

(* A chain holds a key at most once, and only keys of its own bucket: the  *)
(* searches of read_item, insert_item and delete_item, which stop at the   *)
(* first match, then speak for the whole store.                            *)
ChainsWellFormed ==
  \A b \in Bucket :
    /\ \A n \in 1 .. Len(table[b]) : hash_function(table[b][n].key) = b
    /\ \A m, n \in 1 .. Len(table[b]) :
         table[b][m].key = table[b][n].key => m = n

(* Thread t owns the item it allocated: insert_item has not taken it, or   *)
(* has refused it and write_preq is about to destroy it; or it is the copy *)
(* that read_preq has yet to send.                                         *)
OwnsItem(t) ==
  \/ /\ pc[t] \in {"lock", "search", "act"}
     /\ IsWrite(t)
  \/ /\ pc[t] \in {"unlock", "send"}
     /\ Refused(t) \/ Copied(t)

(* An item in the table or still owned by a thread has not been freed.     *)
NoDanglingItem ==
  /\ \A b \in Bucket : \A n \in 1 .. Len(table[b]) :
       heap[table[b][n].item] # NULL
  /\ \A t \in Thread : OwnsItem(t) => item[t] \in Item /\ heap[item[t]] # NULL

(* An item has one owner: one entry of one chain, or one thread.  Whoever  *)
(* frees it (item_delete, delete_hitem, destroy_struct) frees it once.     *)
NoSharedItem ==
  /\ \A b, c \in Bucket : \A m \in 1 .. Len(table[b]), n \in 1 .. Len(table[c]) :
       table[b][m].item = table[c][n].item => b = c /\ m = n
  /\ \A t \in Thread : OwnsItem(t) =>
       /\ \A b \in Bucket : \A n \in 1 .. Len(table[b]) :
            table[b][n].item # item[t]
       /\ \A u \in Thread \ {t} : OwnsItem(u) => item[u] # item[t]

(* An allocated item has an owner, or is one that an error return of       *)
(* write_preq or read_preq left behind: no change of the table, and no     *)
(* request whose connection lasts, loses one.                              *)
Owned(a) ==
  \/ \E b \in Bucket : \E n \in 1 .. Len(table[b]) : table[b][n].item = a
  \/ \E t \in Thread : OwnsItem(t) /\ item[t] = a
OnlyFailuresLeak ==
  \A a \in Item : heap[a] # NULL => Owned(a) \/ a \in lost

(* Thread t changed key k and its record is not in the log yet: it waits   *)
(* for the log mutex, or it has it and has not appended.                   *)
Waiting(t, k) == pc[t] = "log_lock" /\ req[t].key = k
Logging(t, k) ==
  /\ pc[t] \in {"unlock", "log"}
  /\ req[t].key = k
  /\ logger[hash_function(k)] = t
Settled(k) == \A t \in Thread : ~Waiting(t, k) /\ ~Logging(t, k)

(* What the records of the log, replayed in order on an empty store, leave *)
(* under k: the value of the last record about k.                          *)
Replays(k, v) ==
  \/ /\ v = NULL
     /\ \A n \in 1 .. Len(log) : log[n].key # k
  \/ \E n \in 1 .. Len(log) :
       /\ log[n].key = k
       /\ log[n].val = v
       /\ \A m \in n + 1 .. Len(log) : log[m].key # k

(* Changes of one key reach the log in the order they were made to the     *)
(* table (Relatorio.tex, section Synchronization): once no change of k is  *)
(* on its way to the log, the last record about k says what the table      *)
(* holds, even when an earlier record was garbled.                         *)
LogFollowsTable == \A k \in Key : Settled(k) => Replays(k, Content(k))

(* An insert record carries the value the client wrote.                    *)
LogRecordsWhatWasWritten ==
  [][\A t \in Thread :
       pc[t] = "log" /\ pc'[t] = "log_unlock" /\ IsWrite(t)
         => log'[Len(log')].val = req[t].val]_vars

(* Two threads are in the same bucket at once only to read it: what the    *)
(* search of one found is what it then acts on.                            *)
InBucket(t) == pc[t] \in {"search", "act", "log_lock", "unlock"}
BucketExclusive ==
  \A t, u \in Thread :
    t # u /\ InBucket(t) /\ InBucket(u) /\ BucketOf(t) = BucketOf(u)
      => req[t].op = "READ_REQ" /\ req[u].op = "READ_REQ"

(* Every request is answered, or its connection fails on the answer:       *)
(* neither kind of lock is ever waited for in a circle.                    *)
EveryRequestAnswered ==
  \A t \in Thread : pc[t] = "lock" ~> pc[t] = "recv"

(* Seen by its clients, the store is one map on which every request takes  *)
(* effect at one instant, when its thread acts on what it found.  The map  *)
(* holds the values as they were received, the unfilled ones included.     *)
Phase(t) == CASE pc[t] = "recv" -> "idle"
              [] pc[t] \in {"lock", "search", "act"} -> "called"
              [] OTHER -> "done"

KV == INSTANCE KVStore WITH
        Value <- Bytes,
        kv <- [k \in Key |-> Content(k)],
        phase <- [t \in Thread |-> Phase(t)]

ImplementsKVStore == KV!Spec

-----------------------------------------------------------------------------
(***************************************************************************)
(* The inductive invariant: what the steps of a request rely on besides    *)
(* the properties above.                                                   *)
(***************************************************************************)

Changed(t) == reply[t] \in {Written(0), Deleted(1)}
HoldsLog(t) ==
  \/ pc[t] \in {"log", "log_unlock"}
  \/ pc[t] = "unlock" /\ Changed(t)

(* A thread keeps its request, and its item, until it has answered; only   *)
(* threads that changed the table go the way to the log.                   *)
RequestsKept ==
  \A t \in Thread : pc[t] # "recv" =>
    /\ req[t] \in Request
    /\ IsWrite(t) => item[t] \in Item
    /\ pc[t] \in {"log_lock", "log", "log_unlock"} => Changed(t)
    /\ Changed(t) /\ pc[t] \in {"log_lock", "unlock", "log", "log_unlock"}
         => req[t].op # "READ_REQ"

(* The locks are held exactly by the threads whose step says so.           *)
LocksKept ==
  /\ \A b \in Bucket, t \in Thread :
       t \in readers[b] <=>
         InBucket(t) /\ req[t].op = "READ_REQ" /\ BucketOf(t) = b
  /\ \A b \in Bucket, t \in Thread :
       writer[b] = t <=>
         InBucket(t) /\ req[t].op # "READ_REQ" /\ BucketOf(t) = b
  /\ \A b \in Bucket : writer[b] # NULL => readers[b] = {}
  /\ \A b \in Bucket, t \in Thread :
       logger[b] = t <=> HoldsLog(t) /\ BucketOf(t) = b

(* What a search found is still so when its thread acts on it.             *)
CursorsKept ==
  \A t \in Thread : pc[t] = "act" =>
    IF Missed(t)
    THEN ~Has(req[t].key)
    ELSE /\ cursor[t] \in 1 .. Len(Chain(req[t].key))
         /\ Chain(req[t].key)[cursor[t]].key = req[t].key

(* Among the threads on their way to the log with key k, the last one that *)
(* changed the table is the one that waits, and the table shows its change *)
(* until it has appended.                                                  *)
Latest(t, k) ==
  \/ Waiting(t, k)
  \/ Logging(t, k) /\ \A u \in Thread : ~Waiting(u, k)
ChangesKept ==
  \A t \in Thread, k \in Key : Latest(t, k) =>
    IF IsWrite(t)
    THEN \E n \in 1 .. Len(Chain(k)) : Chain(k)[n] = [key |-> k, item |-> item[t]]
    ELSE ~Has(k)

IInv ==
  /\ TypeOK
  /\ RequestsKept
  /\ LocksKept
  /\ CursorsKept
  /\ ChainsWellFormed
  /\ NoDanglingItem
  /\ NoSharedItem
  /\ ChangesKept
  /\ LogFollowsTable

=============================================================================
