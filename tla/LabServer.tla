----------------------------- MODULE LabServer ------------------------------
(***************************************************************************)
(* The store of Labs/Lab7&8: one server process, a thread for every        *)
(* client, a log whose stream writes a block when its buffer is full, with *)
(* whatever part of a record fits in, and a signal handler that saves the  *)
(* table and exits.                                                        *)
(***************************************************************************)
EXTENDS Integers, Sequences

CONSTANTS
  Threads,      \* threads of clients
  Keys, Size,   \* keys, and the number of buckets (STORESIZE)
  Values,
  MaxKills,     \* how often it is killed while it starts or serves
  MaxRequests, MaxLives   \* bounds of the model

None == "none"
Junk == "junk"    \* freed memory
Op == {"READ_REQ", "WRITE_REQ", "WRITE_REQ_OW", "DELETE_REQ"}

ASSUME LabAssumption ==
  /\ Keys \subseteq Nat /\ Keys # {} /\ Values # {}
  /\ Size \in Nat \ {0}
  /\ {None, Junk, "no file"} \cap Values = {}
  /\ MaxKills \in Nat /\ MaxRequests \in Nat /\ MaxLives \in Nat

VARIABLES
  proc,     \* what the process is at
  table,
  buffer,   \* records of which a part is in the memory of the stream
  log,      \* the log file: the records that it holds to their end
  torn,     \* the log file ends in the first record of the buffer
  tail,     \* the log file, once the process has ended: what it ends in
  backup,   \* the backup file
  temp,     \* what backup_hash has written to its temporary file
  unsaved,  \* the next bucket it comes to
  pc, req,  \* pc[t], req[t]: the request that t handles
  freed,    \* freed[t]: the item that t is to log was freed
  handler,  \* the thread that runs the signal handler
  due,      \* history: due[k], what k may be recovered as
  past,     \* history: past[b], what bucket b was since the last backup
  busy,     \* history: requests were handled when SIGINT came, or after it
  spoiled,  \* history: an item was overwritten, or a record is not what was written
  requests, lives, kills

thread == <<pc, req, freed>>
files == <<log, torn, tail, backup>>
saving == <<temp, unsaved, handler>>
history == <<due, past, busy, spoiled>>
bounds == <<requests, lives, kills>>
vars == <<proc, table, buffer, files, thread, saving, history, bounds>>

Empty == [k \in Keys |-> None]
Record == [type : {"I", "D"}, key : Keys, value : Values \cup {None, Junk}]
NoLog == <<[type |-> "no file", key |-> 0, value |-> None]>>
NoBackup == [k \in Keys |-> "no file"]
Fatal == <<[type |-> "crash", key |-> 0, value |-> None]>>
Tails == {<< >>, Fatal} \cup {<<r>> : r \in Record}
Request == [op : Op, key : Keys, value : Values]

Bucket(k) == k % Size
Buckets == 0 .. Size - 1
Part(f, b) == [k \in {x \in Keys : Bucket(x) = b} |-> f[k]]

Starting == {"created", "loaded"}
Leaving == {"saving", "removed", "renamed", "deleted"}
Serving == {"serving", "saving", "removed", "renamed"}

NoRequest == [op |-> "READ_REQ", key |-> CHOOSE k \in Keys : TRUE, value |-> CHOOSE v \in Values : TRUE]

(* The history is kept as long as a property is about it.                  *)
Remember(d, p) ==
  /\ due' = IF busy' THEN [k \in Keys |-> {}] ELSE d
  /\ past' = IF busy' \/ spoiled' THEN [b \in Buckets |-> {}] ELSE p

Idle(t) == pc[t] = "idle"
Goto(t, label) == pc' = [pc EXCEPT ![t] = label]

Init ==
  /\ proc = "down"
  /\ table = Empty /\ buffer = << >>
  /\ log = NoLog /\ torn = FALSE /\ tail = << >> /\ backup = NoBackup
  /\ temp = Empty /\ unsaved = 0 /\ handler = "nobody"
  /\ pc = [t \in Threads |-> "idle"]
  /\ req = [t \in Threads |-> NoRequest]
  /\ freed = [t \in Threads |-> FALSE]
  /\ due = [k \in Keys |-> {None}]
  /\ past = [b \in Buckets |-> {Part(Empty, b)}]
  /\ busy = FALSE /\ spoiled = FALSE
  /\ requests = 0 /\ lives = 0 /\ kills = 0

-----------------------------------------------------------------------------
(* main, up to its loop.                                                   *)

(* create_hash: a log that exists is kept, its successor gets another name *)
(* for now.                                                                *)
CreateHash ==
  /\ proc = "down" /\ lives < MaxLives
  /\ proc' = "created"
  /\ lives' = lives + 1
  /\ table' = Empty
  /\ log' = IF log = NoLog THEN << >> ELSE log
  /\ UNCHANGED <<buffer, torn, tail, backup, thread, saving, history, requests, kills>>

create_hash_from_backup == IF backup = NoBackup THEN Empty ELSE backup

(* Inserts are replayed without overwriting.                               *)
Replay(f, r) ==
  [f EXCEPT ![r.key] = IF r.type = "D" THEN None ELSE IF @ = None THEN r.value ELSE @]

(* The table after the records, applied in order.                          *)
Replayed(f, records) ==
  LET after[n \in 0 .. Len(records)] ==
        IF n = 0 THEN f ELSE Replay(after[n - 1], records[n])
  IN  after[Len(records)]

(* Fault: deletes are not replayed.                                        *)
process_hash_logInserts(f) == Replayed(f, SelectSeq(log \o tail, LAMBDA r : r.type = "I"))

process_hash_log(f) == Replayed(f, log \o tail)

Recover ==
  /\ proc = "created" /\ tail # Fatal
  /\ proc' = "loaded"
  /\ table' = process_hash_log(create_hash_from_backup)
  /\ UNCHANGED <<buffer, files, thread, saving, history, bounds>>

(* The file ends in record r: what process_hash_log takes that for.  Of an *)
(* insertion it needs the key and the size, and what is missing of the     *)
(* value is Junk or ends the process; of a deletion the first digits of    *)
(* the key will do.  A shorter part is an error, and nothing.              *)
Begins(j, k) == j # 0 /\ \E n \in 1 .. 9 : j = k \div 10^n
Cut(r) ==
  {<< >>} \cup
  IF r.type = "D" THEN {<<[r EXCEPT !.key = j]>> : j \in {j \in Keys : Begins(j, r.key)}}
  ELSE {Fatal, <<[r EXCEPT !.value = Junk]>>}

(* The process ends.  What is in its memory is lost.                       *)
End ==
  /\ proc' = "down"
  /\ table' = Empty /\ buffer' = << >> /\ torn' = FALSE
  /\ temp' = Empty /\ unsaved' = 0
  /\ pc' = [t \in Threads |-> "idle"]
  /\ freed' = [t \in Threads |-> FALSE]
  /\ handler' = "nobody"
  /\ req' = [t \in Threads |-> NoRequest]
  /\ UNCHANGED <<backup, history, requests, lives>>

(* ... though it did not close its log.                                    *)
Break ==
  /\ End
  /\ UNCHANGED log
  /\ tail' \in IF torn THEN Cut(Head(buffer)) ELSE {tail}

(* A value that the log does not hold to its end, though the buffer of     *)
(* process_hash_log had room for it, makes buf_left negative: memcpy.      *)
RecoverCrashes == proc = "created" /\ tail = Fatal /\ Break /\ UNCHANGED kills

(* The new log, which is empty, takes the place of the old one.            *)
RenameLog ==
  /\ proc = "loaded"
  /\ proc' = "serving"
  /\ log' = << >> /\ tail' = << >>
  /\ UNCHANGED <<table, buffer, torn, backup, thread, saving, busy, spoiled, bounds>>
  /\ Remember([k \in Keys |-> {table[k]}], past)

-----------------------------------------------------------------------------
(* answer_call                                                             *)

Runs(t) == proc \in Serving /\ handler # t

Receive(t) ==
  /\ Runs(t) /\ Idle(t) /\ requests < MaxRequests
  /\ \E r \in Request : req' = [req EXCEPT ![t] = r]
  /\ Goto(t, "change")
  /\ requests' = requests + 1
  /\ busy' = (busy \/ proc # "serving")
  /\ UNCHANGED <<proc, table, buffer, files, freed, saving, spoiled, lives, kills>>
  /\ Remember(due, past)

Holds(t, what, b) == pc[t] = what /\ Bucket(req[t].key) = b

(* t is at the table with the lock of its bucket.                          *)
AtTable(t) ==
  /\ Runs(t) /\ pc[t] = "change"
  /\ ~ \E u \in Threads : Holds(u, "lock", Bucket(req[t].key))

(* The item of key k becomes v; the one that was there is freed.           *)
Becomes(t, k, v) ==
  /\ table' = [table EXCEPT ![k] = v]
  /\ freed' = [u \in Threads |-> IF u = t THEN FALSE
                                 ELSE freed[u] \/ (pc[u] = "log" /\ req[u].key = k)]
  /\ spoiled' = (spoiled \/ None \notin {table[k], v})
  /\ UNCHANGED busy
  /\ Remember([due EXCEPT ![k] = @ \cup {v}],
              [past EXCEPT ![Bucket(k)] = @ \cup {Part(table', Bucket(k))}])
  /\ Goto(t, "lock")

NoChange(t) == Goto(t, "send") /\ UNCHANGED <<table, freed, history>>

insert_item(t) ==
  /\ AtTable(t) /\ req[t].op \in {"WRITE_REQ", "WRITE_REQ_OW"}
  /\ IF table[req[t].key] = None \/ req[t].op = "WRITE_REQ_OW"
     THEN Becomes(t, req[t].key, req[t].value)
     ELSE NoChange(t)
  /\ UNCHANGED <<proc, buffer, files, req, saving, bounds>>

delete_item(t) ==
  /\ AtTable(t) /\ req[t].op = "DELETE_REQ"
  /\ IF table[req[t].key] # None THEN Becomes(t, req[t].key, None) ELSE NoChange(t)
  /\ UNCHANGED <<proc, buffer, files, req, saving, bounds>>

read_item(t) ==
  /\ AtTable(t) /\ req[t].op = "READ_REQ"
  /\ NoChange(t)
  /\ UNCHANGED <<proc, buffer, files, req, saving, bounds>>

(* The mutex of the bucket's log entries, then the bucket is let go.       *)
LogLock(t) ==
  /\ Runs(t) /\ pc[t] = "lock"
  /\ ~ \E u \in Threads : Holds(u, "log", Bucket(req[t].key))
  /\ Goto(t, "log")
  /\ UNCHANGED <<proc, table, buffer, files, req, freed, saving, history, bounds>>

Logged(t) ==
  LET k == req[t].key IN
  IF req[t].op = "DELETE_REQ" THEN {[type |-> "D", key |-> k, value |-> None]}
  ELSE [type : {"I"}, key : {k},
        value : {req[t].value} \cup (IF freed[t] THEN {Junk} ELSE {})]

(* log_insert, log_delete: there is no fflush.  The stream has room for    *)
(* the record; or the block that is written ends before its end, or there. *)
AppendLog(t) ==
  /\ Runs(t) /\ pc[t] = "log"
  /\ \E r \in Logged(t) :
       /\ spoiled' = (spoiled \/ r.value = Junk)
       /\ \/ buffer' = Append(buffer, r) /\ UNCHANGED <<log, torn>>
          \/ buffer' = <<r>> /\ log' = log \o buffer /\ torn' = TRUE
          \/ buffer' = << >> /\ log' = log \o Append(buffer, r) /\ torn' = FALSE
  /\ Goto(t, "send")
  /\ UNCHANGED <<proc, table, tail, backup, req, freed, saving, busy, bounds>>
  /\ Remember(due, past)

Changes(r, v) ==
  IF r.op = "DELETE_REQ" THEN v = None ELSE r.op # "READ_REQ" /\ v = r.value

(* The answer: of the values the key had, those before it are out.         *)
Send(t) ==
  /\ Runs(t) /\ pc[t] = "send"
  /\ Goto(t, "idle") /\ req' = [req EXCEPT ![t] = NoRequest]
  /\ UNCHANGED <<proc, table, buffer, files, freed, saving, busy, spoiled, bounds>>
  /\ Remember(IF Changes(req[t], table[req[t].key])
              THEN [due EXCEPT ![req[t].key] = {table[req[t].key]}] ELSE due, past)

-----------------------------------------------------------------------------
(* clean_up, in the signal handler.                                        *)

(* SIGINT is handled by any thread, wherever it is.  One that is inside    *)
(* malloc holds the lock that fopen needs.                                 *)
Signal(h) ==
  /\ proc = "serving"
  /\ busy' = (busy \/ \E t \in Threads : ~Idle(t))
  /\ \/ proc' = "saving"
     \/ h \in Threads /\ pc[h] \in {"change", "log"} /\ proc' = "stuck"
  /\ handler' = h
  /\ temp' = Empty /\ unsaved' = 0
  /\ UNCHANGED <<table, buffer, files, thread, spoiled, bounds>>
  /\ Remember(due, past)

(* Fault: backup_hash takes the bucket's lock.                             *)
SaveBucketLocked ==
  /\ proc = "saving" /\ unsaved < Size
  /\ ~ \E u \in Threads : Holds(u, "lock", unsaved)
  /\ temp' = [k \in Keys |-> IF Bucket(k) = unsaved THEN table[k] ELSE temp[k]]
  /\ unsaved' = unsaved + 1
  /\ UNCHANGED <<proc, table, buffer, files, thread, handler, history, bounds>>

(* backup_hash reads the chains without their locks.                       *)
SaveBucket ==
  /\ proc = "saving" /\ unsaved < Size
  /\ temp' = [k \in Keys |-> IF Bucket(k) = unsaved THEN table[k] ELSE temp[k]]
  /\ unsaved' = unsaved + 1
  /\ UNCHANGED <<proc, table, buffer, files, thread, handler, history, bounds>>

RemoveBackup ==
  /\ proc = "saving" /\ unsaved = Size
  /\ proc' = "removed"
  /\ backup' = NoBackup
  /\ UNCHANGED <<table, buffer, log, torn, tail, thread, saving, history, bounds>>

(* Fault: the temporary file is left where it is.                          *)
RenameBackupNever ==
  /\ proc = "removed"
  /\ proc' = "renamed"
  /\ UNCHANGED <<table, buffer, files, thread, saving, busy, spoiled, bounds>>
  /\ Remember(due, [b \in Buckets |-> {Part(temp, b)}])

RenameBackup ==
  /\ proc = "removed"
  /\ proc' = "renamed"
  /\ backup' = temp
  /\ UNCHANGED <<table, buffer, log, torn, tail, thread, saving, busy, spoiled, bounds>>
  /\ Remember(due, [b \in Buckets |-> {Part(temp, b)}])

(* The items, the locks; the threads go on.                                *)
DeleteHash ==
  /\ proc = "renamed"
  /\ proc' = "deleted"
  /\ UNCHANGED <<table, buffer, files, thread, saving, history, bounds>>

(* delete_log and exit.                                                    *)
DeleteLog ==
  /\ proc = "deleted"
  /\ log' = NoLog /\ tail' = << >>
  /\ End
  /\ UNCHANGED kills

(* Another thread uses the table or its locks after delete_hash.           *)
UseAfterDelete ==
  /\ proc = "deleted" /\ \E t \in Threads : ~Idle(t) /\ t # handler
  /\ Break
  /\ UNCHANGED kills

Kill ==
  /\ kills < MaxKills /\ proc \in Starting \cup {"serving"}
  /\ kills' = kills + 1
  /\ Break

-----------------------------------------------------------------------------

CleanUp == SaveBucket \/ RemoveBackup \/ RenameBackup \/ DeleteHash \/ DeleteLog

answer_call(t) ==
  \/ insert_item(t) \/ delete_item(t) \/ read_item(t)
  \/ LogLock(t) \/ AppendLog(t) \/ Send(t)

Next ==
  \/ CreateHash \/ Recover \/ RecoverCrashes \/ RenameLog
  \/ \E t \in Threads : Receive(t) \/ answer_call(t)
  \/ \E h \in Threads \cup {"main"} : Signal(h)
  \/ CleanUp \/ UseAfterDelete \/ Kill

Spec == Init /\ [][Next]_vars

-----------------------------------------------------------------------------
(* Properties.                                                             *)

(* Every variable has its type.                                            *)
TypeOK ==
  /\ proc \in {"down", "serving", "stuck"} \cup Starting \cup Leaving
  /\ table \in [Keys -> Values \cup {None, Junk}]
  /\ buffer \in Seq(Record)
  /\ log \in Seq(Record) \cup {NoLog} 
  /\ torn \in BOOLEAN /\ tail \in Tails
  /\ backup \in [Keys -> Values \cup {None, Junk}] \cup {NoBackup}
  /\ temp \in [Keys -> Values \cup {None, Junk}] /\ unsaved \in 0 .. Size
  /\ pc \in [Threads -> {"idle", "change", "lock", "log", "send"}]
  /\ req \in [Threads -> Request]
  /\ freed \in [Threads -> BOOLEAN]
  /\ handler \in Threads \cup {"main", "nobody"}
  /\ busy \in BOOLEAN /\ spoiled \in BOOLEAN

(* What was answered before SIGINT is there after the next start, though   *)
(* nothing flushes the log, if no request was handled at the time.         *)
AnsweredSurvive ==
  proc = "loaded" /\ kills = 0 /\ ~busy => \A k \in Keys : table[k] \in due[k]

(* A server that is killed loses what its stream held back, and no more    *)
(* than that: what it recovers of a bucket is what the bucket was at some  *)
(* time since the last backup, never a mixture, but for one key: that of   *)
(* an insertion whose value was cut at the end of the log, or that which a *)
(* cut deletion names.  (Once, as recovery makes no backup of what it      *)
(* replayed; and while nothing was overwritten, which is logged, but not   *)
(* replayed.  It may also crash, at every start: RecoverCrashes.)          *)
Misread == {tail[n].key : n \in DOMAIN tail}
RecoversThePast ==
  proc = "loaded" /\ kills <= 1 /\ ~busy /\ ~spoiled =>
    \A b \in Buckets : \E p \in past[b] : \A k \in DOMAIN p \ Misread : table[k] = p[k]

(* The signal handler waits for none of the threads that it interrupts,    *)
(* whatever locks they hold and whatever they go on doing: it can always   *)
(* take its next step, up to the end of the process.  (Unless its own      *)
(* thread was inside malloc: then it is stuck.)                            *)
HandlerWaitsForNobody == proc \in Leaving => ENABLED CleanUp

=============================================================================
