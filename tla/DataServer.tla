----------------------------- MODULE DataServer -----------------------------
(***************************************************************************)
(* The life of the data server (data-lib.c, data-server.c): it starts from *)
(* the backup and the log that it finds, serves, and either crashes, to be *)
(* started again, or is told to exit and leaves a backup and no log.       *)
(*                                                                         *)
(* The files are the state that survives.  The table is a map: HashStore   *)
(* shows that the hash table is one, and that the changes of one key reach *)
(* the log in order.  What HashStore knows of a request and matters here   *)
(* is kept: the bucket stays locked from the change until its thread has   *)
(* the log mutex, the record is appended after the bucket is released, and *)
(* the item may be gone by then.  Each key has a bucket of its own.        *)
(***************************************************************************)
EXTENDS Naturals, FiniteSets, Sequences

CONSTANTS
  Thread,        \* threads running answer_call
  Key,           \* keys, in the order in which backup_hash meets them
  Value,         \* byte arrays
  NULL,          \* no value; as the value of a request or record: a delete
  NoFile,        \* what fopen finds when there is no such file
  Garbage,       \* bytes that nobody wrote
  Room,          \* entries of a backup that are read, however long they are
  CrashPoints,   \* CrashPoints[n]: phases in which the n-th crash may come
  MaxRequests,   \* bound of the model: requests in one behaviour
  MaxStarts      \* bound of the model: starts in one behaviour

ASSUME KeyAssumption == Key \subseteq Nat /\ IsFiniteSet(Key)
ASSUME NullAssumption == NULL \notin Value /\ Garbage \notin Value \cup {NULL}
ASSUME ScenarioAssumption ==
  Room \in Nat \ {0} /\ MaxRequests \in Nat /\ MaxStarts \in Nat

VARIABLES
  phase,        \* what the process is doing, "down" if there is none
  table,        \* kv_store, as a map
  backup,       \* backup.data
  backup_temp,  \* backup.data.temp
  log,          \* log.data
  log_temp,     \* log.data.temp
  log_path,     \* the file that kv_store->log was opened on
  unsaved,      \* the keys that backup_hash has still to write
  end,          \* EXIT has been received
  pc,           \* pc[t]: the next step of thread t
  req,          \* req[t]: the write or delete that t is serving
  crashes, starts, served   \* counters for the bounds

(* What clients may expect, for the properties only: versions[k] are the   *)
(* contents that k has had since the start, oldest first; promised[k] is   *)
(* the latest whose client has its answer; mine[t] is the version that t   *)
(* made; garbled says that some record was not what was written; orderly   *)
(* that the last process came to the end of clean_up.                      *)
VARIABLES versions, promised, mine, garbled, orderly

(* The keys whose contents the code may lose, for the properties only:     *)
(* volatile are those of which this process has a content that no file     *)
(* had when it began to serve; behind those that were changed when         *)
(* backup_hash had passed them; lost those that some process has lost      *)
(* since one last served.                                                  *)
VARIABLES volatile, behind, lost

files == <<backup, backup_temp, log, log_temp>>
workers == <<pc, req, served, mine>>
promises == <<versions, promised>>
lives == <<crashes, starts, orderly>>
losses == <<volatile, behind, lost>>

vars == <<phase, table, files, log_path, unsaved, end, workers, promises,
          garbled, lives, losses>>

Content == Value \cup {NULL, Garbage}
Empty == [k \in Key |-> NULL]
Request == [key : Key, val : Value \cup {NULL}]
Record == [key : Key, val : Content]

(* The phases in which threads serve requests: main and connection_worker  *)
(* do not wait for them before they clean up.                              *)
Cleaning == {"backup", "remove", "rename_backup", "delete_hash"}
Running == {"serve", "delete_log", "exit"} \cup Cleaning
Phase == {"down", "create_log", "load", "replay", "rename_log", "recovered"}
           \cup Running

ASSUME CrashAssumption == CrashPoints \in Seq(SUBSET Phase)
ASSUME NoFileAssumption == NoFile \notin [Key -> Content] \cup Seq(Record)

Enter(p, q) == phase = p /\ phase' = q
Goto(t, label) == pc' = [pc EXCEPT ![t] = label]

Init ==
  /\ phase = "down"
  /\ table = Empty
  /\ backup = NoFile /\ backup_temp = NoFile
  /\ log = NoFile /\ log_temp = NoFile /\ log_path = "log"
  /\ unsaved = {}
  /\ end = FALSE
  /\ pc = [t \in Thread |-> "recv"]
  /\ req = [t \in Thread |-> NULL]
  /\ crashes = 0 /\ starts = 0 /\ served = 0
  /\ versions = [k \in Key |-> <<NULL>>]
  /\ promised = [k \in Key |-> 1]
  /\ mine = [t \in Thread |-> 0]
  /\ garbled = FALSE
  /\ orderly = TRUE
  /\ volatile = {} /\ behind = {} /\ lost = {}

-----------------------------------------------------------------------------
(* Starting: setup_backup and the functions it calls.                      *)

Start ==
  /\ Enter("down", "create_log")
  /\ starts < MaxStarts
  /\ starts' = starts + 1
  /\ UNCHANGED <<table, files, log_path, unsaved, end, workers, promises,
                 garbled, crashes, orderly, losses>>

(* Fault: the log is opened under its own name and loses its records.      *)
CreateLogInPlace ==
  /\ Enter("create_log", "load")
  /\ log' = << >>
  /\ log_path' = IF log = NoFile THEN "log" ELSE "log_temp"
  /\ log_temp' = IF log = NoFile THEN log_temp ELSE << >>
  /\ UNCHANGED <<table, backup, backup_temp, unsaved, end, workers, promises,
                 garbled, lives, losses>>

(* create_log truncates the file it opens; next to a log of an earlier     *)
(* process, that is a temporary one.                                       *)
CreateLog ==
  /\ Enter("create_log", "load")
  /\ IF log = NoFile
     THEN log' = << >> /\ log_path' = "log" /\ UNCHANGED log_temp
     ELSE log_temp' = << >> /\ log_path' = "log_temp" /\ UNCHANGED log
  /\ UNCHANGED <<table, backup, backup_temp, unsaved, end, workers, promises,
                 garbled, lives, losses>>

(* What create_hash_from_backup leaves unread: nothing, or all that        *)
(* follows the first header that lies across the end of its buffer, which  *)
(* it refills wrongly.  Which one that is depends on the lengths.          *)
Unread(map) ==
  LET saved == {k \in Key : map[k] # NULL}
  IN  {u \in SUBSET saved : /\ \A k \in u, j \in saved \ u : j < k
                           /\ u # {} => Cardinality(saved \ u) >= Room}

(* create_hash, or create_hash_from_backup if there is a backup.           *)
Load ==
  /\ phase = "load"
  /\ phase' = IF log_path = "log" THEN "recovered" ELSE "replay"
  /\ LET map == IF backup = NoFile THEN Empty ELSE backup
     IN  \E u \in Unread(map) :
           /\ table' = [k \in Key |-> IF k \in u THEN NULL ELSE map[k]]
           /\ volatile' = u
           /\ lost' = lost \cup u
  /\ UNCHANGED <<files, log_path, unsaved, end, workers, promises, garbled, lives,
                 behind>>

(* Fault: only inserts are replayed.                                       *)
ReplayedInserts(map, records) ==
  [k \in Key |->
     IF \E n \in 1 .. Len(records) : records[n].key = k /\ records[n].val # NULL
     THEN LET last == CHOOSE n \in 1 .. Len(records) :
                        /\ records[n].key = k
                        /\ records[n].val # NULL
                        /\ \A m \in n + 1 .. Len(records) :
                             records[m].key # k \/ records[m].val = NULL
          IN  records[last].val
     ELSE map[k]]

(* The map after the records, applied in order.                            *)
Replayed(map, records) ==
  [k \in Key |->
     IF \E n \in 1 .. Len(records) : records[n].key = k
     THEN LET last == CHOOSE n \in 1 .. Len(records) :
                        /\ records[n].key = k
                        /\ \A m \in n + 1 .. Len(records) : records[m].key # k
          IN  records[last].val
     ELSE map[k]]

(* How many records process_hash_log gets through: a garbled one may end   *)
(* it (setup_backup then ignores the rest), or be taken for a value.       *)
Understood(records) ==
  {Len(records)} \cup
    {n \in 0 .. Len(records) - 1 :
       /\ records[n + 1].val = Garbage
       /\ \A m \in 1 .. n : records[m].val # Garbage}

KeysOf(file) == IF file = NoFile THEN {} ELSE {file[n].key : n \in 1 .. Len(file)}

Replay ==
  /\ Enter("replay", "rename_log")
  /\ \E n \in Understood(log) : table' = Replayed(table, SubSeq(log, 1, n))
  /\ volatile' = volatile \cup KeysOf(log)
  /\ lost' = lost \ KeysOf(log)
  /\ UNCHANGED <<files, log_path, unsaved, end, workers, promises, garbled, lives,
                 behind>>

(* rename_log: the old log is gone, and what replay took from it is in     *)
(* memory only.                                                            *)
RenameLog ==
  /\ Enter("rename_log", "recovered")
  /\ log' = log_temp
  /\ log_temp' = NoFile
  /\ log_path' = "log"
  /\ UNCHANGED <<table, backup, backup_temp, unsaved, end, workers, promises,
                 garbled, lives, losses>>

(* setup_server: from now on clients connect, and see this table.          *)
Listen ==
  /\ Enter("recovered", "serve")
  /\ end' = FALSE
  /\ versions' = [k \in Key |-> <<table[k]>>]
  /\ promised' = [k \in Key |-> 1]
  /\ lost' = {}
  /\ UNCHANGED <<table, files, log_path, unsaved, workers, garbled, lives,
                 volatile, behind>>

-----------------------------------------------------------------------------
(* Serving: what write_preq and delete_preq do to the table and the log.   *)

(* A thread that waits for a request when EXIT arrives still serves it.    *)
Receive(t, r) ==
  /\ phase \in Running
  /\ pc[t] = "recv"
  /\ served < MaxRequests
  /\ served' = served + 1
  /\ req' = [req EXCEPT ![t] = r]
  /\ Goto(t, "change")
  /\ UNCHANGED <<phase, table, files, log_path, unsaved, end, promises, mine,
                 garbled, lives, losses>>

(* A thread on the way to its record: another one has the bucket, or the   *)
(* log mutex, of key k.                                                    *)
Busy(label, k) == \E u \in Thread : pc[u] = label /\ req[u].key = k

(* The table is there until delete_hash frees it.                          *)
TableLives == phase \in {"serve"} \cup Cleaning

(* The critical section of insert_item (with overwrite) or delete_item.    *)
Change(t) ==
  LET k == req[t].key
      v == req[t].val
  IN  /\ TableLives
      /\ pc[t] = "change"
      /\ ~Busy("log_lock", k)
      /\ IF v = NULL /\ table[k] = NULL
         THEN /\ Goto(t, "send")
              /\ mine' = [mine EXCEPT ![t] = promised[k]]
              /\ UNCHANGED <<table, versions, behind>>
         ELSE /\ Goto(t, "log_lock")
              /\ table' = [table EXCEPT ![k] = v]
              /\ versions' = [versions EXCEPT ![k] = Append(@, v)]
              /\ mine' = [mine EXCEPT ![t] = Len(versions[k]) + 1]
              /\ behind' = IF phase \in Cleaning /\ k \notin unsaved
                           THEN behind \cup {k} ELSE behind
      /\ UNCHANGED <<phase, files, log_path, unsaved, end, req, served,
                     promised, garbled, lives, volatile, lost>>

LogLock(t) ==
  /\ TableLives
  /\ pc[t] = "log_lock"
  /\ ~Busy("log", req[t].key)
  /\ Goto(t, "log")
  /\ UNCHANGED <<phase, table, files, log_path, unsaved, end, req, served, mine,
                 promises, garbled, lives, losses>>

(* log_insert or log_delete.  An insert reads the item, which the thread   *)
(* that now waits for the log mutex has freed.                             *)
Logged(t) ==
  IF req[t].val # NULL /\ Busy("log_lock", req[t].key)
  THEN {req[t].val, Garbage}
  ELSE {req[t].val}

AppendLog(t) ==
  /\ TableLives
  /\ pc[t] = "log"
  /\ \E v \in Logged(t) :
       /\ log' = Append(log, [key |-> req[t].key, val |-> v])
       /\ garbled' = (garbled \/ v = Garbage)
  /\ Goto(t, "send")
  /\ UNCHANGED <<phase, table, backup, backup_temp, log_temp, log_path, unsaved,
                 end, req, served, mine, promises, lives, losses>>

(* The answer is sent; answer_call looks at end before the next request.   *)
Send(t) ==
  LET k == req[t].key
  IN  /\ phase \in Running
      /\ pc[t] = "send"
      /\ promised' = [promised EXCEPT ![k] = IF @ < mine[t] THEN mine[t] ELSE @]
      /\ Goto(t, IF end THEN "stopped" ELSE "recv")
      /\ req' = [req EXCEPT ![t] = NULL]
      /\ mine' = [mine EXCEPT ![t] = 0]
      /\ UNCHANGED <<phase, table, files, log_path, unsaved, end, served,
                     versions, garbled, lives, losses>>

-----------------------------------------------------------------------------
(* Leaving: clean_up and the functions it calls.                           *)

(* connection_worker receives EXIT from the front server.                  *)
ReceiveExit ==
  /\ phase = "serve"
  /\ ~end
  /\ end' = TRUE
  /\ UNCHANGED <<phase, table, files, log_path, unsaved, workers, promises,
                 garbled, lives, losses>>

(* Fault: clean_up waits for the threads.                                  *)
OpenBackupJoins ==
  /\ Enter("serve", "backup")
  /\ end
  /\ \A t \in Thread : pc[t] = "stopped"
  /\ backup_temp' = Empty
  /\ unsaved' = Key
  /\ UNCHANGED <<table, backup, log, log_temp, log_path, end, workers, promises,
                 garbled, lives, losses>>

(* clean_up calls backup_hash, which opens the temporary backup.           *)
OpenBackup ==
  /\ Enter("serve", "backup")
  /\ end
  /\ backup_temp' = Empty
  /\ unsaved' = Key
  /\ UNCHANGED <<table, backup, log, log_temp, log_path, end, workers, promises,
                 garbled, lives, losses>>

(* backup_hash writes one bucket.  It takes no lock: a thread that changes *)
(* the bucket meanwhile frees what is being read.                          *)
SaveBucket ==
  \E k \in unsaved :
    /\ phase = "backup"
    /\ \A j \in unsaved : k <= j
    /\ \E v \in {table[k]} \cup (IF Busy("change", k) /\ table[k] # NULL
                                 THEN {Garbage} ELSE {}) :
         /\ backup_temp' = [backup_temp EXCEPT ![k] = v]
         /\ garbled' = (garbled \/ v = Garbage)
    /\ unsaved' = unsaved \ {k}
    /\ UNCHANGED <<phase, table, backup, log, log_temp, log_path, end, workers,
                   promises, lives, losses>>

(* Fault: the last bucket is left out.                                     *)
CloseBackupEarly ==
  /\ Enter("backup", "remove")
  /\ \A j, k \in unsaved : j = k
  /\ UNCHANGED <<table, files, log_path, unsaved, end, workers, promises,
                 garbled, lives, losses>>

CloseBackup ==
  /\ Enter("backup", "remove")
  /\ unsaved = {}
  /\ UNCHANGED <<table, files, log_path, unsaved, end, workers, promises,
                 garbled, lives, losses>>

(* The old backup, if there is one, is removed...                          *)
RemoveBackup ==
  /\ Enter("remove", "rename_backup")
  /\ backup' = NoFile
  /\ UNCHANGED <<table, backup_temp, log, log_temp, log_path, unsaved, end,
                 workers, promises, garbled, lives, losses>>

(* ... and the new one takes its name.                                     *)
RenameBackup ==
  /\ Enter("rename_backup", "delete_hash")
  /\ backup' = backup_temp
  /\ backup_temp' = NoFile
  /\ UNCHANGED <<table, log, log_temp, log_path, unsaved, end, workers,
                 promises, garbled, lives, losses>>

(* delete_hash frees the items, the entries and the locks.                 *)
DeleteHash ==
  /\ Enter("delete_hash", "delete_log")
  /\ table' = Empty
  /\ UNCHANGED <<files, log_path, unsaved, end, workers, promises, garbled,
                 lives, losses>>

(* Fault: the log is closed and not removed.                               *)
DeleteLogKeeps ==
  /\ Enter("delete_log", "exit")
  /\ UNCHANGED <<table, files, log_path, unsaved, end, workers, promises,
                 garbled, lives, losses>>

(* delete_log removes the file it was opened on.                           *)
DeleteLog ==
  /\ Enter("delete_log", "exit")
  /\ IF log_path = "log"
     THEN log' = NoFile /\ UNCHANGED log_temp
     ELSE log_temp' = NoFile /\ UNCHANGED log
  /\ UNCHANGED <<table, backup, backup_temp, log_path, unsaved, end, workers,
                 promises, garbled, lives, losses>>

(* What is lost if the process ends here: what is in memory only, and      *)
(* everything that is not in the log while no backup has its name; and at  *)
(* the end what came behind backup_hash, for then the log is gone.         *)
Exposed ==
  CASE phase \in {"recovered", "serve", "backup", "remove"} -> volatile \ KeysOf(log)
    [] phase = "rename_backup" -> Key \ KeysOf(log)
    [] phase = "exit" -> behind
    [] OTHER -> {}

(* The process is gone, with its memory and its threads.                   *)
Die ==
  /\ phase' = "down"
  /\ table' = Empty
  /\ log_path' = "log"
  /\ unsaved' = {}
  /\ end' = FALSE
  /\ pc' = [t \in Thread |-> "recv"]
  /\ req' = [t \in Thread |-> NULL]
  /\ mine' = [t \in Thread |-> 0]
  /\ volatile' = {} /\ behind' = {}
  /\ lost' = lost \cup Exposed
  /\ UNCHANGED <<files, served, promises, garbled, starts>>

Exit ==
  /\ phase = "exit"
  /\ orderly' = TRUE
  /\ Die
  /\ UNCHANGED crashes

(* The process is killed, or loses its machine.  log_insert and log_delete *)
(* flush, so that files keep what was written.                             *)
Crash ==
  /\ crashes < Len(CrashPoints)
  /\ phase \in CrashPoints[crashes + 1]
  /\ crashes' = crashes + 1
  /\ orderly' = FALSE
  /\ Die

(* A thread that serves a request uses the table after delete_hash.        *)
UseAfterDelete(t) ==
  /\ phase \in {"delete_log", "exit"}
  /\ pc[t] \in {"change", "log_lock", "log"}
  /\ orderly' = FALSE
  /\ Die
  /\ UNCHANGED crashes

-----------------------------------------------------------------------------

Starting == CreateLog \/ Load \/ Replay \/ RenameLog \/ Listen

Leaving ==
  \/ OpenBackup \/ SaveBucket \/ CloseBackup \/ RemoveBackup \/ RenameBackup
  \/ DeleteHash \/ DeleteLog \/ Exit

Serving(t) ==
  \/ Change(t) \/ LogLock(t) \/ AppendLog(t) \/ Send(t)
  \/ UseAfterDelete(t)

Next ==
  \/ Start \/ Starting
  \/ \E t \in Thread : (\E r \in Request : Receive(t, r)) \/ Serving(t)
  \/ ReceiveExit \/ Leaving
  \/ Crash

(* The operating system runs the threads of the process.  Nobody has to    *)
(* start it, to send requests or to tell it to exit.                       *)
Fairness ==
  /\ WF_vars(Starting)
  /\ WF_vars(Leaving)
  /\ \A t \in Thread : WF_vars(Serving(t))

Spec == Init /\ [][Next]_vars /\ Fairness

-----------------------------------------------------------------------------
(***************************************************************************)
(* Correctness.                                                            *)
(***************************************************************************)

(* Every variable has its type.                                            *)
TypeOK ==
  /\ phase \in Phase
  /\ table \in [Key -> Content]
  /\ backup \in [Key -> Content] \cup {NoFile}
  /\ backup_temp \in [Key -> Content] \cup {NoFile}
  /\ log \in Seq(Record) \cup {NoFile}
  /\ log_temp \in Seq(Record) \cup {NoFile}
  /\ log_path \in {"log", "log_temp"}
  /\ unsaved \subseteq Key
  /\ end \in BOOLEAN
  /\ pc \in [Thread -> {"recv", "change", "log_lock", "log", "send", "stopped"}]
  /\ req \in [Thread -> Request \cup {NULL}]
  /\ versions \in [Key -> Seq(Content)]
  /\ \A k \in Key : promised[k] \in 1 .. Len(versions[k])
  /\ mine \in [Thread -> Nat]
  /\ crashes \in 0 .. Len(CrashPoints)
  /\ starts \in 0 .. MaxStarts /\ served \in 0 .. MaxRequests
  /\ garbled \in BOOLEAN /\ orderly \in BOOLEAN
  /\ volatile \subseteq Key /\ behind \subseteq Key /\ lost \subseteq Key

(* The data server has recovered key k: it holds the content whose change  *)
(* was answered last, or that of a later change.                           *)
Recovered(k) ==
  \E n \in promised[k] .. Len(versions[k]) : table[k] = versions[k][n]

(* The backup and the log maintain data between executions of the data     *)
(* server (Relatorio.tex, section Backup and Log): no write or delete that *)
(* was answered is lost, whatever the last process died of.                *)
AnsweredSurvive == phase = "recovered" => \A k \in Key : Recovered(k)

(* The same, as long as every record in the files is what its thread meant *)
(* to write.                                                               *)
AnsweredSurviveIntact == garbled \/ AnsweredSurvive

(* What the code does keep of it: whatever the processes before died of,   *)
(* and at whatever step of starting, serving, leaving or recovering, no    *)
(* write or delete that was answered is lost but of a key that this        *)
(* process did not read from its backup, that one before it had only in    *)
(* memory, or outside the log while no backup had its name, or that was    *)
(* changed behind backup_hash.  So the changes that a process made itself  *)
(* survive its death at any step that follows EXIT or not, and an orderly  *)
(* exit keeps all that was answered before EXIT.                           *)
OnlyExposedAreLost ==
  phase = "recovered" /\ ~garbled => \A k \in Key \ lost : Recovered(k)

(* The backup file is only deleted after a new backup file is ready        *)
(* (Relatorio.tex, section Backup and Log): whatever clients do meanwhile, *)
(* no answered change is missing in it that was not made behind            *)
(* backup_hash.                                                            *)
NewBackupReady ==
  phase = "rename_backup" /\ ~garbled =>
    \A k \in Key \ behind : \E n \in promised[k] .. Len(versions[k]) :
      backup_temp[k] = versions[k][n]

(* There only exists a log file if the data server didn't exit orderly     *)
(* (Relatorio.tex, section Backup and Log), and there is a backup if it    *)
(* did.                                                                    *)
OrderlyExitLeavesBackup ==
  phase = "down" /\ orderly /\ starts > 0 => log = NoFile /\ backup # NoFile

(* Replaying the log over a backup that already has its changes alters     *)
(* nothing: a crash between the rename of the backup and the removal of    *)
(* the log is harmless to each key, but one that was changed behind        *)
(* backup_hash, or one whose change is not yet recorded.                   *)
ReplayIdempotent ==
  phase = "delete_hash" /\ ~garbled =>
    \A k \in Key \ behind :
      ~Busy("log_lock", k) /\ ~Busy("log", k) => Replayed(backup, log)[k] = backup[k]

(* EXIT ends the process, even if clients keep their connections open.     *)
ExitEnds == end ~> phase = "down"

=============================================================================
