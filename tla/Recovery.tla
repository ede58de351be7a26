------------------------------ MODULE Recovery ------------------------------
(***************************************************************************)
(* setup_backup on the bytes of the files: create_hash_from_backup reads   *)
(* the backup (module BackupReader), then process_hash_log the log (module *)
(* LogReader) over the table it made.                                      *)
(***************************************************************************)
EXTENDS Scan, SequencesExt, FiniteSets

CONSTANTS
  Entries,      \* what a backup may hold: [key, size, value]
  Records,      \* what may be logged: [type, key, size, value]
  BackupBuf,    \* 1024
  LogBuf,       \* 100
  MaxItems,     \* bound of the model: entries and records together
  MaxDamaged    \* the same, if the log was damaged

ASSUME RecoveryAssumption ==
  /\ Entries \subseteq Item
  /\ \A e \in Entries : Sized(e) /\ 2 * (Len(e.key) + Len(e.size) + 2) <= BackupBuf
  /\ \A r \in Records :
       \/ r \in [type : {"D"}, key : Numeral] /\ Len(r.key) + 2 <= LogBuf
       \/ /\ r \in [type : {"I"}, key : Numeral, size : Numeral, value : Seq(Int)]
          /\ Sized(r) /\ Len(r.key) + Len(r.size) + 4 <= LogBuf
  /\ BackupBuf \in Nat /\ LogBuf \in Nat
  /\ MaxItems \in Nat /\ MaxDamaged \in 0 .. MaxItems

VARIABLES
  table,                                              \* kv_store
  saved, backup_rest, backup_buf, buf2, aux, backup_status, carried,
  records, damage, length, log_rest, log_buf, log_status

backup == <<saved, backup_rest, backup_buf, buf2, aux, backup_status, carried>>
log == <<records, damage, length, log_rest, log_buf, log_status>>
vars == <<table, backup, log>>

Backup == INSTANCE BackupReader
            WITH BufSize <- BackupBuf, rest <- backup_rest, buf <- backup_buf,
                 status <- backup_status
Log == INSTANCE LogReader
         WITH BufSize <- LogBuf, rest <- log_rest, buf <- log_buf, status <- log_status

(* The files that a server may find: entries of different keys, and        *)
(* records; without entries or records there may as well be no file.       *)
Files ==
  UNION {{<<es, rs>> : rs \in SeqOf(Records, MaxItems - Len(es))} :
           es \in {es \in SeqOf(Entries, MaxItems) : Backup!Distinct(es)}}

Init ==
  \E file \in Files, d \in {"none", "cut", "garbled"} :
    /\ d # "none" => Len(file[1]) + Len(file[2]) <= MaxDamaged
    /\ Backup!Open(file[1])
    /\ Log!Open(file[2], d)
    /\ table = Nothing

ReadBackup == Backup!ReadEntry /\ UNCHANGED log
ReadLog == backup_status = "done" /\ Log!ReadRecord /\ UNCHANGED backup

Next == ReadBackup \/ ReadLog

Spec == Init /\ [][Next]_vars

-----------------------------------------------------------------------------
(* Properties.                                                             *)

(* Both loops have ended, and the process with neither.                    *)
Done == backup_status = "done" /\ log_status \in {"done", "error"}

(* What create_hash_from_backup makes of the backup: the entries before    *)
(* the first whose key and size lie across the end of the buffer.  That    *)
(* one and all behind it are lost: the code carries the bytes it has used  *)
(* over, not those that are left (phash-lib.c:404).                        *)
Base == Backup!Saved(Backup!Reached)

(* What the records make of that is recovered, no more and no less, and    *)
(* setup_backup returns, if the log is intact: wherever the entries and    *)
(* records lie in the two buffers, and whatever their values look like.    *)
RecoversReached ==
  backup_status = "done" /\ log_status # "reading" /\ damage = "none" =>
    log_status = "done" /\ table = Log!Replayed(Base, Len(records))

(* At every turn aux is at an entry of the backup, and then the buffer at  *)
(* a record of the log, and the table is what those before it make.        *)
InStep ==
  /\ backup_status = "reading" /\ ~carried => Backup!AtEntry
  /\ backup_status = "done" /\ log_status = "reading" /\ damage = "none" => Log!AtRecord(Base)

(* setup_backup returns, with whatever backup and whatever log, but for    *)
(* two logs: a record of unknown type is looked at for ever, and a log     *)
(* that ends in the value of an insertion may end the process, as buf_left *)
(* gets negative (phash-lib.c:556).  Every other turn is the last one or   *)
(* takes something from the file.                                          *)
Returns ==
  /\ backup_status = "reading" => Backup!Advances
  /\ log_status = "reading" => Log!Advances \/ (damage = "garbled" /\ log_buf[1] = Other)
  /\ log_status = "crash" => Log!CutInValue

(* If setup_backup returns from a log that ends within a record, that      *)
(* costs one key at most: all the others are as the whole records before   *)
(* it left them.                                                           *)
CutCostsOneKey ==
  Done /\ damage = "cut" =>
    LET t == Log!Replayed(Base, Log!Whole) IN
    Cardinality({k \in DOMAIN t \cup DOMAIN table :
                   ~(k \in DOMAIN t \cap DOMAIN table /\ table[k] = t[k])}) <= 1

=============================================================================
