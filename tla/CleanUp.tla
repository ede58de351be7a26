------------------------------- MODULE CleanUp ------------------------------
(***************************************************************************)
(* The end of the data server, which has two callers of clean_up: the      *)
(* connection worker after EXIT, and main, when accept fails or a client   *)
(* connects after EXIT.  Both write the same temporary file, look for the  *)
(* same backup, free the same table and remove the same log.               *)
(*                                                                         *)
(* A file is an inode with names.  The table is smaller than the buffer of *)
(* a stream, which is written by fclose, or by exit for every stream.      *)
(*                                                                         *)
(* No name is one of DataServer's, so that a module can extend both.       *)
(***************************************************************************)
EXTENDS Integers, FiniteSets

CONSTANTS
  Items,      \* the table: 1 .. Items, in the order of its buckets
  InLog       \* the items that are in the log, and not in the old backup

ASSUME CleanUpAssumption ==
  Items \in Nat \ {0} /\ InLog \subseteq 1 .. Items

VARIABLES
  gone,      \* the process has ended
  told,      \* end: the worker has received EXIT
  at,        \* at[a]: the next step of a in clean_up
  stream,    \* stream[a]: the inode that a writes to
  buffer,    \* buffer[a]: how many items a has written
  name,      \* name[n]: the inode of that name
  content,   \* content[i]: the items in inode i
  has_log,   \* there is a log file
  freed      \* delete_hash has been called

cleanUpVars == <<gone, told, at, stream, buffer, name, content, has_log, freed>>

Actor == {"main", "worker"}
Inode == 0 .. 3
NoInode == 0
OldBackup == 1
Stream == [a \in Actor |-> IF a = "main" THEN 2 ELSE 3]   \* what fopen creates
Table == 1 .. Items

StepTo(a, label) == at' = [at EXCEPT ![a] = label]

CleanUpInit ==
  /\ gone = FALSE /\ told = FALSE
  /\ at = [a \in Actor |-> "run"]
  /\ stream = [a \in Actor |-> NoInode]
  /\ buffer = [a \in Actor |-> 0]
  /\ name \in {[backup |-> b, temp |-> NoInode] :
                 b \in {OldBackup} \cup (IF InLog = Table THEN {NoInode} ELSE {})}
  /\ content = [i \in Inode |-> IF i = OldBackup THEN Table \ InLog ELSE {}]
  /\ has_log = TRUE /\ freed = FALSE

(* The worker has received EXIT; main's accept fails, or it looks at end   *)
(* after one more client.                                                  *)
CallCleanUp(a) ==
  /\ ~gone /\ at[a] = "run"
  /\ told' = (told \/ a = "worker")
  /\ StepTo(a, "open")
  /\ UNCHANGED <<gone, stream, buffer, name, content, has_log, freed>>

(* fopen(temp_path, "w") truncates a file that is there.                   *)
fopen(a) ==
  /\ ~gone /\ at[a] = "open"
  /\ stream' = [stream EXCEPT ![a] = IF name.temp = NoInode THEN Stream[a] ELSE name.temp]
  /\ name' = [name EXCEPT !.temp = stream'[a]]
  /\ content' = [content EXCEPT ![stream'[a]] = {}]
  /\ StepTo(a, "write")
  /\ UNCHANGED <<gone, told, buffer, has_log, freed>>

(* One item; of a table that was freed there may be none.                  *)
WriteBucket(a) ==
  /\ ~gone /\ at[a] = "write" /\ buffer[a] < Items
  /\ \/ buffer' = [buffer EXCEPT ![a] = @ + 1] /\ UNCHANGED at
     \/ freed /\ StepTo(a, "close") /\ UNCHANGED buffer
  /\ UNCHANGED <<gone, told, stream, name, content, has_log, freed>>

Flushed(i) == {n \in Table : \E a \in Actor : stream[a] = i /\ n <= buffer[a]}

fclose(a) ==
  /\ ~gone
  /\ at[a] = "close" \/ (at[a] = "write" /\ buffer[a] = Items)
  /\ content' = [content EXCEPT ![stream[a]] = @ \cup 1 .. buffer[a]]
  /\ stream' = [stream EXCEPT ![a] = NoInode]
  /\ StepTo(a, "look")
  /\ UNCHANGED <<gone, told, buffer, name, has_log, freed>>

access(a) ==
  /\ ~gone /\ at[a] = "look"
  /\ StepTo(a, IF name.backup = NoInode THEN "rename" ELSE "remove")
  /\ UNCHANGED <<gone, told, stream, buffer, name, content, has_log, freed>>

(* Fault: the temporary file is removed, not the backup.                   *)
RemoveTemp(a) ==
  /\ ~gone /\ at[a] = "remove"
  /\ name' = [name EXCEPT !.temp = NoInode]
  /\ StepTo(a, "rename")
  /\ UNCHANGED <<gone, told, stream, buffer, content, has_log, freed>>

remove(a) ==
  /\ ~gone /\ at[a] = "remove"
  /\ name' = [name EXCEPT !.backup = NoInode]
  /\ StepTo(a, "rename")
  /\ UNCHANGED <<gone, told, stream, buffer, content, has_log, freed>>

(* It may fail, and nobody asks.                                           *)
rename(a) ==
  /\ ~gone /\ at[a] = "rename"
  /\ name' = IF name.temp = NoInode THEN name ELSE [backup |-> name.temp, temp |-> NoInode]
  /\ StepTo(a, "free")
  /\ UNCHANGED <<gone, told, stream, buffer, content, has_log, freed>>

(* A second free aborts the process.                                       *)
delete_hash(a) ==
  /\ ~gone /\ at[a] = "free"
  /\ IF freed THEN gone' = TRUE /\ UNCHANGED <<at, freed>>
     ELSE freed' = TRUE /\ StepTo(a, "delete_log") /\ UNCHANGED gone
  /\ UNCHANGED <<told, stream, buffer, name, content, has_log>>

delete_log(a) ==
  /\ ~gone /\ at[a] = "delete_log"
  /\ has_log' = FALSE
  /\ StepTo(a, "exit")
  /\ UNCHANGED <<gone, told, stream, buffer, name, content, freed>>

(* Fault: the worker ends with pthread_exit.                               *)
ExitThread(a) ==
  /\ ~gone /\ at[a] = "exit" /\ a = "main"
  /\ gone' = TRUE
  /\ content' = [i \in Inode |-> IF i = NoInode THEN {} ELSE content[i] \cup Flushed(i)]
  /\ UNCHANGED <<told, at, stream, buffer, name, has_log, freed>>

(* exit writes what the streams hold.                                      *)
exit(a) ==
  /\ ~gone /\ at[a] = "exit"
  /\ gone' = TRUE
  /\ content' = [i \in Inode |-> IF i = NoInode THEN {} ELSE content[i] \cup Flushed(i)]
  /\ UNCHANGED <<told, at, stream, buffer, name, has_log, freed>>

(* A thread that uses the freed table may end the process.                 *)
UseAfterFree(a) ==
  /\ ~gone /\ freed /\ at[a] = "write"
  /\ gone' = TRUE
  /\ UNCHANGED <<told, at, stream, buffer, name, content, has_log, freed>>

backup_hash(a) == fopen(a) \/ WriteBucket(a) \/ fclose(a) \/ access(a) \/ remove(a) \/ rename(a)
clean_up(a) == backup_hash(a) \/ delete_hash(a) \/ delete_log(a) \/ exit(a)

CleanUpNext == \E a \in Actor : CallCleanUp(a) \/ clean_up(a) \/ UseAfterFree(a)

CleanUpSpec ==
  CleanUpInit /\ [][CleanUpNext]_cleanUpVars /\ \A a \in Actor : WF_cleanUpVars(clean_up(a))

-----------------------------------------------------------------------------
(* Properties.                                                             *)

(* Every variable has its type; two names are two files.                   *)
CleanUpTypeOK ==
  /\ {gone, told, has_log, freed} \subseteq BOOLEAN
  /\ at \in [Actor -> {"run", "open", "write", "close", "look", "remove", "rename",
                       "free", "delete_log", "exit"}]
  /\ stream \in [Actor -> Inode]
  /\ buffer \in [Actor -> 0 .. Items]
  /\ name \in [backup : Inode, temp : Inode]
  /\ name.temp = NoInode \/ name.temp # name.backup
  /\ content \in [Inode -> SUBSET Table]

(* When the process has ended, backup and log hold every item, if only one *)
(* of the two has got as far as fopen.                                     *)
LeavesEverything ==
  gone /\ (\E a \in Actor : at[a] \in {"run", "open"}) =>
    content[name.backup] \cup (IF has_log THEN InLog ELSE {}) = Table

(* Who enters clean_up ends the process.                                   *)
CleanUpEnds == \A a \in Actor : at[a] # "run" ~> gone

=============================================================================
