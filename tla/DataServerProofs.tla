-------------------------- MODULE DataServerProofs --------------------------
(***************************************************************************)
(* Proofs about DataServer, for any sets of threads, keys and values, any  *)
(* number of requests and starts, and crashes at any steps: what an        *)
(* orderly exit leaves, and which answered changes survive.                *)
(* At the end, about CleanUp, which has both callers of clean_up, for a    *)
(* table of any size.                                                      *)
(***************************************************************************)
EXTENDS DataServer, CleanUp, WellFoundedInduction, TLAPS

-----------------------------------------------------------------------------
(* What Replayed computes.                                                 *)

IsLast(L, k, n) ==
  n \in 1 .. Len(L) /\ L[n].key = k /\ \A m \in n + 1 .. Len(L) : L[m].key # k

(* A key that has a record has a last one.                                 *)
LEMMA LastRecord ==
  ASSUME NEW L \in Seq(Record), NEW k, NEW i \in 1 .. Len(L), L[i].key = k
  PROVE  \E n : IsLast(L, k, n)
<1> DEFINE T == {d \in Nat : d < Len(L) /\ L[Len(L) - d].key = k}
<1>1. Len(L) \in Nat /\ i \in Nat
  OBVIOUS
<1>2. Len(L) - i \in T
  BY <1>1
<1>3. T \subseteq Nat /\ T # {}
  BY <1>2
<1>4. PICK d \in T : \A e \in T : <<e, d>> \notin OpToRel(<, Nat)
  <2> HIDE DEF T
  <2> QED
    BY <1>3, NatLessThanWellFounded, WFMin, Zenon
<1>5. \A e \in T : ~(e < d)
  <2> HIDE DEF T
  <2> QED
    BY <1>3, <1>4, Zenon DEF OpToRel
<1>6. d \in Nat /\ d < Len(L) /\ L[Len(L) - d].key = k
  OBVIOUS
<1>7. ASSUME NEW m \in Len(L) - d + 1 .. Len(L) PROVE L[m].key # k
  <2>1. Len(L) - m \in Nat /\ Len(L) - m < d /\ Len(L) - (Len(L) - m) = m
    BY <1>1, <1>6
  <2>2. Len(L) - m \notin T
    BY <1>5, <2>1
  <2> QED
    BY <1>1, <1>6, <2>1, <2>2
<1>8. Len(L) - d \in 1 .. Len(L)
  BY <1>1, <1>6
<1> QED
  BY <1>6, <1>7, <1>8 DEF IsLast

(* A key has the value of its last record, or the one it had.              *)
LEMMA ReplayedIs ==
  ASSUME NEW X, NEW L \in Seq(Record), NEW k \in Key
  PROVE  /\ (\A n \in 1 .. Len(L) : L[n].key # k) => Replayed(X, L)[k] = X[k]
         /\ \A n : IsLast(L, k, n) => Replayed(X, L)[k] = L[n].val
<1>1. (\A n \in 1 .. Len(L) : L[n].key # k) => Replayed(X, L)[k] = X[k]
  BY DEF Replayed
<1>2. ASSUME NEW n, IsLast(L, k, n) PROVE Replayed(X, L)[k] = L[n].val
  <2> DEFINE last == CHOOSE i \in 1 .. Len(L) :
                       /\ L[i].key = k
                       /\ \A m \in i + 1 .. Len(L) : L[m].key # k
  <2>1. IsLast(L, k, last)
    BY <1>2 DEF IsLast
  <2>2. ASSUME NEW i, IsLast(L, k, i) PROVE i = n
    BY <1>2, <2>2 DEF IsLast
  <2>3. last = n
    BY <2>1, <2>2
  <2>4. Replayed(X, L)[k] = L[last].val
    BY <1>2 DEF Replayed, IsLast
  <2> QED
    BY <2>3, <2>4
<1> QED
  BY <1>1, <1>2

(* One more record.                                                        *)
LEMMA ReplayedAppend ==
  ASSUME NEW X, NEW L \in Seq(Record), NEW r \in Record, NEW k \in Key
  PROVE  Replayed(X, Append(L, r))[k] = IF r.key = k THEN r.val ELSE Replayed(X, L)[k]
<1> DEFINE M == Append(L, r)
<1>1. /\ M \in Seq(Record) /\ Len(M) = Len(L) + 1 /\ M[Len(L) + 1] = r
      /\ \A n \in 1 .. Len(L) : M[n] = L[n]
      /\ Len(L) \in Nat
  OBVIOUS
<1> SUFFICES Replayed(X, M)[k] = IF r.key = k THEN r.val ELSE Replayed(X, L)[k]
  OBVIOUS
<1> HIDE DEF M
<1>2. CASE r.key = k
  <2>1. IsLast(M, k, Len(L) + 1)
    BY <1>1, <1>2 DEF IsLast
  <2> QED
    BY <1>1, <1>2, <2>1, ReplayedIs
<1>3. CASE r.key # k /\ \A n \in 1 .. Len(L) : L[n].key # k
  <2>1. \A n \in 1 .. Len(M) : M[n].key # k
    BY <1>1, <1>3
  <2> QED
    BY <1>1, <1>3, <2>1, ReplayedIs
<1>4. ASSUME r.key # k, NEW i \in 1 .. Len(L), L[i].key = k
      PROVE  Replayed(X, M)[k] = Replayed(X, L)[k]
  <2>1. PICK n : IsLast(L, k, n)
    BY <1>4, LastRecord
  <2>2. IsLast(M, k, n)
    BY <1>1, <1>4, <2>1 DEF IsLast
  <2>3. M[n] = L[n]
    BY <1>1, <2>1 DEF IsLast
  <2> QED
    BY <1>1, <2>1, <2>2, <2>3, ReplayedIs
<1> QED
  BY <1>2, <1>3, <1>4

(* The result is a map, and without records the map itself.                *)
LEMMA ReplayedType ==
  ASSUME NEW X \in [Key -> Content], NEW L \in Seq(Record)
  PROVE  Replayed(X, L) \in [Key -> Content] /\ Replayed(X, << >>) = X
<1>1. ASSUME NEW k \in Key PROVE Replayed(X, L)[k] \in Content
  <2>1. CASE \A n \in 1 .. Len(L) : L[n].key # k
    BY <2>1, ReplayedIs
  <2>2. ASSUME NEW i \in 1 .. Len(L), L[i].key = k PROVE Replayed(X, L)[k] \in Content
    <3>1. PICK n : IsLast(L, k, n)
      BY <2>2, LastRecord
    <3>2. L[n] \in Record
      BY <3>1 DEF IsLast
    <3>3. L[n].val \in Content
      BY <3>2 DEF Record
    <3> QED
      BY <3>1, <3>3, ReplayedIs
  <2> QED
    BY <2>1, <2>2
<1>2. \A k \in Key : Replayed(X, << >>)[k] = X[k]
  BY DEF Replayed
<1>3. /\ Replayed(X, L) = [k \in Key |-> Replayed(X, L)[k]]
      /\ Replayed(X, << >>) = [k \in Key |-> Replayed(X, << >>)[k]]
  BY DEF Replayed
<1> QED
  BY <1>1, <1>2, <1>3

(* Records that lead to a map lead from that map to itself.                *)
LEMMA ReplayedOver ==
  ASSUME NEW X, NEW Y, NEW L \in Seq(Record), NEW k \in Key, Replayed(X, L)[k] = Y[k]
  PROVE  Replayed(Y, L)[k] = Y[k]
<1>1. CASE \A n \in 1 .. Len(L) : L[n].key # k
  BY <1>1, ReplayedIs
<1>2. ASSUME NEW i \in 1 .. Len(L), L[i].key = k PROVE Replayed(Y, L)[k] = Y[k]
  <2>1. PICK n : IsLast(L, k, n)
    BY <1>2, LastRecord
  <2> QED
    BY <2>1, ReplayedIs
<1> QED
  BY <1>1, <1>2

-----------------------------------------------------------------------------
(* Types, and which files there are in which phase.                        *)

TypeInv ==
  /\ TypeOK
  /\ promised \in [Key -> Nat]
  /\ log_temp \in {NoFile, << >>}
  /\ \A t \in Thread :
       /\ pc[t] \in {"change", "log_lock", "log", "send"} => req[t] \in Request
       /\ pc[t] \in {"log_lock", "log", "send"} => mine[t] \in 1 .. Len(versions[req[t].key])
       /\ phase \notin Running => pc[t] = "recv"

FilesKept ==
  /\ phase \in {"load", "replay", "rename_log", "recovered", "serve"} \cup Cleaning
       => log \in Seq(Record)
  /\ phase = "load" => IF log_path = "log" THEN log = << >> ELSE log_temp = << >>
  /\ phase \in {"replay", "rename_log"} => log_temp = << >> /\ log_path = "log_temp"
  /\ phase = "recovered" => log = << >>
  /\ phase \in {"recovered"} \cup Running => log_path = "log"
  /\ phase \in {"backup", "remove", "rename_backup"} => backup_temp \in [Key -> Content]
  /\ phase \in {"delete_hash", "delete_log", "exit"} => backup \in [Key -> Content]
  /\ phase = "exit" => log = NoFile
  /\ OrderlyExitLeavesBackup

BasicInv == TypeInv /\ FilesKept

LEMMA EmptyType == Empty \in [Key -> Content]
  BY DEF Empty, Content

LEMMA InitBasic == Init => BasicInv
<1> SUFFICES ASSUME Init PROVE BasicInv
  OBVIOUS
<1>1. \A k \in Key : versions[k] = <<NULL>> /\ promised[k] = 1 /\ Len(versions[k]) = 1
  BY DEF Init
<1>2. versions \in [Key -> Seq(Content)] /\ promised \in [Key -> Nat]
  BY DEF Init, Content
<1>3. /\ crashes \in 0 .. Len(CrashPoints) /\ starts \in 0 .. MaxStarts
      /\ served \in 0 .. MaxRequests /\ starts = 0
  BY CrashAssumption, ScenarioAssumption DEF Init
<1>4. TypeOK
  <2>1. /\ pc = [t \in Thread |-> "recv"] /\ req = [t \in Thread |-> NULL]
        /\ mine = [t \in Thread |-> 0] /\ unsaved = {} /\ table = Empty
    BY DEF Init
  <2>2. \A k \in Key : promised[k] \in 1 .. Len(versions[k])
    <3>1. \A k \in Key : promised[k] = 1 /\ Len(versions[k]) = 1
      BY <1>1
    <3>2. 1 \in 1 .. 1
      OBVIOUS
    <3> QED
      BY <3>1, <3>2, Zenon
  <2>3. /\ phase \in Phase /\ log_path \in {"log", "log_temp"}
        /\ end \in BOOLEAN /\ garbled \in BOOLEAN /\ orderly \in BOOLEAN
    BY DEF Init, Phase
  <2>4. backup = NoFile /\ backup_temp = NoFile /\ log = NoFile /\ log_temp = NoFile
    BY DEF Init
  <2>5. volatile = {} /\ behind = {} /\ lost = {}
    BY DEF Init
  <2> QED
    BY <1>2, <1>3, <2>1, <2>2, <2>3, <2>4, <2>5, EmptyType DEF TypeOK
<1>5. TypeInv
  BY <1>2, <1>4 DEF Init, TypeInv
<1>6. FilesKept
  BY <1>3 DEF Init, FilesKept, OrderlyExitLeavesBackup, Running, Cleaning
<1> QED
  BY <1>5, <1>6 DEF BasicInv

(* Starting.                                                               *)
LEMMA BasicStarting == BasicInv /\ (Start \/ Starting) => BasicInv'
<1> SUFFICES ASSUME BasicInv, Start \/ Starting PROVE BasicInv'
  OBVIOUS
<1> USE DEF BasicInv, FilesKept, OrderlyExitLeavesBackup, Enter, Running, Cleaning,
            files, workers, promises, lives, losses
<1>1. CASE Start
  <2>1. starts + 1 \in 0 .. MaxStarts
    BY <1>1, ScenarioAssumption DEF Start, TypeInv, TypeOK
  <2> QED
    BY <1>1, <2>1 DEF Start, TypeInv, TypeOK, Phase
<1>2. CASE CreateLog
  <2>1. << >> \in Seq(Record)
    OBVIOUS
  <2>2. log' \in Seq(Record) /\ log_temp' \in {NoFile, << >>}
    BY <1>2, <2>1 DEF CreateLog, TypeInv, TypeOK
  <2>3. IF log_path' = "log" THEN log' = << >> ELSE log_temp' = << >>
    BY <1>2 DEF CreateLog
  <2>4. TypeOK'
    BY <1>2, <2>2, <2>1 DEF CreateLog, TypeInv, TypeOK, Phase
  <2>5. TypeInv'
    BY <1>2, <2>2, <2>4 DEF CreateLog, TypeInv
  <2> QED
    BY <1>2, <2>2, <2>3, <2>5 DEF CreateLog
<1>3. CASE Load
  <2>1. table' \in [Key -> Content] /\ volatile' \subseteq Key /\ lost' \subseteq Key
    <3>1. PICK map \in [Key -> Content] : \E u \in Unread(map) :
            /\ table' = [k \in Key |-> IF k \in u THEN NULL ELSE map[k]]
            /\ volatile' = u /\ lost' = lost \cup u
      <4>1. (IF backup = NoFile THEN Empty ELSE backup) \in [Key -> Content]
        BY EmptyType DEF TypeInv, TypeOK
      <4> QED
        BY <1>3, <4>1 DEF Load
    <3>2. \A u \in Unread(map) : u \subseteq Key
      BY DEF Unread
    <3> QED
      BY <3>1, <3>2 DEF Content, TypeInv, TypeOK
  <2>2. TypeInv'
    BY <1>3, <2>1 DEF Load, TypeInv, TypeOK, Phase
  <2>3. phase' \in {"recovered", "replay"} /\ log_path \in {"log", "log_temp"}
    BY <1>3 DEF Load, TypeInv, TypeOK
  <2>4. FilesKept'
    BY <1>3, <2>3 DEF Load
  <2> QED
    BY <2>2, <2>4
<1>4. CASE Replay
  <2>1. PICK n \in Understood(log) : table' = Replayed(table, SubSeq(log, 1, n))
    BY <1>4 DEF Replay
  <2>2. n \in 0 .. Len(log)
    BY <1>4 DEF Replay, Understood
  <2>3. SubSeq(log, 1, n) \in Seq(Record)
    BY <1>4, <2>2 DEF Replay
  <2>4. table' \in [Key -> Content]
    BY <2>1, <2>3, ReplayedType DEF TypeInv, TypeOK
  <2>5. volatile' \subseteq Key /\ lost' \subseteq Key
    <3>1. log \in Seq(Record)
      BY <1>4 DEF Replay
    <3>2. ASSUME NEW i \in 1 .. Len(log) PROVE log[i].key \in Key
      <4>1. log[i] \in Record
        BY <3>1
      <4> QED
        BY <4>1 DEF Record
    <3>3. KeysOf(log) \subseteq Key
      BY <3>2 DEF KeysOf
    <3> QED
      BY <1>4, <3>3 DEF Replay, TypeInv, TypeOK
  <2>6. TypeInv'
    BY <1>4, <2>4, <2>5 DEF Replay, TypeInv, TypeOK, Phase
  <2>7. FilesKept'
    BY <1>4 DEF Replay
  <2> QED
    BY <2>6, <2>7
<1>5. CASE RenameLog
  <2>1. << >> \in Seq(Record)
    OBVIOUS
  <2>2. TypeInv'
    BY <1>5, <2>1 DEF RenameLog, TypeInv, TypeOK, Phase
  <2>3. FilesKept'
    BY <1>5, <2>1 DEF RenameLog
  <2> QED
    BY <2>2, <2>3
<1>6. CASE Listen
  <2>1. /\ versions' = [k \in Key |-> <<table[k]>>] /\ promised' = [k \in Key |-> 1]
        /\ \A k \in Key : table[k] \in Content
    BY <1>6 DEF Listen, TypeInv, TypeOK
  <2>2. versions' \in [Key -> Seq(Content)] /\ promised' \in [Key -> Nat]
    BY <2>1
  <2>3. \A k \in Key : promised'[k] \in 1 .. Len(versions'[k])
    BY <2>1
  <2>4. TypeOK'
    BY <1>6, <2>2, <2>3 DEF Listen, TypeInv, TypeOK, Phase
  <2>5. \A t \in Thread : pc'[t] = "recv"
    BY <1>6 DEF Listen, TypeInv
  <2>6. FilesKept'
    BY <1>6 DEF Listen
  <2> QED
    BY <1>6, <2>2, <2>4, <2>5, <2>6 DEF Listen, TypeInv
<1> QED
  BY <1>1, <1>2, <1>3, <1>4, <1>5, <1>6 DEF Starting

(* Serving.                                                                *)
LEMMA BasicServing ==
  ASSUME BasicInv, NEW t \in Thread,
         (\E r \in Request : Receive(t, r)) \/ Change(t) \/ LogLock(t) \/ AppendLog(t) \/ Send(t)
  PROVE  BasicInv'
<1> USE DEF BasicInv, Goto, TableLives
<1> DEFINE k == req[t].key
<1>0. /\ pc[t] \in {"change", "log_lock", "log", "send"} =>
           k \in Key /\ req[t].val \in Value \cup {NULL}
      /\ \A j \in Key : Len(versions[j]) \in Nat /\ promised[j] \in 1 .. Len(versions[j])
  BY DEF TypeInv, TypeOK, Request
<1>1. ASSUME NEW r \in Request, Receive(t, r) PROVE BasicInv'
  <2>1. served + 1 \in 0 .. MaxRequests
    BY <1>1, ScenarioAssumption DEF Receive, TypeInv, TypeOK
  <2>2. TypeOK'
    BY <1>1, <2>1 DEF Receive, TypeInv, TypeOK, files, promises, lives, losses
  <2>3. TypeInv'
    BY <1>1, <2>2 DEF Receive, TypeInv, TypeOK, files, promises, lives, losses
  <2>4. FilesKept'
    BY <1>1 DEF Receive, FilesKept, OrderlyExitLeavesBackup, files, lives, losses
  <2> QED
    BY <2>3, <2>4
<1>2. CASE Change(t)
  <2>0. k \in Key /\ req[t].val \in Content
    BY <1>0, <1>2 DEF Change, Content
  <2>1. CASE req[t].val = NULL /\ table[k] = NULL
    <3>1. /\ pc' = [pc EXCEPT ![t] = "send"] /\ mine' = [mine EXCEPT ![t] = promised[k]]
          /\ UNCHANGED <<phase, table, files, log_path, unsaved, end, req, served,
                         versions, promised, garbled, lives, losses>>
      BY <1>2, <2>1 DEF Change, losses
    <3>2. promised[k] \in Nat /\ promised[k] \in 1 .. Len(versions[k])
      BY <1>0, <2>0
    <3>3. TypeOK'
      BY <3>1, <3>2 DEF TypeInv, TypeOK, files, lives, losses
    <3>4. TypeInv'
      BY <1>2, <3>1, <3>2, <3>3 DEF Change, TypeInv, TypeOK, files, lives, losses, Running
    <3>5. FilesKept'
      BY <3>1 DEF FilesKept, OrderlyExitLeavesBackup, files, lives, losses
    <3> QED
      BY <3>4, <3>5
  <2>2. CASE ~(req[t].val = NULL /\ table[k] = NULL)
    <3>1. /\ pc' = [pc EXCEPT ![t] = "log_lock"]
          /\ table' = [table EXCEPT ![k] = req[t].val]
          /\ versions' = [versions EXCEPT ![k] = Append(@, req[t].val)]
          /\ mine' = [mine EXCEPT ![t] = Len(versions[k]) + 1]
          /\ behind' \subseteq Key
          /\ UNCHANGED <<phase, files, log_path, unsaved, end, req, served,
                         promised, garbled, lives, volatile, lost>>
      BY <1>2, <2>0, <2>2 DEF Change, TypeInv, TypeOK
    <3>2. /\ versions \in [Key -> Seq(Content)] /\ versions[k] \in Seq(Content)
          /\ Append(versions[k], req[t].val) \in Seq(Content)
          /\ Len(Append(versions[k], req[t].val)) = Len(versions[k]) + 1
      BY <2>0 DEF TypeInv, TypeOK
    <3>3. versions' \in [Key -> Seq(Content)] /\ table' \in [Key -> Content]
      BY <2>0, <3>1, <3>2 DEF TypeInv, TypeOK
    <3>4. /\ Len(versions'[k]) = Len(versions[k]) + 1
          /\ \A j \in Key \ {k} : versions'[j] = versions[j]
      BY <2>0, <3>1, <3>2
    <3>5. \A j \in Key : Len(versions[j]) \in Nat /\ Len(versions'[j]) \in Nat
                          /\ Len(versions[j]) <= Len(versions'[j])
      BY <3>2, <3>3, <3>4, <1>0
    <3>6. \A j \in Key : promised'[j] \in 1 .. Len(versions'[j])
      BY <1>0, <3>1, <3>5
    <3>7. TypeOK'
      BY <1>0, <2>0, <3>1, <3>3, <3>6 DEF TypeInv, TypeOK, files, lives, losses
    <3>8. ASSUME NEW u \in Thread, pc'[u] \in {"log_lock", "log", "send"}
          PROVE  mine'[u] \in 1 .. Len(versions'[req'[u].key])
      <4>1. CASE u = t
        BY <1>0, <2>0, <3>1, <3>4, <4>1 DEF TypeInv, TypeOK
      <4>2. CASE u # t
        <5>1. /\ pc[u] \in {"log_lock", "log", "send"} /\ mine'[u] = mine[u] /\ req'[u] = req[u]
              /\ req[u].key \in Key
          BY <3>1, <3>8, <4>2 DEF TypeInv, TypeOK, Request
        <5> QED
          BY <3>5, <5>1 DEF TypeInv
      <4> QED
        BY <4>1, <4>2
    <3>9. \A u \in Thread : /\ pc'[u] \in {"change", "log_lock", "log", "send"} => req'[u] \in Request
                            /\ phase' \notin Running => pc'[u] = "recv"
      BY <1>2, <3>1 DEF Change, TypeInv, TypeOK, Running
    <3>10. TypeInv'
      BY <3>1, <3>7, <3>8, <3>9 DEF TypeInv, files
    <3>11. FilesKept'
      BY <3>1 DEF FilesKept, OrderlyExitLeavesBackup, files, lives, losses
    <3> QED
      BY <3>10, <3>11
  <2> QED
    BY <2>1, <2>2
<1>3. CASE LogLock(t)
  <2>1. TypeInv'
    BY <1>3 DEF LogLock, TypeInv, TypeOK, files, promises, lives, losses, Running
  <2>2. FilesKept'
    BY <1>3 DEF LogLock, FilesKept, OrderlyExitLeavesBackup, files, lives, losses
  <2> QED
    BY <2>1, <2>2
<1>4. CASE AppendLog(t)
  <2>1. PICK v \in Logged(t) : /\ log' = Append(log, [key |-> k, val |-> v])
                               /\ garbled' = (garbled \/ v = Garbage)
    BY <1>4 DEF AppendLog
  <2>2. [key |-> k, val |-> v] \in Record
    BY <1>0, <1>4, <2>1 DEF AppendLog, Logged, Record, Content
  <2>3. log \in Seq(Record)
    BY <1>4 DEF AppendLog, FilesKept
  <2>4. log' \in Seq(Record)
    BY <2>1, <2>2, <2>3
  <2>5. TypeInv'
    BY <1>4, <2>1, <2>4 DEF AppendLog, TypeInv, TypeOK, promises, lives, losses, Running
  <2>6. FilesKept'
    BY <1>4, <2>4 DEF AppendLog, FilesKept, OrderlyExitLeavesBackup, lives, losses, Cleaning
  <2> QED
    BY <2>5, <2>6
<1>5. CASE Send(t)
  <2>1. k \in Key /\ mine[t] \in 1 .. Len(versions[k]) /\ mine[t] \in Nat
    BY <1>0, <1>5 DEF Send, TypeInv, TypeOK
  <2>2. promised' = [promised EXCEPT ![k] = IF @ < mine[t] THEN mine[t] ELSE @] /\ versions' = versions
    BY <1>5 DEF Send
  <2>3. promised' \in [Key -> Nat] /\ \A j \in Key : promised'[j] \in 1 .. Len(versions'[j])
    BY <1>0, <2>1, <2>2 DEF TypeInv
  <2>4. TypeOK'
    BY <1>5, <2>3 DEF Send, TypeInv, TypeOK, files, lives, losses
  <2>5. TypeInv'
    BY <1>5, <2>3, <2>4 DEF Send, TypeInv, TypeOK, files, lives, losses
  <2>6. FilesKept'
    BY <1>5 DEF Send, FilesKept, OrderlyExitLeavesBackup, files, lives, losses
  <2> QED
    BY <2>5, <2>6
<1> QED
  BY <1>1, <1>2, <1>3, <1>4, <1>5

(* Leaving, and the end of the process.                                    *)
LEMMA BasicLeaving ==
  ASSUME BasicInv,
         \/ ReceiveExit \/ OpenBackup \/ SaveBucket \/ CloseBackup \/ RemoveBackup
         \/ RenameBackup \/ DeleteHash \/ DeleteLog
  PROVE  BasicInv'
<1> USE DEF BasicInv, Enter, Running, Cleaning, files, workers, promises, lives, losses
<1>1. CASE ReceiveExit
  <2>1. TypeInv'
    BY <1>1 DEF ReceiveExit, TypeInv, TypeOK
  <2>2. FilesKept'
    BY <1>1 DEF ReceiveExit, FilesKept, OrderlyExitLeavesBackup
  <2> QED
    BY <2>1, <2>2
<1>2. CASE OpenBackup
  <2>1. TypeInv'
    BY <1>2, EmptyType DEF OpenBackup, TypeInv, TypeOK, Phase
  <2>2. FilesKept'
    BY <1>2, EmptyType DEF OpenBackup, FilesKept, OrderlyExitLeavesBackup
  <2> QED
    BY <2>1, <2>2
<1>3. CASE SaveBucket
  <2>1. PICK k \in unsaved, v \in Content :
          /\ backup_temp' = [backup_temp EXCEPT ![k] = v]
          /\ garbled' = (garbled \/ v = Garbage) /\ unsaved' = unsaved \ {k}
    BY <1>3 DEF SaveBucket, Content, TypeInv, TypeOK
  <2>2. backup_temp' \in [Key -> Content]
    BY <1>3, <2>1 DEF SaveBucket, FilesKept
  <2>3. TypeInv'
    BY <1>3, <2>1, <2>2 DEF SaveBucket, TypeInv, TypeOK
  <2>4. FilesKept'
    BY <1>3, <2>2 DEF SaveBucket, FilesKept, OrderlyExitLeavesBackup
  <2> QED
    BY <2>3, <2>4
<1>4. CASE CloseBackup
  <2>1. TypeInv'
    BY <1>4 DEF CloseBackup, TypeInv, TypeOK, Phase
  <2>2. FilesKept'
    BY <1>4 DEF CloseBackup, FilesKept, OrderlyExitLeavesBackup
  <2> QED
    BY <2>1, <2>2
<1>5. CASE RemoveBackup
  <2>1. TypeInv'
    BY <1>5 DEF RemoveBackup, TypeInv, TypeOK, Phase
  <2>2. FilesKept'
    BY <1>5 DEF RemoveBackup, FilesKept, OrderlyExitLeavesBackup
  <2> QED
    BY <2>1, <2>2
<1>6. CASE RenameBackup
  <2>1. TypeInv'
    BY <1>6 DEF RenameBackup, TypeInv, TypeOK, Phase, FilesKept
  <2>2. FilesKept'
    BY <1>6 DEF RenameBackup, FilesKept, OrderlyExitLeavesBackup
  <2> QED
    BY <2>1, <2>2
<1>7. CASE DeleteHash
  <2>1. TypeInv'
    BY <1>7, EmptyType DEF DeleteHash, TypeInv, TypeOK, Phase
  <2>2. FilesKept'
    BY <1>7 DEF DeleteHash, FilesKept, OrderlyExitLeavesBackup
  <2> QED
    BY <2>1, <2>2
<1>8. CASE DeleteLog
  <2>1. log_path = "log"
    BY <1>8 DEF DeleteLog, FilesKept
  <2>2. TypeInv'
    BY <1>8, <2>1 DEF DeleteLog, TypeInv, TypeOK, Phase
  <2>3. FilesKept'
    BY <1>8, <2>1 DEF DeleteLog, FilesKept, OrderlyExitLeavesBackup
  <2> QED
    BY <2>2, <2>3
<1> QED
  BY <1>1, <1>2, <1>3, <1>4, <1>5, <1>6, <1>7, <1>8

LEMMA BasicDying ==
  ASSUME BasicInv, Exit \/ Crash \/ \E t \in Thread : UseAfterDelete(t)
  PROVE  BasicInv'
<1> USE DEF BasicInv
<1>1. /\ Die /\ crashes' \in 0 .. Len(CrashPoints) /\ orderly' \in BOOLEAN
      /\ orderly' => phase = "exit"
  <2>1. CASE Exit
    BY <2>1 DEF Exit, TypeInv, TypeOK
  <2>2. CASE Crash
    <3>1. Len(CrashPoints) \in Nat
      BY CrashAssumption
    <3>2. crashes + 1 \in 0 .. Len(CrashPoints)
      BY <2>2, <3>1 DEF Crash, TypeInv, TypeOK
    <3> QED
      BY <2>2, <3>2 DEF Crash
  <2>3. CASE \E t \in Thread : UseAfterDelete(t)
    BY <2>3 DEF UseAfterDelete, TypeInv, TypeOK
  <2> QED
    BY <2>1, <2>2, <2>3
<1>2. TypeOK'
  <2>1. lost' \subseteq Key
    BY <1>1 DEF Die, Exposed, TypeInv, TypeOK
  <2> QED
    BY <1>1, <2>1, EmptyType DEF Die, TypeInv, TypeOK, Phase, files, promises
<1>3. TypeInv'
  BY <1>1, <1>2 DEF Die, TypeInv, files, promises
<1>4. orderly' => log = NoFile /\ backup # NoFile
  BY <1>1, NoFileAssumption DEF FilesKept
<1>5. FilesKept'
  BY <1>1, <1>4 DEF Die, FilesKept, OrderlyExitLeavesBackup, Running, Cleaning, files
<1> QED
  BY <1>3, <1>5

LEMMA BasicNext == BasicInv /\ [Next]_vars => BasicInv'
<1> SUFFICES ASSUME BasicInv, [Next]_vars PROVE BasicInv'
  OBVIOUS
<1>1. CASE UNCHANGED vars
  BY <1>1 DEF vars, files, workers, promises, lives, losses, BasicInv, TypeInv, TypeOK, FilesKept,
              OrderlyExitLeavesBackup
<1> QED
  BY <1>1, BasicStarting, BasicServing, BasicLeaving, BasicDying DEF Next, Serving, Leaving

-----------------------------------------------------------------------------
(* The order of the changes of a key: all but the last two are recorded.   *)

One(b) == IF b THEN 1 ELSE 0
Recorded(k) == Len(versions[k]) - One(Busy("log_lock", k)) - One(Busy("log", k))

OneEach ==
  \A t, u \in Thread :
    pc[t] \in {"log_lock", "log"} /\ pc[t] = pc[u] /\ req[t].key = req[u].key => t = u

Versioned(t, k) ==
  /\ pc[t] = "log_lock" => mine[t] = Len(versions[k])
  /\ pc[t] = "log" => mine[t] = Recorded(k) + 1
  /\ pc[t] \in {"log_lock", "log"} => versions[k][mine[t]] = req[t].val
  /\ pc[t] = "send" => mine[t] <= Recorded(k)

Ordered ==
  /\ OneEach
  /\ \A t \in Thread : pc[t] \in {"log_lock", "log", "send"} => Versioned(t, req[t].key)
  /\ \A k \in Key : promised[k] <= Recorded(k)

(* While clients have connections.                                         *)
Open == phase \in Running

LEMMA RecordedRange ==
  ASSUME BasicInv, Ordered, NEW k \in Key
  PROVE  Recorded(k) \in 1 .. Len(versions[k]) /\ Len(versions[k]) \in Nat
<1>1. /\ Len(versions[k]) \in Nat /\ promised[k] \in 1 .. Len(versions[k])
      /\ promised[k] <= Recorded(k)
  BY DEF BasicInv, TypeInv, TypeOK, Ordered
<1>2. \A b : One(b) \in {0, 1}
  BY DEF One
<1> QED
  BY <1>1, <1>2 DEF Recorded

(* Each step of a thread changes the numbers as described.                 *)
LEMMA SameRecorded ==
  ASSUME NEW k, Len(versions'[k]) = Len(versions[k]),
         Busy("log_lock", k)' <=> Busy("log_lock", k), Busy("log", k)' <=> Busy("log", k)
  PROVE  Recorded(k)' = Recorded(k)
<1>1. /\ One(Busy("log_lock", k)') = One(Busy("log_lock", k))
      /\ One(Busy("log", k)') = One(Busy("log", k))
  BY DEF One
<1> QED
  BY <1>1 DEF Recorded, One

(* Threads on their way are of the type that the proofs need.              *)
LEMMA OnTheWay ==
  ASSUME BasicInv, NEW t \in Thread, pc[t] \in {"change", "log_lock", "log", "send"}
  PROVE  /\ req[t] \in Request /\ req[t].key \in Key /\ req[t].val \in Value \cup {NULL}
         /\ versions[req[t].key] \in Seq(Content)
         /\ Len(versions[req[t].key]) \in Nat
         /\ pc[t] # "change" => mine[t] \in 1 .. Len(versions[req[t].key])
  BY DEF BasicInv, TypeInv, TypeOK, Request

(* A request is received, or a version promised: no change is recorded.    *)
LEMMA ReceiveOrdered ==
  ASSUME BasicInv, Ordered, NEW t \in Thread, NEW r \in Request, Receive(t, r)
  PROVE  Ordered' /\ \A k \in Key : Recorded(k)' = Recorded(k)
<1>1. /\ pc[t] = "recv" /\ pc' = [pc EXCEPT ![t] = "change"] /\ req' = [req EXCEPT ![t] = r]
      /\ UNCHANGED <<versions, promised, mine>>
  BY DEF Receive, Goto, promises
<1>2. /\ pc'[t] = "change"
      /\ \A u \in Thread \ {t} : pc'[u] = pc[u] /\ req'[u] = req[u]
  BY <1>1 DEF BasicInv, TypeInv, TypeOK
<1>3. ASSUME NEW k \in Key PROVE Recorded(k)' = Recorded(k)
  <2>1. Busy("log_lock", k)' <=> Busy("log_lock", k)
    BY <1>1, <1>2 DEF Busy
  <2>2. Busy("log", k)' <=> Busy("log", k)
    BY <1>1, <1>2 DEF Busy
  <2> QED
    BY <1>1, <2>1, <2>2, SameRecorded
<1>4. OneEach'
  BY <1>2 DEF OneEach, Ordered
<1>5. ASSUME NEW u \in Thread, pc'[u] \in {"log_lock", "log", "send"}
      PROVE  Versioned(u, req[u].key)'
  <2>1. u # t /\ pc'[u] = pc[u] /\ req'[u] = req[u]
    BY <1>2, <1>5
  <2>2. Versioned(u, req[u].key) /\ req[u].key \in Key
    BY <1>5, <2>1, OnTheWay DEF Ordered
  <2>3. Recorded(req[u].key)' = Recorded(req[u].key)
    <3> SUFFICES ASSUME NEW k \in Key, k = req[u].key, k = req'[u].key
                 PROVE  Recorded(k)' = Recorded(k)
      BY <2>1, <2>2
    <3> QED
      BY <1>3
  <2> QED
    BY <1>1, <2>1, <2>2, <2>3 DEF Versioned
<1> QED
  BY <1>1, <1>3, <1>4, <1>5 DEF Ordered

(* A change of the table adds a version, which is not recorded.            *)
LEMMA ChangeOrdered ==
  ASSUME BasicInv, Ordered, NEW t \in Thread, Change(t)
  PROVE  Ordered' /\ \A k \in Key : Recorded(k)' = Recorded(k)
<1> SUFFICES ASSUME NEW kt \in Key, kt = req[t].key
             PROVE  Ordered' /\ \A k \in Key : Recorded(k)' = Recorded(k)
  BY OnTheWay DEF Change
<1>0. /\ pc[t] = "change" /\ ~Busy("log_lock", kt) /\ req' = req /\ promised' = promised
      /\ pc \in [Thread -> {"recv", "change", "log_lock", "log", "send", "stopped"}]
      /\ mine \in [Thread -> Nat]
  BY DEF Change, BasicInv, TypeInv, TypeOK
<1>1. \A k \in Key : /\ versions[k] \in Seq(Content) /\ Len(versions[k]) \in Nat
                     /\ Recorded(k) \in 1 .. Len(versions[k])
  BY RecordedRange DEF BasicInv, TypeInv, TypeOK
<1>2. CASE req[t].val = NULL /\ table[kt] = NULL
  <2>1. /\ pc' = [pc EXCEPT ![t] = "send"] /\ mine' = [mine EXCEPT ![t] = promised[kt]]
        /\ versions' = versions
    BY <1>2 DEF Change, Goto
  <2>2. /\ pc'[t] = "send" /\ mine'[t] = promised[kt]
        /\ \A u \in Thread \ {t} : pc'[u] = pc[u] /\ mine'[u] = mine[u]
    BY <1>0, <2>1
  <2>3. ASSUME NEW k \in Key PROVE Recorded(k)' = Recorded(k)
    <3>1. Busy("log_lock", k)' <=> Busy("log_lock", k)
      BY <1>0, <2>2 DEF Busy
    <3>2. Busy("log", k)' <=> Busy("log", k)
      BY <1>0, <2>2 DEF Busy
    <3> QED
      BY <2>1, <3>1, <3>2, SameRecorded
  <2>4. OneEach'
    BY <1>0, <2>2 DEF OneEach, Ordered
  <2>5. ASSUME NEW u \in Thread, pc'[u] \in {"log_lock", "log", "send"}
        PROVE  Versioned(u, req[u].key)'
    <3>1. CASE u = t
      <4>1. mine'[u] <= Recorded(kt)'
        BY <2>2, <2>3, <3>1 DEF Ordered
      <4>2. pc'[u] = "send" /\ req'[u].key = kt
        BY <1>0, <2>2, <3>1
      <4> QED
        BY <4>1, <4>2 DEF Versioned
    <3>2. CASE u # t
      <4>1. Versioned(u, req[u].key) /\ req[u].key \in Key
        BY <2>2, <2>5, <3>2, OnTheWay DEF Ordered
      <4>2. Recorded(req[u].key)' = Recorded(req[u].key)
        <5> SUFFICES ASSUME NEW k \in Key, k = req[u].key, k = req'[u].key
                     PROVE  Recorded(k)' = Recorded(k)
          BY <1>0, <4>1
        <5> QED
          BY <2>3
      <4> QED
        BY <1>0, <2>1, <2>2, <3>2, <4>1, <4>2 DEF Versioned
    <3> QED
      BY <3>1, <3>2
  <2> QED
    BY <1>0, <2>3, <2>4, <2>5 DEF Ordered
<1>3. CASE ~(req[t].val = NULL /\ table[kt] = NULL)
  <2>1. /\ pc' = [pc EXCEPT ![t] = "log_lock"]
        /\ mine' = [mine EXCEPT ![t] = Len(versions[kt]) + 1]
        /\ versions' = [versions EXCEPT ![kt] = Append(@, req[t].val)]
    BY <1>3 DEF Change, Goto
  <2>2. /\ pc'[t] = "log_lock" /\ mine'[t] = Len(versions[kt]) + 1
        /\ \A u \in Thread \ {t} : pc'[u] = pc[u] /\ mine'[u] = mine[u]
    BY <1>0, <2>1
  <2>3. req[t].val \in Content
    BY <1>0, OnTheWay DEF Content
  <2>4. /\ Len(versions'[kt]) = Len(versions[kt]) + 1
        /\ versions'[kt][Len(versions[kt]) + 1] = req[t].val
        /\ \A i \in 1 .. Len(versions[kt]) : versions'[kt][i] = versions[kt][i]
        /\ \A k \in Key \ {kt} : versions'[k] = versions[k]
    <3>1. versions'[kt] = Append(versions[kt], req[t].val)
      BY <2>1 DEF BasicInv, TypeInv, TypeOK
    <3>2. \A k \in Key \ {kt} : versions'[k] = versions[k]
      BY <2>1 DEF BasicInv, TypeInv, TypeOK
    <3> QED
      BY <1>1, <2>3, <3>1, <3>2
  <2>5. \A k \in Key : /\ Busy("log", k)' <=> Busy("log", k)
                       /\ k # kt => (Busy("log_lock", k)' <=> Busy("log_lock", k))
    BY <1>0, <2>2 DEF Busy
  <2>6. Busy("log_lock", kt)'
    BY <1>0, <2>2 DEF Busy
  <2>7. ASSUME NEW k \in Key PROVE Recorded(k)' = Recorded(k)
    <3>1. Recorded(kt)' = Recorded(kt)
      <4>1. Len(versions[kt]) \in Nat /\ Len(versions'[kt]) = Len(versions[kt]) + 1
        BY <1>1, <2>4
      <4>2. Busy("log", kt)' <=> Busy("log", kt)
        BY <2>5
      <4>3. ~Busy("log_lock", kt) /\ Busy("log_lock", kt)'
        BY <1>0, <2>6
      <4>4. CASE Busy("log", kt) /\ Busy("log", kt)'
        BY <4>1, <4>3, <4>4 DEF Recorded, One
      <4>5. CASE ~Busy("log", kt) /\ ~Busy("log", kt)'
        BY <4>1, <4>3, <4>5 DEF Recorded, One
      <4> QED
        BY <4>2, <4>4, <4>5
    <3>2. CASE k # kt
      BY <2>4, <2>5, <3>2, SameRecorded
    <3> QED
      BY <3>1, <3>2
  <2>8. OneEach'
    <3> SUFFICES ASSUME NEW u \in Thread, NEW v \in Thread, pc'[u] \in {"log_lock", "log"},
                        pc'[u] = pc'[v], req[u].key = req[v].key
                 PROVE  u = v
      BY <1>0 DEF OneEach
    <3>1. \A w \in Thread : pc[w] = "log_lock" => req[w].key # kt
      BY <1>0 DEF Busy
    <3> QED
      BY <2>2, <3>1 DEF OneEach, Ordered
  <2>9. ASSUME NEW u \in Thread, pc'[u] \in {"log_lock", "log", "send"}
        PROVE  Versioned(u, req[u].key)'
    <3>1. CASE u = t
      <4>1. req'[u].key = kt /\ req'[u].val = req[t].val
        BY <1>0, <3>1
      <4> QED
        BY <2>2, <2>4, <3>1, <4>1 DEF Versioned
    <3>2. CASE u # t
      <4>1. pc[u] = pc'[u] /\ Versioned(u, req[u].key) /\ req[u].key \in Key
            /\ mine[u] \in 1 .. Len(versions[req[u].key])
        BY <2>2, <2>9, <3>2, OnTheWay DEF Ordered
      <4> SUFFICES ASSUME NEW k \in Key, k = req[u].key, k = req'[u].key
                   PROVE  Versioned(u, k)'
        BY <1>0, <4>1
      <4>2. Recorded(k)' = Recorded(k)
        BY <2>7
      <4>3. pc[u] = "log_lock" => k # kt
        BY <1>0 DEF Busy
      <4>4. versions'[k][mine[u]] = versions[k][mine[u]]
        <5>1. mine[u] \in 1 .. Len(versions[k])
          BY <4>1
        <5>2. CASE k = kt
          BY <2>4, <5>1, <5>2
        <5>3. CASE k # kt
          BY <2>4, <5>3
        <5> QED
          BY <5>2, <5>3
      <4>5. pc[u] = "log_lock" => Len(versions'[k]) = Len(versions[k])
        BY <2>4, <4>3
      <4> QED
        BY <1>0, <2>2, <3>2, <4>1, <4>2, <4>4, <4>5 DEF Versioned
    <3> QED
      BY <3>1, <3>2
  <2> QED
    BY <1>0, <2>7, <2>8, <2>9 DEF Ordered
<1> QED
  BY <1>2, <1>3

(* The log mutex is taken: the change is the next to be recorded.          *)
LEMMA LogLockOrdered ==
  ASSUME BasicInv, Ordered, NEW t \in Thread, LogLock(t)
  PROVE  Ordered' /\ \A k \in Key : Recorded(k)' = Recorded(k)
<1> SUFFICES ASSUME NEW kt \in Key, kt = req[t].key
             PROVE  Ordered' /\ \A k \in Key : Recorded(k)' = Recorded(k)
  BY OnTheWay DEF LogLock
<1>0. /\ pc[t] = "log_lock" /\ ~Busy("log", kt) /\ pc' = [pc EXCEPT ![t] = "log"]
      /\ UNCHANGED <<req, promised, mine, versions>>
      /\ pc \in [Thread -> {"recv", "change", "log_lock", "log", "send", "stopped"}]
  BY DEF LogLock, Goto, promises, BasicInv, TypeInv, TypeOK
<1>1. \A k \in Key : /\ Len(versions[k]) \in Nat /\ Recorded(k) \in 1 .. Len(versions[k])
  BY RecordedRange
<1>2. pc'[t] = "log" /\ \A u \in Thread \ {t} : pc'[u] = pc[u]
  BY <1>0
<1>3. \A u \in Thread : pc[u] = "log_lock" /\ req[u].key = kt => u = t
  BY <1>0 DEF OneEach, Ordered
<1>4. /\ Busy("log_lock", kt) /\ ~Busy("log_lock", kt)' /\ Busy("log", kt)'
      /\ \A k \in Key \ {kt} : /\ Busy("log_lock", k)' <=> Busy("log_lock", k)
                               /\ Busy("log", k)' <=> Busy("log", k)
  BY <1>0, <1>2, <1>3 DEF Busy
<1>5. Recorded(kt) = Len(versions[kt]) - 1 /\ Recorded(kt)' = Len(versions[kt]) - 1
  <2>1. Len(versions[kt]) \in Nat /\ versions' = versions
    BY <1>0, <1>1
  <2> QED
    BY <1>0, <1>4, <2>1 DEF Recorded, One
<1>6. ASSUME NEW k \in Key PROVE Recorded(k)' = Recorded(k)
  <2>1. CASE k = kt
    BY <1>5, <2>1
  <2>2. CASE k # kt
    BY <1>0, <1>4, <2>2, SameRecorded
  <2> QED
    BY <2>1, <2>2
<1>7. OneEach'
  <2> SUFFICES ASSUME NEW u \in Thread, NEW v \in Thread, pc'[u] \in {"log_lock", "log"},
                      pc'[u] = pc'[v], req[u].key = req[v].key
               PROVE  u = v
    BY <1>0 DEF OneEach
  <2>1. \A w \in Thread : pc[w] = "log" => req[w].key # kt
    BY <1>0 DEF Busy
  <2> QED
    BY <1>2, <2>1 DEF OneEach, Ordered
<1>8. ASSUME NEW u \in Thread, pc'[u] \in {"log_lock", "log", "send"}
      PROVE  Versioned(u, req[u].key)'
  <2>1. pc[u] \in {"log_lock", "log", "send"}
    BY <1>0, <1>2, <1>8
  <2>2. Versioned(u, req[u].key) /\ req[u].key \in Key
    BY <2>1, OnTheWay DEF Ordered
  <2> SUFFICES ASSUME NEW k \in Key, k = req[u].key, k = req'[u].key PROVE Versioned(u, k)'
    BY <1>0, <2>2
  <2>3. Recorded(k)' = Recorded(k)
    BY <1>6
  <2>4. CASE u = t
    BY <1>0, <1>1, <1>2, <1>5, <2>2, <2>4 DEF Versioned
  <2>5. CASE u # t
    BY <1>0, <1>2, <2>2, <2>3, <2>5 DEF Versioned
  <2> QED
    BY <2>4, <2>5
<1> QED
  BY <1>0, <1>6, <1>7, <1>8 DEF Ordered

(* The record is appended: one more change is recorded.                    *)
LEMMA AppendOrdered ==
  ASSUME BasicInv, Ordered, NEW t \in Thread, AppendLog(t), NEW kt \in Key, kt = req[t].key
  PROVE  /\ Ordered'
         /\ \A k \in Key \ {kt} : Recorded(k)' = Recorded(k)
         /\ Recorded(kt)' = Recorded(kt) + 1
         /\ versions[kt][Recorded(kt) + 1] = req[t].val
<1>0. /\ pc[t] = "log" /\ pc' = [pc EXCEPT ![t] = "send"]
      /\ UNCHANGED <<req, promised, mine, versions>>
      /\ pc \in [Thread -> {"recv", "change", "log_lock", "log", "send", "stopped"}]
  BY DEF AppendLog, Goto, promises, BasicInv, TypeInv, TypeOK
<1>1. \A k \in Key : /\ Len(versions[k]) \in Nat /\ Recorded(k) \in 1 .. Len(versions[k])
  BY RecordedRange
<1>2. pc'[t] = "send" /\ \A u \in Thread \ {t} : pc'[u] = pc[u]
  BY <1>0
<1>3. \A u \in Thread : pc[u] = "log" /\ req[u].key = kt => u = t
  BY <1>0 DEF OneEach, Ordered
<1>4. Busy("log", kt) /\ ~Busy("log", kt)'
  BY <1>0, <1>2, <1>3 DEF Busy
<1>5. Recorded(kt)' = Recorded(kt) + 1
  <2>1. Len(versions[kt]) \in Nat /\ versions' = versions
    BY <1>0, <1>1
  <2>2. Busy("log_lock", kt)' <=> Busy("log_lock", kt)
    BY <1>0, <1>2 DEF Busy
  <2>3. CASE Busy("log_lock", kt) /\ Busy("log_lock", kt)'
    BY <1>4, <2>1, <2>3 DEF Recorded, One
  <2>4. CASE ~Busy("log_lock", kt) /\ ~Busy("log_lock", kt)'
    BY <1>4, <2>1, <2>4 DEF Recorded, One
  <2> QED
    BY <2>2, <2>3, <2>4
<1>6. ASSUME NEW k \in Key \ {kt} PROVE Recorded(k)' = Recorded(k)
  <2>1. Busy("log_lock", k)' <=> Busy("log_lock", k)
    BY <1>0, <1>2 DEF Busy
  <2>2. Busy("log", k)' <=> Busy("log", k)
    BY <1>0, <1>2 DEF Busy
  <2> QED
    BY <1>0, <2>1, <2>2, SameRecorded
<1>7. OneEach'
  BY <1>0, <1>2 DEF OneEach, Ordered
<1>8. Versioned(t, kt)
  BY <1>0 DEF Ordered
<1>9. ASSUME NEW u \in Thread, pc'[u] \in {"log_lock", "log", "send"}
      PROVE  Versioned(u, req[u].key)'
  <2>1. pc[u] \in {"log_lock", "log", "send"}
    BY <1>0, <1>2, <1>9
  <2>2. /\ Versioned(u, req[u].key) /\ req[u].key \in Key
        /\ mine[u] \in 1 .. Len(versions[req[u].key])
    BY <2>1, OnTheWay DEF Ordered
  <2> SUFFICES ASSUME NEW k \in Key, k = req[u].key, k = req'[u].key PROVE Versioned(u, k)'
    BY <1>0, <2>2
  <2>3. Recorded(k) \in Nat /\ Recorded(k)' \in {Recorded(k), Recorded(k) + 1}
    BY <1>1, <1>5, <1>6
  <2>4. CASE u = t
    <3>1. mine[u] = Recorded(kt)'
      BY <1>0, <1>5, <1>8, <2>4 DEF Versioned
    <3>2. k = kt
      BY <2>4
    <3>3. mine[u] = Recorded(k)'
      BY <3>1, <3>2
    <3> QED
      BY <1>0, <1>2, <2>2, <2>3, <2>4, <3>3 DEF Versioned
  <2>5. CASE u # t
    <3>1. pc[u] = "log" => k # kt
      BY <1>3, <2>5
    <3>2. pc[u] = "log" => Recorded(k)' = Recorded(k)
      BY <1>6, <3>1
    <3> QED
      BY <1>0, <1>2, <2>2, <2>3, <2>5, <3>2 DEF Versioned
  <2> QED
    BY <2>4, <2>5
<1>10. versions[kt][Recorded(kt) + 1] = req[t].val
  BY <1>0, <1>8 DEF Versioned
<1>11. \A k \in Key : promised'[k] <= Recorded(k)'
  <2>1. ASSUME NEW k \in Key PROVE promised'[k] <= Recorded(k)'
    <3>1. promised[k] <= Recorded(k) /\ promised'[k] = promised[k] /\ promised[k] \in Nat
      BY <1>0 DEF Ordered, BasicInv, TypeInv
    <3>2. Recorded(k) \in Nat /\ Recorded(k)' \in {Recorded(k), Recorded(k) + 1}
      BY <1>1, <1>5, <1>6
    <3> QED
      BY <3>1, <3>2
  <2> QED
    BY <2>1
<1> QED
  BY <1>5, <1>6, <1>7, <1>9, <1>10, <1>11 DEF Ordered

(* The answer is sent: only what is recorded is promised.                  *)
LEMMA SendOrdered ==
  ASSUME BasicInv, Ordered, NEW t \in Thread, Send(t)
  PROVE  Ordered' /\ \A k \in Key : Recorded(k)' = Recorded(k)
<1> SUFFICES ASSUME NEW kt \in Key, kt = req[t].key
             PROVE  Ordered' /\ \A k \in Key : Recorded(k)' = Recorded(k)
  BY OnTheWay DEF Send
<1>0. /\ pc[t] = "send" /\ versions' = versions
      /\ pc' = [pc EXCEPT ![t] = IF end THEN "stopped" ELSE "recv"]
      /\ req' = [req EXCEPT ![t] = NULL] /\ mine' = [mine EXCEPT ![t] = 0]
      /\ promised' = [promised EXCEPT ![kt] = IF @ < mine[t] THEN mine[t] ELSE @]
  BY DEF Send, Goto
<1>1. /\ pc'[t] \in {"stopped", "recv"}
      /\ \A u \in Thread \ {t} : pc'[u] = pc[u] /\ req'[u] = req[u] /\ mine'[u] = mine[u]
  BY <1>0 DEF BasicInv, TypeInv, TypeOK
<1>2. ASSUME NEW k \in Key PROVE Recorded(k)' = Recorded(k)
  <2>1. Busy("log_lock", k)' <=> Busy("log_lock", k)
    BY <1>0, <1>1 DEF Busy
  <2>2. Busy("log", k)' <=> Busy("log", k)
    BY <1>0, <1>1 DEF Busy
  <2> QED
    BY <1>0, <2>1, <2>2, SameRecorded
<1>3. OneEach'
  BY <1>1 DEF OneEach, Ordered
<1>4. ASSUME NEW u \in Thread, pc'[u] \in {"log_lock", "log", "send"}
      PROVE  Versioned(u, req[u].key)'
  <2>1. u # t /\ pc'[u] = pc[u] /\ req'[u] = req[u] /\ mine'[u] = mine[u]
    BY <1>1, <1>4
  <2>2. Versioned(u, req[u].key) /\ req[u].key \in Key
    BY <1>4, <2>1, OnTheWay DEF Ordered
  <2>3. Recorded(req[u].key)' = Recorded(req[u].key)
    <3> SUFFICES ASSUME NEW k \in Key, k = req[u].key, k = req'[u].key
                 PROVE  Recorded(k)' = Recorded(k)
      BY <2>1, <2>2
    <3> QED
      BY <1>2
  <2> QED
    BY <1>0, <2>1, <2>2, <2>3 DEF Versioned
<1>5. ASSUME NEW k \in Key PROVE promised'[k] <= Recorded(k)'
  <2>1. promised[k] <= Recorded(k) /\ promised \in [Key -> Nat]
    BY DEF Ordered, BasicInv, TypeInv
  <2>2. mine[t] <= Recorded(kt)
    BY <1>0 DEF Ordered, Versioned
  <2>3. promised'[k] <= Recorded(k)
    BY <1>0, <2>1, <2>2
  <2> QED
    BY <1>2, <2>3
<1> QED
  BY <1>2, <1>3, <1>4, <1>5 DEF Ordered

(* The changes of a key stay in order while clients are connected.         *)
LEMMA OrderedNext ==
  ASSUME BasicInv, Open => Ordered, [Next]_vars
  PROVE  Open' => Ordered'
<1> SUFFICES ASSUME Open' PROVE Ordered'
  OBVIOUS
<1> USE DEF Enter, Running, Cleaning, Open, files, workers, promises, lives, losses
<1>1. CASE Open /\ UNCHANGED <<pc, req, mine, versions, promised>>
  <2>1. ASSUME NEW k \in Key PROVE Recorded(k)' = Recorded(k)
    <3>1. Busy("log_lock", k)' <=> Busy("log_lock", k)
      BY <1>1 DEF Busy
    <3>2. Busy("log", k)' <=> Busy("log", k)
      BY <1>1 DEF Busy
    <3> QED
      BY <1>1, <3>1, <3>2, SameRecorded
  <2>2. OneEach' /\ \A k \in Key : promised'[k] <= Recorded(k)'
    BY <1>1, <2>1 DEF OneEach, Ordered
  <2>3. ASSUME NEW u \in Thread, pc'[u] \in {"log_lock", "log", "send"}
        PROVE  Versioned(u, req[u].key)'
    <3>1. Versioned(u, req[u].key) /\ req[u].key \in Key
      BY <1>1, <2>3, OnTheWay DEF Ordered
    <3>2. Recorded(req[u].key)' = Recorded(req[u].key)
      <4> SUFFICES ASSUME NEW k \in Key, k = req[u].key, k = req'[u].key
                   PROVE  Recorded(k)' = Recorded(k)
        BY <1>1, <3>1
      <4> QED
        BY <2>1
    <3> QED
      BY <1>1, <3>1, <3>2 DEF Versioned
  <2> QED
    BY <2>2, <2>3 DEF Ordered
<1>2. CASE Listen
  <2>1. /\ \A t \in Thread : pc'[t] = "recv"
        /\ \A k \in Key : Len(versions'[k]) = 1 /\ promised'[k] = 1
    BY <1>2 DEF Listen, BasicInv, TypeInv, Running
  <2>2. ASSUME NEW k \in Key PROVE promised'[k] <= Recorded(k)'
    <3>1. ~Busy("log_lock", k)' /\ ~Busy("log", k)'
      BY <2>1 DEF Busy
    <3> QED
      BY <2>1, <3>1 DEF Recorded, One
  <2> QED
    BY <2>1, <2>2 DEF Ordered, OneEach
<1>3. CASE Start \/ CreateLog \/ Load \/ Replay \/ RenameLog
  BY <1>3 DEF Start, CreateLog, Load, Replay, RenameLog
<1>4. CASE Exit \/ Crash
  BY <1>4 DEF Exit, Crash, Die
<1>5. ASSUME NEW t \in Thread,
             (\E r \in Request : Receive(t, r)) \/ Change(t) \/ LogLock(t) \/ AppendLog(t) \/ Send(t)
      PROVE  Ordered'
  <2>1. phase' = phase /\ Ordered
    BY <1>5 DEF Receive, Change, LogLock, AppendLog, Send
  <2>2. CASE AppendLog(t)
    <3>1. req[t].key \in Key
      BY <2>2, OnTheWay DEF AppendLog
    <3> QED
      BY <2>1, <2>2, <3>1, AppendOrdered
  <2> QED
    BY <1>5, <2>1, <2>2, ReceiveOrdered, ChangeOrdered, LogLockOrdered, SendOrdered
<1>6. CASE \E t \in Thread : UseAfterDelete(t)
  BY <1>6 DEF UseAfterDelete, Die
<1>7. CASE ReceiveExit \/ OpenBackup \/ SaveBucket \/ CloseBackup
  BY <1>1, <1>7 DEF ReceiveExit, OpenBackup, SaveBucket, CloseBackup
<1>8. CASE RemoveBackup \/ RenameBackup \/ DeleteHash \/ DeleteLog
  BY <1>1, <1>8 DEF RemoveBackup, RenameBackup, DeleteHash, DeleteLog
<1>9. CASE UNCHANGED vars
  BY <1>1, <1>9 DEF vars
<1> QED
  BY <1>2, <1>3, <1>4, <1>5, <1>6, <1>7, <1>8, <1>9 DEF Next, Starting, Serving, Leaving

-----------------------------------------------------------------------------
(* The files as a new process reads them; the contents that clients began  *)
(* with, and the last ones; the keys with records in the log.              *)

Base == IF backup = NoFile THEN Empty ELSE backup
Records == IF log = NoFile THEN << >> ELSE log
First == [k \in Key |-> versions[k][1]]
Last(k) == versions[k][Len(versions[k])]
Noted == {Records[n].key : n \in 1 .. Len(Records)}

Clean == \A n \in 1 .. Len(Records) : Records[n].val # Garbage

(* The files hold what was promised...                                     *)
Held(k) ==
  \E n \in promised[k] .. Len(versions[k]) : Replayed(Base, Records)[k] = versions[k][n]

(* ... while no client is connected, but for what was lost...              *)
Recovery ==
  /\ phase \in {"down", "create_log", "load", "replay", "rename_log"} =>
       \A k \in Key : k \in Noted \/ k \notin lost => Held(k)
  /\ phase \in {"replay", "rename_log", "recovered"} =>
       \A k \in Key \ volatile : table[k] = Base[k]
  /\ phase = "replay" => volatile \subseteq lost
  /\ phase = "rename_log" => \A k \in Key \ lost : table[k] = Replayed(Base, Records)[k]
  /\ phase = "recovered" => \A k \in Key \ lost : Recovered(k)

(* ... the log leads to what is recorded, while there is one; a key that   *)
(* has no record has no change recorded...                                 *)
Service ==
  /\ phase \in {"serve"} \cup Cleaning => \A k \in Key : table[k] = Last(k)
  /\ phase \in Running \ {"exit"} =>
       \A k \in Key : /\ Replayed(First, Records)[k] = versions[k][Recorded(k)]
                      /\ k \notin Noted => Recorded(k) = 1
  /\ phase \in {"serve", "backup", "remove"} =>
       \A k \in Key \ volatile : Base[k] = First[k]
  /\ phase \in Running => lost = {}

(* ... and the new backup has one of the contents of each key, the last    *)
(* one if that did not come behind backup_hash.                            *)
SavedIn(map, k) ==
  /\ \E n \in 1 .. Len(versions[k]) : map[k] = versions[k][n]
  /\ k \notin behind => map[k] = Last(k)

Saved ==
  /\ phase \in {"backup", "remove", "rename_backup"} =>
       \A k \in Key \ unsaved : SavedIn(backup_temp, k)
  /\ phase \in {"remove", "rename_backup", "delete_hash"} => unsaved = {}
  /\ phase \in {"delete_hash", "delete_log", "exit"} => \A k \in Key : SavedIn(backup, k)

Kept == Clean /\ Recovery /\ Service /\ Saved

FilesInv == BasicInv /\ (Open => Ordered) /\ (garbled \/ Kept)

LEMMA FileTypes ==
  ASSUME BasicInv
  PROVE  /\ Base \in [Key -> Content] /\ Records \in Seq(Record)
         /\ versions \in [Key -> Seq(Content)] /\ table \in [Key -> Content]
         /\ \A k \in Key : Len(versions[k]) \in Nat /\ promised[k] \in 1 .. Len(versions[k])
         /\ First \in [Key -> Content]
<1>1. Base \in [Key -> Content]
  BY EmptyType DEF Base, BasicInv, TypeInv, TypeOK
<1>2. Records \in Seq(Record)
  BY DEF Records, BasicInv, TypeInv, TypeOK
<1>3. /\ versions \in [Key -> Seq(Content)] /\ table \in [Key -> Content]
      /\ \A k \in Key : Len(versions[k]) \in Nat /\ promised[k] \in 1 .. Len(versions[k])
  BY DEF BasicInv, TypeInv, TypeOK
<1>4. \A k \in Key : versions[k][1] \in Content
  BY <1>3
<1> QED
  BY <1>1, <1>2, <1>3, <1>4 DEF First

(* A file that is there is what a new process reads.                       *)
LEMMA FilesAre ==
  /\ KeysOf(log) = Noted
  /\ log \in Seq(Record) => Records = log
  /\ backup \in [Key -> Content] => Base = backup
<1>1. KeysOf(log) = Noted
  BY DEF KeysOf, Noted, Records
<1> QED
  BY <1>1, NoFileAssumption DEF Records, Base

(* Of a key that has a record, the table before the log does not matter;   *)
(* of one that has none, the log does not.                                 *)
LEMMA WithRecord ==
  ASSUME BasicInv, NEW k \in Key, NEW X, NEW Y
  PROVE  /\ k \in Noted => Replayed(X, Records)[k] = Replayed(Y, Records)[k]
         /\ k \notin Noted => Replayed(X, Records)[k] = X[k]
<1>1. Records \in Seq(Record)
  BY FileTypes
<1>2. ASSUME k \in Noted PROVE Replayed(X, Records)[k] = Replayed(Y, Records)[k]
  <2>1. PICK i \in 1 .. Len(Records) : Records[i].key = k
    BY <1>2 DEF Noted
  <2>2. PICK n : IsLast(Records, k, n)
    BY <1>1, <2>1, LastRecord
  <2> QED
    BY <1>1, <2>2, ReplayedIs
<1>3. ASSUME k \notin Noted PROVE Replayed(X, Records)[k] = X[k]
  <2>1. \A n \in 1 .. Len(Records) : Records[n].key # k
    BY <1>3 DEF Noted
  <2> QED
    BY <1>1, <2>1, ReplayedIs
<1> QED
  BY <1>2, <1>3

LEMMA NothingNoted == Records = << >> => Noted = {}
  BY DEF Noted

LEMMA InitKept == Init => Kept
<1> SUFFICES ASSUME Init PROVE Kept
  OBVIOUS
<1>1. Base = Empty /\ Records = << >> /\ phase = "down"
  BY DEF Init, Base, Records
<1>2. \A k \in Key : versions[k] = <<NULL>> /\ promised[k] = 1 /\ Empty[k] = NULL
  BY DEF Init, Empty
<1>3. Replayed(Empty, << >>) = Empty
  <2>1. << >> \in Seq(Record)
    OBVIOUS
  <2> QED
    BY <2>1, EmptyType, ReplayedType
<1>4. ASSUME NEW k \in Key PROVE Held(k)
  <2>1. promised[k] = 1 /\ versions[k] = <<NULL>> /\ Replayed(Base, Records)[k] = NULL
    BY <1>1, <1>2, <1>3
  <2>2. Len(<<NULL>>) = 1 /\ <<NULL>>[1] = NULL /\ 1 \in 1 .. 1
    OBVIOUS
  <2> QED
    BY <2>1, <2>2 DEF Held
<1> QED
  BY <1>1, <1>4 DEF Kept, Clean, Recovery, Service, Saved, Running, Cleaning

(* What does not change.                                                   *)
LEMMA SameHeld ==
  ASSUME UNCHANGED <<backup, Records, versions, promised>>, NEW k
  PROVE  Held(k)' <=> Held(k)
<1>1. Base' = Base
  BY DEF Base
<1> QED
  BY <1>1 DEF Held

LEMMA SameService ==
  ASSUME UNCHANGED <<pc, req, versions>>, NEW k
  PROVE  Recorded(k)' = Recorded(k) /\ Last(k)' = Last(k) /\ First' = First
<1>1. Busy("log_lock", k)' <=> Busy("log_lock", k)
  BY DEF Busy
<1>2. Busy("log", k)' <=> Busy("log", k)
  BY DEF Busy
<1>3. Recorded(k)' = Recorded(k)
  BY <1>1, <1>2, SameRecorded
<1> QED
  BY <1>3 DEF Last, First

(* Starting.                                                               *)
LEMMA KeptStarting ==
  ASSUME FilesInv, Kept, Start \/ Starting
  PROVE  Kept'
<1> USE DEF FilesInv, Enter, files, workers, promises, lives, losses
<1>0. /\ Base \in [Key -> Content] /\ Records \in Seq(Record)
      /\ \A k \in Key : Len(versions[k]) \in Nat /\ promised[k] \in 1 .. Len(versions[k])
      /\ table \in [Key -> Content]
  BY FileTypes
<1>1. CASE Start \/ CreateLog
  <2>1. UNCHANGED <<backup, Records, versions, promised, lost>>
    BY <1>1 DEF Start, CreateLog, Records
  <2>2. Noted' = Noted /\ \A k \in Key : Held(k)' <=> Held(k)
    BY <2>1, SameHeld DEF Noted
  <2>3. phase \in {"down", "create_log"} /\ phase' \in {"create_log", "load"}
    BY <1>1 DEF Start, CreateLog
  <2> QED
    BY <2>1, <2>2, <2>3 DEF Kept, Clean, Recovery, Service, Saved, Running, Cleaning
<1>2. CASE Load
  <2>1. UNCHANGED <<backup, Records, versions, promised>>
    BY <1>2 DEF Load, Records
  <2>2. Noted' = Noted /\ Base' = Base /\ \A k \in Key : Held(k)' <=> Held(k)
    BY <2>1, SameHeld DEF Noted, Base
  <2>3. PICK u \in Unread(Base) :
          /\ table' = [k \in Key |-> IF k \in u THEN NULL ELSE Base[k]]
          /\ volatile' = u /\ lost' = lost \cup u
    BY <1>2 DEF Load, Base
  <2>4. /\ phase = "load" /\ phase' \in {"replay", "recovered"}
        /\ phase' = "recovered" => log_path = "log"
    BY <1>2 DEF Load
  <2>5. \A k \in Key : k \in Noted \/ k \notin lost => Held(k)
    BY <2>4 DEF Kept, Recovery
  <2>6. \A k \in Key \ volatile' : table'[k] = Base'[k]
    BY <2>2, <2>3
  <2>7. ASSUME phase' = "recovered", NEW k \in Key \ lost' PROVE Recovered(k)'
    <3>1. Records = << >>
      BY <2>4, <2>7, FilesAre DEF BasicInv, FilesKept
    <3>2. Replayed(Base, << >>) = Base
      BY <1>0, ReplayedType
    <3>3. Held(k) /\ table'[k] = Base[k]
      BY <2>2, <2>3, <2>5, <2>6
    <3> QED
      BY <2>1, <3>1, <3>2, <3>3 DEF Held, Recovered
  <2>8. Clean' /\ Recovery'
    BY <2>1, <2>2, <2>3, <2>4, <2>5, <2>6, <2>7 DEF Kept, Clean, Recovery
  <2> QED
    BY <2>4, <2>8 DEF Kept, Service, Saved, Running, Cleaning
<1>3. CASE Replay
  <2>1. UNCHANGED <<backup, Records, versions, promised>>
    BY <1>3 DEF Replay, Records
  <2>2. Noted' = Noted /\ Base' = Base /\ \A k \in Key : Held(k)' <=> Held(k)
    BY <2>1, SameHeld DEF Noted, Base
  <2>3. phase = "replay" /\ phase' = "rename_log" /\ log \in Seq(Record) /\ Records = log
    BY <1>3, FilesAre DEF Replay, BasicInv, FilesKept
  <2>4. volatile' = volatile \cup Noted /\ lost' = lost \ Noted
    BY <1>3, FilesAre DEF Replay
  <2>5. PICK n \in Understood(log) : table' = Replayed(table, SubSeq(log, 1, n))
    BY <1>3 DEF Replay
  <2>6. n = Len(log)
    BY <2>3 DEF Understood, Kept, Clean
  <2>7. SubSeq(log, 1, Len(log)) = log
    BY <2>3
  <2>8. table' = Replayed(table, Records)
    BY <2>3, <2>5, <2>6, <2>7
  <2>9. /\ \A k \in Key : k \in Noted \/ k \notin lost => Held(k)
        /\ \A k \in Key \ volatile : table[k] = Base[k]
        /\ volatile \subseteq lost
    BY <2>3 DEF Kept, Recovery
  <2>10. ASSUME NEW k \in Key \ volatile' PROVE table'[k] = Base[k]
    BY <2>4, <2>8, <2>9, WithRecord
  <2>11. ASSUME NEW k \in Key \ lost' PROVE table'[k] = Replayed(Base, Records)[k]
    <3>1. CASE k \in Noted
      BY <2>8, <3>1, WithRecord
    <3>2. CASE k \notin Noted
      <4>1. table[k] = Base[k]
        BY <2>4, <2>9, <3>2
      <4> QED
        BY <2>8, <3>2, <4>1, WithRecord
    <3> QED
      BY <3>1, <3>2
  <2>12. Clean' /\ Recovery'
    BY <2>1, <2>2, <2>3, <2>4, <2>9, <2>10, <2>11 DEF Kept, Clean, Recovery
  <2> QED
    BY <2>3, <2>12 DEF Kept, Service, Saved, Running, Cleaning
<1>4. CASE RenameLog
  <2>1. /\ phase = "rename_log" /\ phase' = "recovered"
        /\ UNCHANGED <<table, backup, versions, promised, volatile, lost>>
    BY <1>4 DEF RenameLog
  <2>2. Base' = Base /\ Records' = << >>
    BY <1>4, <2>1 DEF RenameLog, Records, Base, BasicInv, FilesKept
  <2>3. \A k \in Key \ lost : Held(k) /\ table[k] = Replayed(Base, Records)[k]
    BY <2>1 DEF Kept, Recovery
  <2>4. \A k \in Key \ lost' : Recovered(k)'
    BY <2>1, <2>3 DEF Held, Recovered
  <2>5. \A k \in Key \ volatile' : table'[k] = Base'[k]
    BY <2>1, <2>2 DEF Kept, Recovery
  <2>6. Clean' /\ Recovery'
    BY <2>1, <2>2, <2>4, <2>5 DEF Clean, Recovery
  <2> QED
    BY <2>1, <2>6 DEF Kept, Service, Saved, Running, Cleaning
<1>5. CASE Listen
  <2>1. /\ phase = "recovered" /\ phase' = "serve" /\ versions' = [k \in Key |-> <<table[k]>>]
        /\ lost' = {} /\ UNCHANGED <<table, backup, log, pc, volatile>>
    BY <1>5 DEF Listen
  <2>2. Records = << >> /\ Records' = << >>
    BY <2>1, FilesAre DEF BasicInv, FilesKept, Records
  <2>3. \A k \in Key : versions'[k] = <<table[k]>> /\ Len(versions'[k]) = 1
                        /\ versions'[k][1] = table[k]
    BY <2>1
  <2>4. \A t \in Thread : pc'[t] = "recv"
    BY <2>1 DEF BasicInv, TypeInv, Running, Cleaning
  <2>5. First' = table
    BY <1>0, <2>3 DEF First
  <2>6. Replayed(table, << >>) = table
    BY <1>0, ReplayedType
  <2>7. ASSUME NEW k \in Key
        PROVE  /\ table'[k] = Last(k)'
               /\ Replayed(First, Records)'[k] = versions'[k][Recorded(k)']
               /\ Recorded(k)' = 1
    <3>1. ~Busy("log_lock", k)' /\ ~Busy("log", k)'
      BY <2>4 DEF Busy
    <3>2. Recorded(k)' = 1
      BY <2>3, <3>1 DEF Recorded, One
    <3> QED
      BY <2>1, <2>2, <2>3, <2>5, <2>6, <3>2 DEF Last
  <2>8. Base' = Base /\ \A k \in Key \ volatile : Base[k] = table[k]
    BY <2>1 DEF Base, Kept, Recovery
  <2>9. Service'
    BY <2>1, <2>5, <2>7, <2>8 DEF Service
  <2> QED
    BY <2>1, <2>2, <2>9 DEF Kept, Clean, Recovery, Saved
<1> QED
  BY <1>1, <1>2, <1>3, <1>4, <1>5 DEF Starting

(* Serving: a change of the table...                                       *)
LEMMA KeptChange ==
  ASSUME FilesInv, Kept, NEW t \in Thread, Change(t),
         NEW kt \in Key, kt = req[t].key, ~(req[t].val = NULL /\ table[kt] = NULL)
  PROVE  Kept'
<1> USE DEF FilesInv, files, lives
<1>0. /\ Base \in [Key -> Content]
      /\ \A k \in Key : Len(versions[k]) \in Nat
      /\ table \in [Key -> Content] /\ versions \in [Key -> Seq(Content)]
  BY FileTypes
<1>1. /\ phase \in {"serve"} \cup Cleaning /\ phase' = phase /\ Open
      /\ UNCHANGED <<backup, backup_temp, log, unsaved, volatile, lost>>
  BY DEF Change, TableLives, Open, Running
<1>2. Records' = Records /\ Base' = Base /\ Noted' = Noted
  BY <1>1 DEF Records, Base, Noted
<1>3. \A k \in Key : Recorded(k)' = Recorded(k) /\ Recorded(k) \in 1 .. Len(versions[k])
  BY <1>1, ChangeOrdered, RecordedRange
<1>4. /\ table' = [table EXCEPT ![kt] = req[t].val]
      /\ versions' = [versions EXCEPT ![kt] = Append(@, req[t].val)]
      /\ behind' = IF phase \in Cleaning /\ kt \notin unsaved THEN behind \cup {kt} ELSE behind
      /\ req[t].val \in Content
  BY OnTheWay DEF Change, Content
<1>5. /\ versions'[kt] = Append(versions[kt], req[t].val)
      /\ table'[kt] = req[t].val
      /\ \A k \in Key \ {kt} : versions'[k] = versions[k] /\ table'[k] = table[k]
  BY <1>0, <1>4
<1>6. /\ Len(versions'[kt]) = Len(versions[kt]) + 1
      /\ versions'[kt][Len(versions[kt]) + 1] = req[t].val
      /\ \A i \in 1 .. Len(versions[kt]) : versions'[kt][i] = versions[kt][i]
  BY <1>0, <1>4, <1>5
<1>7. ASSUME NEW k \in Key, NEW i \in 1 .. Len(versions[k])
      PROVE  versions'[k][i] = versions[k][i] /\ i \in 1 .. Len(versions'[k])
  <2>1. CASE k = kt
    BY <1>0, <1>6, <2>1
  <2>2. CASE k # kt
    BY <1>5, <2>2
  <2> QED
    BY <2>1, <2>2
<1>8. First' = First
  <2>1. ASSUME NEW k \in Key PROVE versions'[k][1] = versions[k][1]
    <3>1. 1 \in 1 .. Len(versions[k])
      BY <1>0, <1>3
    <3> QED
      BY <1>7, <3>1
  <2> QED
    BY <2>1 DEF First
<1>9. ASSUME NEW k \in Key
      PROVE  /\ table'[k] = Last(k)'
             /\ phase \in Running \ {"exit"} =>
                  /\ Replayed(First, Records)'[k] = versions'[k][Recorded(k)']
                  /\ k \notin Noted' => Recorded(k)' = 1
  <2>1. table[k] = Last(k)
    BY <1>1 DEF Kept, Service
  <2>2. table'[k] = Last(k)'
    BY <1>5, <1>6, <2>1 DEF Last
  <2>3. versions'[k][Recorded(k)'] = versions[k][Recorded(k)]
    BY <1>3, <1>7
  <2> QED
    BY <1>2, <1>3, <1>8, <2>2, <2>3 DEF Kept, Service
<1>10. Service'
  BY <1>1, <1>2, <1>8, <1>9 DEF Kept, Service
<1>11. ASSUME NEW map, NEW k \in Key \ unsaved, SavedIn(map, k), phase \in Cleaning
       PROVE  SavedIn(map, k)'
  <2>1. \E n \in 1 .. Len(versions'[k]) : map[k] = versions'[k][n]
    BY <1>7, <1>11 DEF SavedIn
  <2>2. k \notin behind' => map[k] = Last(k)'
    <3>1. k \notin behind' => k \notin behind /\ k # kt
      BY <1>4, <1>11
    <3> QED
      BY <1>5, <1>11, <3>1 DEF SavedIn, Last
  <2> QED
    BY <2>1, <2>2 DEF SavedIn
<1>12. Saved'
  <2>1. ASSUME phase \in {"backup", "remove", "rename_backup"}, NEW k \in Key \ unsaved
        PROVE  SavedIn(backup_temp, k)'
    <3>1. SavedIn(backup_temp, k)
      BY <2>1 DEF Kept, Saved
    <3> QED
      BY <1>1, <1>11, <2>1, <3>1 DEF Cleaning, SavedIn
  <2>2. ASSUME phase = "delete_hash", NEW k \in Key PROVE SavedIn(backup, k)'
    <3>1. SavedIn(backup, k) /\ unsaved = {}
      BY <2>2 DEF Kept, Saved
    <3> QED
      BY <1>1, <1>11, <2>2, <3>1 DEF Cleaning, SavedIn
  <2>3. phase \notin {"delete_log", "exit"}
    BY <1>1 DEF Cleaning
  <2> QED
    BY <1>1, <2>1, <2>2, <2>3 DEF Kept, Saved
<1>13. Clean' /\ Recovery'
  BY <1>1, <1>2 DEF Kept, Clean, Recovery, Cleaning
<1> QED
  BY <1>10, <1>12, <1>13 DEF Kept

(* ... a record of it...                                                   *)
LEMMA KeptAppend ==
  ASSUME FilesInv, Kept, NEW t \in Thread, AppendLog(t), ~garbled',
         NEW kt \in Key, kt = req[t].key
  PROVE  Kept'
<1> USE DEF FilesInv, files, promises, lives, losses
<1>1. /\ phase \in {"serve"} \cup Cleaning /\ phase' = phase /\ Open
      /\ UNCHANGED <<backup, backup_temp, unsaved, table, versions, promised, volatile, behind, lost>>
  BY DEF AppendLog, TableLives, Open, Running
<1>2. log \in Seq(Record) /\ Records = log
  BY <1>1, FilesAre DEF BasicInv, FilesKept
<1>3. /\ \A k \in Key \ {kt} : Recorded(k)' = Recorded(k)
      /\ Recorded(kt)' = Recorded(kt) + 1
      /\ versions[kt][Recorded(kt) + 1] = req[t].val
  BY <1>1, AppendOrdered
<1>4. PICK r : r = [key |-> kt, val |-> req[t].val]
  OBVIOUS
<1>5. log' = Append(log, r)
  <2>1. PICK v \in Logged(t) : /\ log' = Append(log, [key |-> kt, val |-> v])
                               /\ garbled' = (garbled \/ v = Garbage)
    BY DEF AppendLog
  <2>2. v = req[t].val
    BY <2>1 DEF Logged
  <2> QED
    BY <1>4, <2>1, <2>2
<1>6. r \in Record /\ r.key = kt /\ r.val = req[t].val /\ r.val # Garbage
  <2>1. req[t].val \in Value \cup {NULL}
    BY OnTheWay DEF AppendLog
  <2> QED
    BY <1>4, <2>1, NullAssumption DEF Record, Content
<1>7. log' \in Seq(Record) /\ Records' = log'
  <2>1. log' \in Seq(Record)
    BY <1>2, <1>5, <1>6
  <2> QED
    BY <2>1, NoFileAssumption DEF Records
<1>8. Clean'
  <2>1. \A n \in 1 .. Len(log) : log[n].val # Garbage
    BY <1>2 DEF Kept, Clean
  <2>2. \A n \in 1 .. Len(log') : log'[n].val # Garbage
    BY <1>2, <1>5, <1>6, <2>1
  <2> QED
    BY <1>7, <2>2 DEF Clean
<1>9. First' = First /\ Base' = Base /\ \A k : Last(k)' = Last(k)
  BY <1>1 DEF First, Base, Last
<1>10. Noted \subseteq Noted' /\ kt \in Noted'
  <2>1. /\ Len(log') = Len(log) + 1 /\ Len(log) \in Nat /\ log'[Len(log) + 1] = r
        /\ \A n \in 1 .. Len(log) : log'[n] = log[n]
    BY <1>2, <1>5, <1>6
  <2> QED
    BY <1>2, <1>6, <1>7, <2>1 DEF Noted
<1>11. phase \in Running \ {"exit"}
  BY <1>1 DEF Running, Cleaning
<1>12. ASSUME NEW k \in Key
       PROVE  /\ Replayed(First, Records)'[k] = versions'[k][Recorded(k)']
              /\ k \notin Noted' => Recorded(k)' = 1
  <2>1. Replayed(First, log)[k] = versions[k][Recorded(k)] /\ (k \notin Noted => Recorded(k) = 1)
    BY <1>2, <1>11 DEF Kept, Service
  <2>2. Replayed(First, Append(log, r))[k] = IF kt = k THEN req[t].val ELSE Replayed(First, log)[k]
    <3>1. log \in Seq(Record) /\ r \in Record
      BY <1>2, <1>6
    <3>2. Replayed(First, Append(log, r))[k] = IF r.key = k THEN r.val ELSE Replayed(First, log)[k]
      BY <3>1, ReplayedAppend, ZenonT(60)
    <3> QED
      BY <1>6, <3>2
  <2>3. Replayed(First, Records)'[k] = Replayed(First, Append(log, r))[k]
    BY <1>5, <1>7, <1>9
  <2>4. CASE k = kt
    <3>1. versions'[k][Recorded(k)'] = req[t].val
      BY <1>1, <1>3, <2>4
    <3> QED
      BY <1>10, <2>2, <2>3, <2>4, <3>1
  <2>5. CASE k # kt
    <3>1. Recorded(k)' = Recorded(k)
      BY <1>3, <2>5
    <3>2. versions'[k][Recorded(k)'] = versions[k][Recorded(k)]
      BY <1>1, <3>1
    <3> QED
      BY <1>10, <2>1, <2>2, <2>3, <2>5, <3>1, <3>2
  <2> QED
    BY <2>4, <2>5
<1>13. Service'
  BY <1>1, <1>9, <1>12 DEF Kept, Service
<1>14. Saved'
  <2>1. \A map, k : SavedIn(map, k)' = SavedIn(map, k)
    BY <1>1, <1>9, Zenon DEF SavedIn
  <2> QED
    BY <1>1, <2>1 DEF Kept, Saved, SavedIn, Last
<1>15. Recovery'
  BY <1>1 DEF Recovery, Cleaning
<1> QED
  BY <1>8, <1>13, <1>14, <1>15 DEF Kept

(* ... and the other steps of a thread, which change neither.              *)
LEMMA KeptOtherwise ==
  ASSUME FilesInv, Kept, phase' = phase, Open, volatile' = volatile, lost' = lost,
         UNCHANGED <<table, backup, backup_temp, log, unsaved, versions, behind>>,
         \A k \in Key : Recorded(k)' = Recorded(k)
  PROVE  Kept'
<1>1. Records' = Records /\ Base' = Base /\ Noted' = Noted /\ First' = First
  BY DEF Records, Base, Noted, First
<1>2. \A k : Last(k)' = Last(k) /\ (SavedIn(backup, k)' <=> SavedIn(backup, k))
                /\ (SavedIn(backup_temp, k)' <=> SavedIn(backup_temp, k))
  BY DEF Last, SavedIn
<1>3. Service'
  BY <1>1, <1>2 DEF Kept, Service
<1>4. Saved'
  BY <1>1, <1>2 DEF Kept, Saved
<1>5. Clean' /\ Recovery'
  BY <1>1 DEF Kept, Clean, Recovery, Open, Running, Cleaning
<1> QED
  BY <1>3, <1>4, <1>5 DEF Kept

LEMMA KeptServing ==
  ASSUME FilesInv, Kept, NEW t \in Thread, ~garbled',
         (\E r \in Request : Receive(t, r)) \/ Change(t) \/ LogLock(t) \/ AppendLog(t) \/ Send(t)
  PROVE  Kept'
<1> USE DEF FilesInv, files, workers, promises, lives, losses
<1>1. phase' = phase /\ Open
  BY DEF Receive, Change, LogLock, AppendLog, Send, TableLives, Open, Running
<1>2. CASE \E r \in Request : Receive(t, r)
  <2>1. \A k \in Key : Recorded(k)' = Recorded(k)
    BY <1>1, <1>2, ReceiveOrdered
  <2> QED
    BY <1>1, <1>2, <2>1, KeptOtherwise DEF Receive
<1>3. CASE LogLock(t)
  <2>1. \A k \in Key : Recorded(k)' = Recorded(k)
    BY <1>1, <1>3, LogLockOrdered
  <2> QED
    BY <1>1, <1>3, <2>1, KeptOtherwise DEF LogLock
<1>4. CASE Send(t)
  <2>1. \A k \in Key : Recorded(k)' = Recorded(k)
    BY <1>1, <1>4, SendOrdered
  <2> QED
    BY <1>1, <1>4, <2>1, KeptOtherwise DEF Send
<1>5. CASE Change(t)
  <2>1. req[t].key \in Key
    BY <1>5, OnTheWay DEF Change
  <2>2. CASE req[t].val = NULL /\ table[req[t].key] = NULL
    <3>1. \A k \in Key : Recorded(k)' = Recorded(k)
      BY <1>1, <1>5, ChangeOrdered
    <3>2. UNCHANGED <<table, backup, backup_temp, log, unsaved, versions, behind, volatile, lost>>
      BY <1>5, <2>2 DEF Change
    <3> QED
      BY <1>1, <3>1, <3>2, KeptOtherwise
  <2> QED
    BY <1>5, <2>1, <2>2, KeptChange
<1>6. CASE AppendLog(t)
  <2>1. req[t].key \in Key
    BY <1>6, OnTheWay DEF AppendLog
  <2> QED
    BY <1>6, <2>1, KeptAppend
<1> QED
  BY <1>2, <1>3, <1>4, <1>5, <1>6

(* Leaving.                                                                *)
LEMMA KeptLeaving ==
  ASSUME FilesInv, Kept, ~garbled',
         \/ ReceiveExit \/ OpenBackup \/ SaveBucket \/ CloseBackup \/ RemoveBackup
         \/ RenameBackup \/ DeleteHash \/ DeleteLog
  PROVE  Kept'
<1> USE DEF FilesInv, Enter, files, workers, promises, lives, losses
<1>0. UNCHANGED <<versions, promised, pc, req, volatile, behind, lost>>
  BY DEF ReceiveExit, OpenBackup, SaveBucket, CloseBackup, RemoveBackup, RenameBackup,
         DeleteHash, DeleteLog
<1>1. \A k : Recorded(k)' = Recorded(k) /\ Last(k)' = Last(k) /\ First' = First
  BY <1>0, SameService
<1>2. \A map, k : SavedIn(map, k)' <=> SavedIn(map, k)
  BY <1>0, <1>1 DEF SavedIn
<1>3. phase \in Running /\ phase' \in Running
  BY DEF ReceiveExit, OpenBackup, SaveBucket, CloseBackup, RemoveBackup, RenameBackup,
         DeleteHash, DeleteLog, Running, Cleaning
<1>4. log' = log => Records' = Records /\ Noted' = Noted
  BY DEF Records, Noted
<1>5. Recovery'
  BY <1>3 DEF Recovery, Running, Cleaning
<1>6. ASSUME log' = log, table' = table, phase \notin {"delete_log", "exit"},
             phase' \in {"serve"} \cup Cleaning,
             phase' \in {"serve", "backup", "remove"} =>
               Base' = Base /\ phase \in {"serve", "backup", "remove"}
      PROVE  Clean' /\ Service'
  <2>1. Clean'
    BY <1>4, <1>6 DEF Kept, Clean
  <2>2. phase \in {"serve"} \cup Cleaning
    BY <1>3, <1>6 DEF Running, Cleaning
  <2>3. \A k \in Key : table'[k] = Last(k)'
    BY <1>1, <1>6, <2>2 DEF Kept, Service
  <2>4. ASSUME NEW k \in Key
        PROVE  /\ Replayed(First, Records)'[k] = versions'[k][Recorded(k)']
               /\ k \notin Noted' => Recorded(k)' = 1
    <3>1. phase \in Running \ {"exit"}
      BY <1>3, <1>6
    <3>2. /\ Replayed(First, Records)[k] = versions[k][Recorded(k)]
          /\ k \notin Noted => Recorded(k) = 1
      BY <3>1 DEF Kept, Service
    <3>3. /\ Replayed(First, Records)' = Replayed(First, Records) /\ versions' = versions
          /\ Noted' = Noted /\ Recorded(k)' = Recorded(k)
      BY <1>0, <1>1, <1>4, <1>6 DEF Replayed
    <3> QED
      BY <3>2, <3>3
  <2>5. phase' \in {"serve", "backup", "remove"} =>
          \A k \in Key \ volatile' : Base'[k] = First'[k]
    BY <1>0, <1>1, <1>6 DEF Kept, Service
  <2>6. lost' = {}
    <3>1. phase \in Running
      BY <1>3
    <3> QED
      BY <1>0, <3>1 DEF Kept, Service
  <2> QED
    BY <2>1, <2>3, <2>4, <2>5, <2>6 DEF Service
<1>7. CASE ReceiveExit
  <2>1. /\ phase = "serve" /\ phase' = phase /\ table' = table /\ log' = log /\ Base' = Base
        /\ UNCHANGED <<backup, backup_temp, unsaved>>
    BY <1>7 DEF ReceiveExit, Base
  <2>2. Saved'
    BY <2>1 DEF Saved
  <2> QED
    BY <1>5, <1>6, <2>1, <2>2 DEF Kept
<1>8. CASE OpenBackup
  <2>1. /\ phase = "serve" /\ phase' = "backup" /\ table' = table /\ log' = log /\ Base' = Base
        /\ unsaved' = Key
    BY <1>8 DEF OpenBackup, Base
  <2>2. Saved'
    BY <2>1 DEF Saved
  <2> QED
    BY <1>5, <1>6, <2>1, <2>2 DEF Kept, Cleaning
<1>9. CASE SaveBucket
  <2>1. phase = "backup" /\ phase' = "backup" /\ table' = table /\ log' = log /\ Base' = Base
    BY <1>9 DEF SaveBucket, Base
  <2>2. PICK j \in unsaved : /\ unsaved' = unsaved \ {j} /\ j \in Key
                             /\ backup_temp' = [backup_temp EXCEPT ![j] = table[j]]
    BY <1>9 DEF SaveBucket, BasicInv, TypeInv, TypeOK
  <2>3. backup_temp \in [Key -> Content] /\ backup_temp' \in [Key -> Content]
    BY <2>1, <2>2, FileTypes DEF BasicInv, FilesKept
  <2>4. ASSUME NEW k \in Key \ unsaved' PROVE SavedIn(backup_temp', k)
    <3>1. CASE k = j
      <4>1. backup_temp'[k] = Last(k)
        BY <2>1, <2>2, <2>3, <3>1 DEF Kept, Service, Cleaning
      <4>2. Len(versions[k]) \in 1 .. Len(versions[k])
        BY FileTypes
      <4> QED
        BY <4>1, <4>2 DEF SavedIn, Last
    <3>2. CASE k # j
      <4>1. SavedIn(backup_temp, k) /\ backup_temp'[k] = backup_temp[k]
        BY <2>1, <2>2, <2>3, <2>4, <3>2 DEF Kept, Saved
      <4> QED
        BY <4>1 DEF SavedIn
    <3> QED
      BY <3>1, <3>2
  <2>5. Saved'
    <3>1. \A k \in Key \ unsaved' : SavedIn(backup_temp, k)'
      BY <1>0, <1>1, <2>4 DEF SavedIn
    <3> QED
      BY <2>1, <3>1 DEF Saved
  <2> QED
    BY <1>5, <1>6, <2>1, <2>5 DEF Kept, Cleaning
<1>10. CASE CloseBackup \/ RemoveBackup
  <2>1. /\ phase \in {"backup", "remove"} /\ phase' \in {"remove", "rename_backup"}
        /\ table' = table /\ log' = log /\ backup_temp' = backup_temp /\ unsaved' = unsaved
        /\ phase' = "remove" => phase = "backup" /\ backup' = backup
    BY <1>10 DEF CloseBackup, RemoveBackup
  <2>2. unsaved = {}
    BY <1>10 DEF CloseBackup, RemoveBackup, Kept, Saved
  <2>3. \A k \in Key : SavedIn(backup_temp, k)
    BY <2>1, <2>2 DEF Kept, Saved
  <2>4. \A k \in Key : SavedIn(backup_temp, k)'
    BY <1>0, <1>1, <2>1, <2>3 DEF SavedIn
  <2>5. Saved'
    BY <2>1, <2>2, <2>4 DEF Saved
  <2>6. phase' = "remove" => Base' = Base
    BY <2>1 DEF Base
  <2> QED
    BY <1>5, <1>6, <2>1, <2>5, <2>6 DEF Kept, Cleaning
<1>11. CASE RenameBackup
  <2>1. /\ phase = "rename_backup" /\ phase' = "delete_hash"
        /\ table' = table /\ log' = log /\ backup' = backup_temp /\ unsaved' = unsaved
    BY <1>11 DEF RenameBackup
  <2>2. unsaved = {} /\ \A k \in Key : SavedIn(backup_temp, k)
    BY <2>1 DEF Kept, Saved
  <2>3. \A k \in Key : SavedIn(backup, k)'
    BY <1>0, <1>1, <2>1, <2>2 DEF SavedIn
  <2>4. Saved'
    BY <2>1, <2>2, <2>3 DEF Saved
  <2> QED
    BY <1>5, <1>6, <2>1, <2>4 DEF Kept, Cleaning
<1>12. CASE DeleteHash \/ DeleteLog
  <2>1. /\ phase \in {"delete_hash", "delete_log"} /\ phase' \in {"delete_log", "exit"}
        /\ backup' = backup /\ phase' = "delete_log" => log' = log
    BY <1>12 DEF DeleteHash, DeleteLog
  <2>2. \A k \in Key : SavedIn(backup, k)
    BY <2>1 DEF Kept, Saved
  <2>3. backup' = backup
    BY <1>12 DEF DeleteHash, DeleteLog
  <2>4. \A k \in Key : SavedIn(backup, k)'
    BY <1>0, <1>1, <2>2, <2>3 DEF SavedIn
  <2>5. Saved'
    BY <2>1, <2>4 DEF Saved
  <2>6. phase' = "delete_log" => log' = log
    BY <1>12 DEF DeleteHash, DeleteLog
  <2>7. phase' = "exit" => Records' = << >>
    BY <1>12 DEF DeleteHash, DeleteLog, BasicInv, FilesKept, Running, Records
  <2>8. Clean'
    BY <1>4, <2>1, <2>6, <2>7 DEF Kept, Clean
  <2>9. phase' = "delete_log" => \A k \in Key : /\ Replayed(First, Records)'[k] = versions'[k][Recorded(k)']
                                                /\ k \notin Noted' => Recorded(k)' = 1
    <3>1. phase \in Running \ {"exit"}
      BY <2>1 DEF Running, Cleaning
    <3>2. \A k \in Key : /\ Replayed(First, Records)[k] = versions[k][Recorded(k)]
                         /\ k \notin Noted => Recorded(k) = 1
      BY <3>1 DEF Kept, Service
    <3> QED
      BY <1>0, <1>1, <1>4, <2>6, <3>2
  <2>10. lost' = {}
    <3>1. phase \in Running
      BY <1>3
    <3> QED
      BY <1>0, <3>1 DEF Kept, Service
  <2>11. Service'
    BY <2>1, <2>9, <2>10 DEF Service, Cleaning
  <2> QED
    BY <1>5, <2>5, <2>8, <2>11 DEF Kept
<1> QED
  BY <1>7, <1>8, <1>9, <1>10, <1>11, <1>12

(* The end of the process, at whatever step: what is not exposed is held.  *)
LEMMA HeldAtDeath ==
  ASSUME FilesInv, Kept, NEW k \in Key, k \in Noted \/ k \notin lost \cup Exposed
  PROVE  Held(k)
<1> USE DEF FilesInv
<1>0. /\ Base \in [Key -> Content] /\ Records \in Seq(Record) /\ First \in [Key -> Content]
      /\ Len(versions[k]) \in Nat /\ promised[k] \in 1 .. Len(versions[k])
  BY FileTypes
<1>1. CASE phase \in {"down", "create_log", "load", "replay", "rename_log"}
  BY <1>1 DEF Kept, Recovery
<1>2. CASE phase = "recovered"
  <2>1. Records = << >>
    BY <1>2, FilesAre DEF BasicInv, FilesKept
  <2>2. Exposed = volatile /\ k \notin Noted
    BY <1>2, <2>1, FilesAre, NothingNoted DEF Exposed
  <2>3. table[k] = Base[k] /\ Recovered(k)
    BY <1>2, <2>2 DEF Kept, Recovery
  <2>4. Replayed(Base, << >>) = Base
    BY <1>0, ReplayedType
  <2> QED
    BY <2>1, <2>3, <2>4 DEF Held, Recovered
<1>3. ASSUME phase \in Running PROVE Recorded(k) \in promised[k] .. Len(versions[k])
  <2>1. Recorded(k) \in 1 .. Len(versions[k]) /\ promised[k] <= Recorded(k)
    BY <1>3, RecordedRange DEF Open, Ordered
  <2> QED
    BY <1>0, <2>1
<1>4. ASSUME phase \in Running \ {"exit"}, k \in Noted PROVE Held(k)
  <2>1. Replayed(First, Records)[k] = versions[k][Recorded(k)]
    BY <1>4 DEF Kept, Service
  <2>2. Replayed(Base, Records)[k] = Replayed(First, Records)[k]
    BY <1>4, WithRecord
  <2> QED
    BY <1>3, <1>4, <2>1, <2>2 DEF Held
<1>5. CASE phase \in {"serve", "backup", "remove"} /\ k \notin Noted
  <2>1. Exposed = volatile \ Noted
    BY <1>5, FilesAre DEF Exposed
  <2>2. Base[k] = First[k] /\ phase \in Running \ {"exit"}
    BY <1>5, <2>1 DEF Kept, Service, Running, Cleaning
  <2>3. Replayed(First, Records)[k] = versions[k][Recorded(k)]
    BY <2>2 DEF Kept, Service
  <2>4. Replayed(Base, Records)[k] = Base[k] /\ Replayed(First, Records)[k] = First[k]
    BY <1>5, WithRecord
  <2> QED
    BY <1>3, <2>2, <2>3, <2>4 DEF Held
<1>6. CASE phase = "rename_backup" /\ k \notin Noted
  <2>1. Exposed = Key \ Noted
    BY <1>6, FilesAre DEF Exposed
  <2> QED
    BY <1>6, <2>1
<1>7. CASE phase \in {"delete_hash", "delete_log"} /\ k \notin Noted
  <2>1. Base = backup /\ SavedIn(backup, k) /\ phase \in Running \ {"exit"}
    BY <1>7, FilesAre DEF BasicInv, FilesKept, Kept, Saved, Running, Cleaning
  <2>2. Recorded(k) = 1 /\ Recorded(k) \in promised[k] .. Len(versions[k])
    BY <1>3, <1>7, <2>1 DEF Kept, Service
  <2>3. promised[k] = 1
    BY <1>0, <2>2
  <2>4. Replayed(Base, Records)[k] = Base[k]
    BY <1>7, WithRecord
  <2> QED
    BY <2>1, <2>3, <2>4 DEF Held, SavedIn
<1>8. CASE phase = "exit"
  <2>1. log = NoFile /\ Base = backup /\ SavedIn(backup, k) /\ Exposed = behind
    BY <1>8, FilesAre DEF BasicInv, FilesKept, Kept, Saved, Exposed
  <2>2. Records = << >>
    BY <2>1 DEF Records
  <2>3. k \notin behind
    BY <2>1, <2>2, NothingNoted
  <2>4. Replayed(Base, << >>) = Base
    BY <1>0, ReplayedType
  <2>5. Len(versions[k]) \in promised[k] .. Len(versions[k])
    BY <1>0
  <2> QED
    BY <2>1, <2>2, <2>3, <2>4, <2>5 DEF Held, SavedIn, Last
<1> QED
  <2>1. phase \in Phase
    BY DEF BasicInv, TypeInv, TypeOK
  <2> QED
    BY <1>1, <1>2, <1>4, <1>5, <1>6, <1>7, <1>8, <2>1 DEF Phase, Running, Cleaning

LEMMA KeptDying ==
  ASSUME FilesInv, Kept, Exit \/ Crash \/ \E t \in Thread : UseAfterDelete(t)
  PROVE  Kept'
<1>1. Die
  BY DEF Exit, Crash, UseAfterDelete
<1>2. phase' = "down" /\ lost' = lost \cup Exposed /\ UNCHANGED <<backup, Records, versions, promised>>
  BY <1>1 DEF Die, Records, files, promises
<1>3. Noted' = Noted
  BY <1>2 DEF Noted
<1>4. ASSUME NEW k \in Key, k \in Noted' \/ k \notin lost' PROVE Held(k)'
  BY <1>2, <1>3, <1>4, HeldAtDeath, SameHeld
<1>5. Clean' /\ Recovery'
  BY <1>2, <1>4 DEF Kept, Clean, Recovery
<1> QED
  BY <1>2, <1>5 DEF Kept, Service, Saved, Running, Cleaning

LEMMA FilesNext == FilesInv /\ [Next]_vars => FilesInv'
<1> SUFFICES ASSUME FilesInv, [Next]_vars PROVE FilesInv'
  OBVIOUS
<1>1. BasicInv' /\ (Open' => Ordered')
  BY BasicNext, OrderedNext DEF FilesInv
<1>2. ASSUME ~garbled' PROVE Kept'
  <2>1. CASE UNCHANGED vars
    <3>1. Kept
      BY <1>2, <2>1 DEF FilesInv, vars
    <3>2. UNCHANGED <<pc, req, versions, promised, table, phase, unsaved, backup,
                      backup_temp, log, volatile, behind, lost>>
      BY <2>1 DEF vars, files, workers, promises, lives, losses
    <3>3. \A k : Recorded(k)' = Recorded(k) /\ Last(k)' = Last(k) /\ First' = First
      BY <3>2, SameService
    <3>4. Records' = Records /\ Base' = Base /\ Noted' = Noted
      BY <3>2 DEF Records, Base, Noted
    <3>5. \A k : Held(k)' <=> Held(k)
      BY <3>2, <3>4, SameHeld
    <3>6. Clean' /\ Recovery'
      BY <3>1, <3>2, <3>4, <3>5 DEF Kept, Clean, Recovery, Recovered
    <3>7. Service'
      BY <3>1, <3>2, <3>3, <3>4 DEF Kept, Service
    <3>8. Saved'
      BY <3>1, <3>2, <3>3 DEF Kept, Saved, SavedIn
    <3> QED
      BY <3>6, <3>7, <3>8 DEF Kept
  <2>2. CASE Next
    <3>1. ~garbled
      <4>1. garbled => garbled'
        BY <2>2 DEF Next, Start, Starting, CreateLog, Load, Replay, RenameLog, Listen, Receive,
             Serving, Change, LogLock, AppendLog, Send, UseAfterDelete, ReceiveExit, Leaving,
             OpenBackup, SaveBucket, CloseBackup, RemoveBackup, RenameBackup, DeleteHash,
             DeleteLog, Exit, Crash, Die
      <4> QED
        BY <1>2, <4>1
    <3>2. Kept
      BY <3>1 DEF FilesInv
    <3> QED
      BY <1>2, <2>2, <3>2, KeptStarting, KeptServing, KeptLeaving, KeptDying
         DEF Next, Serving, Leaving
  <2> QED
    BY <2>1, <2>2
<1> QED
  BY <1>1, <1>2 DEF FilesInv

-----------------------------------------------------------------------------
(* Theorems.                                                               *)

(* Every variable keeps its type, whatever crashes come and when.          *)
THEOREM TypeCorrect == Spec => []TypeOK
<1>1. BasicInv => TypeOK
  BY DEF BasicInv, TypeInv
<1> QED
  BY <1>1, InitBasic, BasicNext, PTL DEF Spec

(* A data server that came to the end of clean_up left a backup and no     *)
(* log, whatever happened to those before it.                              *)
THEOREM OrderlyExit == Spec => []OrderlyExitLeavesBackup
<1>1. BasicInv => OrderlyExitLeavesBackup
  BY DEF BasicInv, FilesKept
<1> QED
  BY <1>1, InitBasic, BasicNext, PTL DEF Spec

(* The invariant about the contents of the files.                          *)
THEOREM FilesInvariance == Spec => []FilesInv
<1>1. Init => FilesInv
  BY InitBasic, InitKept DEF FilesInv, Init, Open, Running, Cleaning
<1> QED
  BY <1>1, FilesNext, PTL DEF Spec

(* Whatever crashes come, at whatever steps and however many, and whatever *)
(* clients do after EXIT: no answered write or delete is lost as long as   *)
(* no record is garbled, but of the keys that a process did not read, had  *)
(* in memory only, had no backup for, or changed behind backup_hash.       *)
THEOREM Durability == Spec => []OnlyExposedAreLost
<1>1. FilesInv => OnlyExposedAreLost
  BY DEF FilesInv, Kept, Recovery, OnlyExposedAreLost
<1> QED
  BY <1>1, FilesInvariance, PTL

(* The old backup is deleted when the new one is ready, whatever clients   *)
(* have done since backup_hash began.                                      *)
THEOREM BackupReady == Spec => []NewBackupReady
<1>1. FilesInv => NewBackupReady
  <2> SUFFICES ASSUME FilesInv, phase = "rename_backup", ~garbled, NEW k \in Key \ behind
               PROVE  \E n \in promised[k] .. Len(versions[k]) : backup_temp[k] = versions[k][n]
    BY DEF NewBackupReady
  <2>1. backup_temp[k] = Last(k)
    BY DEF FilesInv, Kept, Saved, SavedIn
  <2>2. Len(versions[k]) \in promised[k] .. Len(versions[k])
    BY FileTypes DEF FilesInv
  <2> QED
    BY <2>1, <2>2 DEF Last
<1> QED
  BY <1>1, FilesInvariance, PTL

(* Replaying the log over the new backup alters no key but those that are  *)
(* being changed or were changed behind backup_hash.                       *)
THEOREM ReplayHarmless == Spec => []ReplayIdempotent
<1>1. FilesInv => ReplayIdempotent
  <2> SUFFICES ASSUME FilesInv, phase = "delete_hash", ~garbled, NEW k \in Key \ behind,
                      ~Busy("log_lock", k), ~Busy("log", k)
               PROVE  Replayed(backup, log)[k] = backup[k]
    BY DEF ReplayIdempotent
  <2>1. phase \in Running \ {"exit"} /\ log \in Seq(Record) /\ Records = log
    BY FilesAre DEF FilesInv, BasicInv, FilesKept, Running, Cleaning
  <2>2. Recorded(k) = Len(versions[k])
    BY FileTypes DEF FilesInv, Recorded, One
  <2>3. Replayed(First, log)[k] = Last(k)
    BY <2>1, <2>2 DEF FilesInv, Kept, Service, Last
  <2>4. backup[k] = Last(k)
    BY DEF FilesInv, Kept, Saved, SavedIn
  <2> QED
    BY <2>1, <2>3, <2>4, ReplayedOver
<1> QED
  BY <1>1, FilesInvariance, PTL

-----------------------------------------------------------------------------
(* CleanUp: the two callers of clean_up, who step by step do what one does *)
(* in the last phases of DataServer.                                       *)

(* Before an actor opens its stream, no file has the inode it creates.     *)
Fresh ==
  \A a \in Actor : at[a] \in {"run", "open"} =>
    name.backup # Stream[a] /\ name.temp # Stream[a]

CleanUpInv == CleanUpTypeOK /\ Fresh

(* Each actor creates an inode of its own, which is not the old backup's.  *)
LEMMA Created ==
  /\ \A a \in Actor : Stream[a] \in Inode \ {NoInode, OldBackup}
  /\ \A a, b \in Actor : a # b => Stream[a] # Stream[b]
  BY DEF Actor, Stream, Inode, NoInode, OldBackup

(* When the server starts nobody has opened a stream.                      *)
LEMMA InitInvariant == CleanUpInit => CleanUpInv
<1> SUFFICES ASSUME CleanUpInit PROVE CleanUpInv
  OBVIOUS
<1>1. /\ name \in [backup : Inode, temp : Inode]
      /\ name.temp = NoInode /\ name.backup \in {NoInode, OldBackup}
  BY DEF CleanUpInit, Inode, NoInode, OldBackup
<1>2. content \in [Inode -> SUBSET Table]
  BY DEF CleanUpInit, Table
<1>3. Fresh
  BY <1>1, Created DEF Fresh
<1>4. stream \in [Actor -> Inode] /\ buffer \in [Actor -> 0 .. Items]
  BY CleanUpAssumption DEF CleanUpInit, Inode, NoInode
<1> QED
  BY <1>1, <1>2, <1>3, <1>4 DEF CleanUpInit, CleanUpInv, CleanUpTypeOK

(* One step of either actor.                                               *)
LEMMA NextInvariant == CleanUpInv /\ [CleanUpNext]_cleanUpVars => CleanUpInv'
<1> SUFFICES ASSUME CleanUpInv, [CleanUpNext]_cleanUpVars PROVE CleanUpInv'
  OBVIOUS
<1> USE DEF CleanUpInv, StepTo
<1>1. ASSUME NEW a \in Actor, CallCleanUp(a) PROVE CleanUpInv'
  BY <1>1 DEF CallCleanUp, CleanUpTypeOK, Fresh
<1>2. ASSUME NEW a \in Actor, fopen(a) PROVE CleanUpInv'
  <2> DEFINE inode == IF name.temp = NoInode THEN Stream[a] ELSE name.temp
  <2>1. inode \in Inode /\ inode # NoInode /\ inode # name.backup
    BY <1>2, Created DEF fopen, CleanUpTypeOK, Fresh
  <2>2. \A b \in Actor \ {a} : at[b] \in {"run", "open"} => inode # Stream[b]
    BY Created DEF Fresh
  <2>3. /\ stream' = [stream EXCEPT ![a] = inode]
        /\ name' = [name EXCEPT !.temp = inode]
        /\ content' = [content EXCEPT ![inode] = {}]
        /\ at' = [at EXCEPT ![a] = "write"]
        /\ UNCHANGED <<gone, told, buffer, has_log, freed>>
    BY <1>2 DEF fopen, CleanUpTypeOK
  <2> HIDE DEF inode
  <2>4. CleanUpTypeOK'
    BY <2>1, <2>3 DEF CleanUpTypeOK
  <2>5. Fresh'
    BY <2>2, <2>3 DEF CleanUpTypeOK, Fresh
  <2> QED
    BY <2>4, <2>5
<1>3. ASSUME NEW a \in Actor, WriteBucket(a) PROVE CleanUpInv'
  <2>1. CASE buffer' = [buffer EXCEPT ![a] = @ + 1] /\ UNCHANGED at
    <3>1. buffer[a] + 1 \in 0 .. Items
      BY <1>3, CleanUpAssumption DEF WriteBucket, CleanUpTypeOK
    <3> QED
      BY <1>3, <2>1, <3>1 DEF WriteBucket, CleanUpTypeOK, Fresh
  <2>2. CASE freed /\ at' = [at EXCEPT ![a] = "close"] /\ UNCHANGED buffer
    BY <1>3, <2>2 DEF WriteBucket, CleanUpTypeOK, Fresh
  <2> QED
    BY <1>3, <2>1, <2>2 DEF WriteBucket
<1>4. ASSUME NEW a \in Actor, fclose(a) PROVE CleanUpInv'
  <2>1. 1 .. buffer[a] \subseteq Table
    BY CleanUpAssumption DEF CleanUpTypeOK, Table
  <2>2. content' \in [Inode -> SUBSET Table]
    BY <1>4, <2>1 DEF fclose, CleanUpTypeOK
  <2>3. stream' \in [Actor -> Inode]
    BY <1>4 DEF fclose, CleanUpTypeOK, Inode, NoInode
  <2> QED
    BY <1>4, <2>2, <2>3 DEF fclose, CleanUpTypeOK, Fresh
<1>5. ASSUME NEW a \in Actor, access(a) PROVE CleanUpInv'
  BY <1>5 DEF access, CleanUpTypeOK, Fresh
<1>6. ASSUME NEW a \in Actor, remove(a) PROVE CleanUpInv'
  <2>1. /\ name' = [name EXCEPT !.backup = NoInode] /\ NoInode \in Inode
        /\ \A b \in Actor : NoInode # Stream[b]
    BY <1>6, Created DEF remove, Inode, NoInode
  <2> QED
    BY <1>6, <2>1 DEF remove, CleanUpTypeOK, Fresh
<1>7. ASSUME NEW a \in Actor, rename(a) PROVE CleanUpInv'
  <2>1. NoInode \in Inode /\ \A b \in Actor : NoInode # Stream[b]
    BY Created DEF Inode, NoInode
  <2> QED
    BY <1>7, <2>1 DEF rename, CleanUpTypeOK, Fresh
<1>8. ASSUME NEW a \in Actor, delete_hash(a) PROVE CleanUpInv'
  BY <1>8 DEF delete_hash, CleanUpTypeOK, Fresh
<1>9. ASSUME NEW a \in Actor, delete_log(a) PROVE CleanUpInv'
  BY <1>9 DEF delete_log, CleanUpTypeOK, Fresh
<1>10. ASSUME NEW a \in Actor, exit(a) PROVE CleanUpInv'
  <2>1. content' \in [Inode -> SUBSET Table]
    BY <1>10 DEF exit, CleanUpTypeOK, Flushed
  <2> QED
    BY <1>10, <2>1 DEF exit, CleanUpTypeOK, Fresh
<1>11. ASSUME NEW a \in Actor, UseAfterFree(a) PROVE CleanUpInv'
  BY <1>11 DEF UseAfterFree, CleanUpTypeOK, Fresh
<1>12. CASE UNCHANGED cleanUpVars
  BY <1>12 DEF cleanUpVars, CleanUpTypeOK, Fresh
<1> QED
  BY <1>1, <1>2, <1>3, <1>4, <1>5, <1>6, <1>7, <1>8, <1>9, <1>10, <1>11, <1>12
     DEF CleanUpNext, clean_up, backup_hash

(* The invariant holds in every state of every behaviour.                  *)
THEOREM CleanUpInvariance == CleanUpSpec => []CleanUpInv
  BY InitInvariant, NextInvariant, PTL DEF CleanUpSpec

(* Whatever the two callers of clean_up do to the names, and in whichever  *)
(* order, the backup and the temporary backup are never one file.          *)
THEOREM CleanUpTypeCorrect == CleanUpSpec => []CleanUpTypeOK
<1>1. CleanUpInv => CleanUpTypeOK
  BY DEF CleanUpInv
<1> QED
  BY <1>1, CleanUpInvariance, PTL

=============================================================================
