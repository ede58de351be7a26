-------------------------- MODULE HashStoreProofs --------------------------
(***************************************************************************)
(* Proofs about HashStore, for any set of threads, keys, values and items  *)
(* and any number of buckets and requests.                                 *)
(***************************************************************************)
EXTENDS HashStore, TLAPS

(* What RemoveAt leaves of a sequence.                                     *)
LEMMA RemoveAtShifts ==
  ASSUME NEW S, NEW s \in Seq(S), NEW i \in 1 .. Len(s)
  PROVE  /\ RemoveAt(s, i) \in Seq(S)
         /\ Len(RemoveAt(s, i)) = Len(s) - 1
         /\ \A n \in 1 .. Len(s) - 1 :
              RemoveAt(s, i)[n] = IF n < i THEN s[n] ELSE s[n + 1]
<1>1. /\ SubSeq(s, 1, i - 1) \in Seq(S)
      /\ Len(SubSeq(s, 1, i - 1)) = i - 1
      /\ \A n \in 1 .. i - 1 : SubSeq(s, 1, i - 1)[n] = s[n]
  OBVIOUS
<1>2. /\ SubSeq(s, i + 1, Len(s)) \in Seq(S)
      /\ Len(SubSeq(s, i + 1, Len(s))) = Len(s) - i
      /\ \A n \in 1 .. Len(s) - i : SubSeq(s, i + 1, Len(s))[n] = s[i + n]
  OBVIOUS
<1> DEFINE left  == SubSeq(s, 1, i - 1)
           right == SubSeq(s, i + 1, Len(s))
<1>3. /\ left \o right \in Seq(S)
      /\ Len(left \o right) = Len(s) - 1
      /\ \A n \in 1 .. Len(s) - 1 :
           (left \o right)[n] = IF n < i THEN left[n] ELSE right[n - (i - 1)]
  <2> HIDE DEF left, right
  <2>1. /\ left \in Seq(S) /\ right \in Seq(S)
        /\ Len(left) = i - 1 /\ Len(right) = Len(s) - i
    BY <1>1, <1>2 DEF left, right
  <2> QED
    BY <2>1
<1>4. \A n \in 1 .. Len(s) - 1 :
        (left \o right)[n] = IF n < i THEN s[n] ELSE s[n + 1]
  <2> TAKE n \in 1 .. Len(s) - 1
  <2>0. n \in Int /\ i \in Int /\ Len(s) \in Int
    OBVIOUS
  <2>1. CASE n < i
    <3>1. n \in 1 .. i - 1
      BY <2>0, <2>1
    <3>2. left[n] = s[n]
      BY <3>1, <1>1 DEF left
    <3> QED
      BY <2>1, <3>2, <1>3
  <2>2. CASE ~(n < i)
    <3>1. n - (i - 1) \in 1 .. Len(s) - i
      BY <2>0, <2>2
    <3>2. right[n - (i - 1)] = s[i + (n - (i - 1))]
      BY <3>1, <1>2 DEF right
    <3>3. i + (n - (i - 1)) = n + 1
      BY <2>0
    <3> HIDE DEF left, right
    <3> QED
      BY <2>2, <3>2, <3>3, <1>3
  <2> QED
    BY <2>1, <2>2
<1> QED
  BY <1>3, <1>4 DEF RemoveAt

(* Every key has a bucket.                                                 *)
LEMMA BucketOfKey == \A k \in Key : hash_function(k) \in Bucket
  BY SizeAssumption, KeyAssumption DEF hash_function, Bucket

(* An empty table with an empty log satisfies the invariant.               *)
LEMMA InitInvariant == Init => IInv
<1> SUFFICES ASSUME Init PROVE IInv
  OBVIOUS
<1>1. TypeOK
  BY MaxRequestsAssumption DEF Init, TypeOK, Label
<1>2. RequestsKept /\ LocksKept /\ CursorsKept
  BY NullAssumption DEF Init, RequestsKept, LocksKept, CursorsKept, InBucket, HoldsLog
<1>3. ChainsWellFormed /\ NoDanglingItem /\ NoSharedItem
  BY NullAssumption DEF Init, ChainsWellFormed, NoDanglingItem, NoSharedItem, OwnsItem
<1>4. ChangesKept
  BY DEF Init, ChangesKept, Latest, Waiting, Logging
<1>5. LogFollowsTable
  <2> SUFFICES ASSUME NEW k \in Key PROVE Replays(k, Content(k))
    BY DEF LogFollowsTable
  <2>1. Chain(k) = << >>
    BY BucketOfKey DEF Init, Chain
  <2>2. Content(k) = NULL
    BY <2>1 DEF Content, Has
  <2> QED
    BY <2>2 DEF Init, Replays
<1> QED
  BY <1>1, <1>2, <1>3, <1>4, <1>5 DEF IInv

(* A thread that serves a request has a key, and its key a bucket.         *)
LEMMA Serving ==
  ASSUME IInv, NEW t \in Thread, pc[t] # "recv"
  PROVE  /\ req[t] \in Request
         /\ req[t].key \in Key
         /\ BucketOf(t) \in Bucket
         /\ Chain(req[t].key) = table[BucketOf(t)]
         /\ Chain(req[t].key) \in Seq(Entry)
         /\ IsWrite(t) => /\ item[t] \in Item
                          /\ req[t].val \in Bytes
<1>1. req[t] \in Request /\ (IsWrite(t) => item[t] \in Item)
  BY DEF IInv, RequestsKept
<1>2. req[t].key \in Key /\ (IsWrite(t) => req[t].val \in Bytes)
  BY <1>1 DEF Request, IsWrite, Writes
<1>3. BucketOf(t) \in Bucket
  BY <1>2, BucketOfKey DEF BucketOf
<1>4. Chain(req[t].key) = table[BucketOf(t)]
  BY DEF Chain, BucketOf
<1> QED
  BY <1>1, <1>2, <1>3, <1>4 DEF IInv, TypeOK

(* A thread that found an entry found one of its own key, and a live item. *)
LEMMA Finding ==
  ASSUME IInv, NEW t \in Thread, pc[t] = "act", ~Missed(t)
  PROVE  /\ cursor[t] \in 1 .. Len(table[BucketOf(t)])
         /\ table[BucketOf(t)][cursor[t]] \in Entry
         /\ table[BucketOf(t)][cursor[t]].key = req[t].key
         /\ ItemFound(t) = table[BucketOf(t)][cursor[t]].item
         /\ ItemFound(t) \in Item
         /\ heap[ItemFound(t)] \in Bytes
<1>1. /\ BucketOf(t) \in Bucket
      /\ Chain(req[t].key) = table[BucketOf(t)]
      /\ table[BucketOf(t)] \in Seq(Entry)
  BY Serving
<1>2. /\ cursor[t] \in 1 .. Len(table[BucketOf(t)])
      /\ table[BucketOf(t)][cursor[t]].key = req[t].key
  BY <1>1 DEF IInv, CursorsKept
<1>3. table[BucketOf(t)][cursor[t]] \in Entry
  BY <1>1, <1>2
<1>4. ItemFound(t) = table[BucketOf(t)][cursor[t]].item
  BY <1>1 DEF ItemFound
<1>5. ItemFound(t) \in Item
  BY <1>3, <1>4 DEF Entry
<1>6. heap[ItemFound(t)] # NULL
  BY <1>1, <1>2, <1>4 DEF IInv, NoDanglingItem
<1>7. heap[ItemFound(t)] \in Bytes
  BY <1>5, <1>6 DEF IInv, TypeOK
<1> QED
  BY <1>2, <1>3, <1>4, <1>5, <1>7

(* The search for k stops at its one entry, wherever that is.              *)
LEMMA SearchStops ==
  ASSUME TypeOK, ChainsWellFormed,
         NEW k \in Key, NEW n \in 1 .. Len(Chain(k)), Chain(k)[n].key = k
  PROVE  Has(k) /\ At(k) = n
<1>1. Has(k)
  BY DEF Has
<1>2. \A m \in 1 .. Len(Chain(k)) : Chain(k)[m].key = k => m = n
  BY BucketOfKey DEF ChainsWellFormed, Chain
<1>3. Chain(k) \in Seq(Entry)
  BY BucketOfKey DEF Chain, TypeOK
<1>4. IsAt(Chain(k), k, n)
  <2> SUFFICES ASSUME NEW m \in 1 .. n - 1 PROVE Chain(k)[m].key # k
    BY DEF IsAt
  <2>1. m \in 1 .. Len(Chain(k)) /\ m # n
    BY <1>3
  <2> QED
    BY <2>1, <1>2
<1>5. \A m \in 1 .. Len(Chain(k)) : IsAt(Chain(k), k, m) => m = n
  BY <1>2 DEF IsAt
<1> QED
  BY <1>1, <1>4, <1>5 DEF At

(* The chain that each of the three changes of the table leaves.           *)
LEMMA Inserted ==
  ASSUME IInv, NEW t \in Thread, InsertNew(t), NEW b, b = BucketOf(t)
  PROVE  /\ b \in Bucket
         /\ table[b] \in Seq(Entry)
         /\ table' \in [Bucket -> Seq(Entry)]
         /\ Len(table'[b]) = Len(table[b]) + 1
         /\ \A n \in 1 .. Len(table[b]) : table'[b][n] = table[b][n]
         /\ table'[b][Len(table[b]) + 1] = [key |-> req[t].key, item |-> item[t]]
         /\ \A c \in Bucket \ {b} : table'[c] = table[c]
<1> DEFINE e == [key |-> req[t].key, item |-> item[t]]
<1>1. /\ b \in Bucket /\ Chain(req[t].key) = table[b]
      /\ table[b] \in Seq(Entry)
      /\ e \in Entry
  BY Serving DEF InsertNew, Entry
<1>2. table' = [table EXCEPT ![b] = Append(table[b], e)]
  BY <1>1 DEF InsertNew, SetChain, BucketOf
<1>3. table \in [Bucket -> Seq(Entry)]
  BY DEF IInv, TypeOK
<1>4. table'[b] = Append(table[b], e) /\ \A c \in Bucket \ {b} : table'[c] = table[c]
  BY <1>1, <1>2, <1>3
<1> HIDE DEF e
<1>5. /\ Append(table[b], e) \in Seq(Entry)
      /\ Len(Append(table[b], e)) = Len(table[b]) + 1
      /\ \A n \in 1 .. Len(table[b]) : Append(table[b], e)[n] = table[b][n]
      /\ Append(table[b], e)[Len(table[b]) + 1] = e
  BY <1>1
<1>6. table' \in [Bucket -> Seq(Entry)]
  BY <1>1, <1>2, <1>3, <1>5
<1> QED
  BY <1>1, <1>4, <1>5, <1>6 DEF e

(* Overwrite replaces the entry at the cursor and keeps the length.        *)
LEMMA Overwritten ==
  ASSUME IInv, NEW t \in Thread, Overwrite(t), NEW b, b = BucketOf(t)
  PROVE  /\ b \in Bucket
         /\ table[b] \in Seq(Entry)
         /\ cursor[t] \in 1 .. Len(table[b])
         /\ table' \in [Bucket -> Seq(Entry)]
         /\ Len(table'[b]) = Len(table[b])
         /\ \A n \in 1 .. Len(table[b]) : n # cursor[t] => table'[b][n] = table[b][n]
         /\ table'[b][cursor[t]] = [key |-> req[t].key, item |-> item[t]]
         /\ \A c \in Bucket \ {b} : table'[c] = table[c]
<1> DEFINE e == [table[b][cursor[t]] EXCEPT !.item = item[t]]
           s == [table[b] EXCEPT ![cursor[t]] = e]
<1>1. /\ b \in Bucket /\ Chain(req[t].key) = table[b]
      /\ table[b] \in Seq(Entry)
      /\ item[t] \in Item
  BY Serving DEF Overwrite, IsWrite, Writes
<1>2. /\ cursor[t] \in 1 .. Len(table[b])
      /\ table[b][cursor[t]] \in Entry
      /\ table[b][cursor[t]].key = req[t].key
  BY Finding DEF Overwrite
<1>3. table \in [Bucket -> Seq(Entry)]
  BY DEF IInv, TypeOK
<1>4. table' = [table EXCEPT ![b] = s]
  BY <1>1 DEF Overwrite, SetChain, BucketOf
<1>5. table'[b] = s /\ \A c \in Bucket \ {b} : table'[c] = table[c]
  BY <1>1, <1>3, <1>4
<1>6. e = [key |-> req[t].key, item |-> item[t]] /\ e \in Entry
  BY <1>1, <1>2 DEF Entry
<1>7. /\ s \in Seq(Entry)
      /\ Len(s) = Len(table[b])
      /\ \A n \in 1 .. Len(table[b]) : n # cursor[t] => s[n] = table[b][n]
      /\ s[cursor[t]] = e
  <2> HIDE DEF e
  <2> QED
    BY <1>1, <1>2, <1>6
<1> HIDE DEF s, e
<1>8. table' \in [Bucket -> Seq(Entry)]
  BY <1>1, <1>3, <1>4, <1>7
<1> QED
  BY <1>1, <1>2, <1>5, <1>6, <1>7, <1>8

(* DeleteItem drops the entry at the cursor; the later ones move up.       *)
LEMMA Unlinked ==
  ASSUME IInv, NEW t \in Thread, DeleteItem(t), NEW b, b = BucketOf(t)
  PROVE  /\ b \in Bucket
         /\ table[b] \in Seq(Entry)
         /\ cursor[t] \in 1 .. Len(table[b])
         /\ table' \in [Bucket -> Seq(Entry)]
         /\ Len(table'[b]) = Len(table[b]) - 1
         /\ \A n \in 1 .. Len(table[b]) - 1 :
              table'[b][n] = IF n < cursor[t] THEN table[b][n] ELSE table[b][n + 1]
         /\ \A c \in Bucket \ {b} : table'[c] = table[c]
<1>1. /\ b \in Bucket /\ Chain(req[t].key) = table[b]
      /\ table[b] \in Seq(Entry)
  BY Serving DEF DeleteItem
<1>2. cursor[t] \in 1 .. Len(table[b])
  BY Finding DEF DeleteItem
<1>3. table \in [Bucket -> Seq(Entry)]
  BY DEF IInv, TypeOK
<1>4. table' = [table EXCEPT ![b] = RemoveAt(table[b], cursor[t])]
  BY <1>1 DEF DeleteItem, SetChain, BucketOf
<1>5. /\ table'[b] = RemoveAt(table[b], cursor[t])
      /\ \A c \in Bucket \ {b} : table'[c] = table[c]
  BY <1>1, <1>3, <1>4
<1> DEFINE s == RemoveAt(table[b], cursor[t])
<1>6. /\ s \in Seq(Entry)
      /\ Len(s) = Len(table[b]) - 1
      /\ \A n \in 1 .. Len(table[b]) - 1 :
           s[n] = IF n < cursor[t] THEN table[b][n] ELSE table[b][n + 1]
  BY <1>1, <1>2, RemoveAtShifts
<1>7. table' = [table EXCEPT ![b] = s]
  BY <1>4
<1> HIDE DEF s
<1>8. table' \in [Bucket -> Seq(Entry)]
  BY <1>1, <1>3, <1>6, <1>7
<1> QED
  BY <1>1, <1>2, <1>5, <1>6, <1>8 DEF s

(* Every step keeps the types.                                             *)
LEMMA TypeStep == IInv /\ [Next]_vars => TypeOK'
<1> SUFFICES ASSUME IInv, [Next]_vars PROVE TypeOK'
  OBVIOUS
<1>0. TypeOK
  BY DEF IInv
<1> USE DEF Goto, Label, lockVars, tableVars, requestVars
<1>1. ASSUME NEW t \in Thread, NEW r \in Request, Receive(t, r)
      PROVE  TypeOK'
  <2>1. served' \in 0 .. MaxRequests
    BY <1>0, <1>1, MaxRequestsAssumption DEF TypeOK, Receive
  <2>2. /\ heap' \in [Item -> Bytes \cup {NULL}]
        /\ item' \in [Thread -> Item \cup {NULL}]
    BY <1>0, <1>1 DEF TypeOK, Receive, Request, Writes, Free
  <2> QED
    BY <1>0, <1>1, <2>1, <2>2 DEF TypeOK, Receive
<1>2. ASSUME NEW t \in Thread, RdLock(t) PROVE TypeOK'
  BY <1>0, <1>2 DEF TypeOK, RdLock
<1>3. ASSUME NEW t \in Thread, WrLock(t) PROVE TypeOK'
  BY <1>0, <1>3 DEF TypeOK, WrLock
<1>4. ASSUME NEW t \in Thread, Search(t) PROVE TypeOK'
  <2>1. req[t].key \in Key
    BY <1>4, Serving DEF Search
  <2>2. ASSUME Has(req[t].key) PROVE At(req[t].key) \in Nat
    BY <1>0, <2>1, <2>2, SearchStops DEF Has, IInv
  <2> QED
    BY <1>0, <1>4, <2>2 DEF TypeOK, Search
<1>5. ASSUME NEW t \in Thread, ReadItem(t) PROVE TypeOK'
  <2>1. heap[ItemFound(t)] \in Bytes
    BY <1>5, Finding DEF ReadItem
  <2>2. reply' \in [Thread -> Reply \cup {NULL}]
    BY <1>0, <1>5, <2>1 DEF TypeOK, ReadItem, Reply
  <2>3. /\ heap' \in [Item -> Bytes \cup {NULL}]
        /\ item' \in [Thread -> Item \cup {NULL}]
    BY <1>0, <1>5, <2>1 DEF TypeOK, ReadItem, Free
  <2> QED
    BY <1>0, <1>5, <2>2, <2>3 DEF TypeOK, ReadItem
<1>6. ASSUME NEW t \in Thread, InsertNew(t) PROVE TypeOK'
  <2>1. table' \in [Bucket -> Seq(Entry)]
    BY <1>0, <1>6, Inserted DEF TypeOK
  <2> QED
    BY <1>0, <1>6, <2>1 DEF TypeOK, InsertNew, Reply
<1>7. ASSUME NEW t \in Thread, Overwrite(t) PROVE TypeOK'
  <2>1. table' \in [Bucket -> Seq(Entry)]
    BY <1>0, <1>7, Overwritten DEF TypeOK
  <2>2. heap' \in [Item -> Bytes \cup {NULL}]
    BY <1>0, <1>7 DEF TypeOK, Overwrite
  <2>3. /\ reply' \in [Thread -> Reply \cup {NULL}]
        /\ pc' \in [Thread -> Label]
    BY <1>0, <1>7 DEF TypeOK, Overwrite, Reply
  <2> QED
    BY <1>0, <1>7, <2>1, <2>2, <2>3 DEF TypeOK, Overwrite
<1>8. ASSUME NEW t \in Thread, InsertExists(t) PROVE TypeOK'
  BY <1>0, <1>8 DEF TypeOK, InsertExists, Reply
<1>9. ASSUME NEW t \in Thread, DeleteItem(t) PROVE TypeOK'
  <2>1. table' \in [Bucket -> Seq(Entry)]
    BY <1>0, <1>9, Unlinked DEF TypeOK
  <2>2. heap' \in [Item -> Bytes \cup {NULL}]
    BY <1>0, <1>9 DEF TypeOK, DeleteItem
  <2>3. /\ reply' \in [Thread -> Reply \cup {NULL}]
        /\ pc' \in [Thread -> Label]
    BY <1>0, <1>9 DEF TypeOK, DeleteItem, Reply
  <2> QED
    BY <1>0, <1>9, <2>1, <2>2, <2>3 DEF TypeOK, DeleteItem
<1>10. ASSUME NEW t \in Thread, DeleteMissing(t) PROVE TypeOK'
  BY <1>0, <1>10 DEF TypeOK, DeleteMissing, Reply
<1>11. ASSUME NEW t \in Thread, LogLock(t) PROVE TypeOK'
  BY <1>0, <1>11 DEF TypeOK, LogLock
<1>12. ASSUME NEW t \in Thread, Unlock(t) PROVE TypeOK'
  BY <1>0, <1>12 DEF TypeOK, Unlock
<1>13. ASSUME NEW t \in Thread, AppendLog(t) PROVE TypeOK'
  <2>1. ASSUME NEW a \in Item
        PROVE  BytesAt(a) \subseteq Bytes
    BY <1>0 DEF TypeOK, BytesAt
  <2>2. /\ req[t].key \in Key
        /\ IsWrite(t) => item[t] \in Item
    BY <1>13, Serving DEF AppendLog
  <2>3. \E e \in Record : log' = Append(log, e)
    BY <1>13, <2>1, <2>2 DEF AppendLog, Record
  <2>4. log' \in Seq(Record)
    BY <1>0, <2>3 DEF TypeOK
  <2> QED
    BY <1>0, <1>13, <2>4 DEF TypeOK, AppendLog
<1>14. ASSUME NEW t \in Thread, LogUnlock(t) PROVE TypeOK'
  BY <1>0, <1>14 DEF TypeOK, LogUnlock
<1>15. ASSUME NEW t \in Thread, Send(t) \/ SendFails(t) PROVE TypeOK'
  <2>1. Finish(t)
    BY <1>15 DEF Send, SendFails
  <2>2. heap' = [heap EXCEPT ![item[t]] = NULL] \/ heap' = heap
    BY <1>15 DEF Send, SendFails
  <2>3. heap' \in [Item -> Bytes \cup {NULL}]
    BY <1>0, <2>2 DEF TypeOK
  <2>4. lost' \subseteq Item
    <3>1. pc[t] = "send"
      BY <2>1 DEF Finish
    <3>2. Copied(t) => item[t] \in Item
      BY <3>1 DEF OwnsItem, IInv, NoDanglingItem
    <3>3. lost' = lost \/ (Copied(t) /\ lost' = lost \cup {item[t]})
      BY <1>15 DEF Send, SendFails
    <3> QED
      BY <1>0, <3>2, <3>3 DEF TypeOK
  <2> QED
    BY <1>0, <2>1, <2>3, <2>4 DEF TypeOK, Finish
<1>16. CASE UNCHANGED vars
  BY <1>0, <1>16 DEF TypeOK, vars
<1>17. ASSUME NEW t \in Thread, ReadMissing(t) PROVE TypeOK'
  BY <1>0, <1>17 DEF TypeOK, ReadMissing, Reply
<1>18. ASSUME NEW t \in Thread, ReceiveFails(t) PROVE TypeOK'
  <2>1. served' \in 0 .. MaxRequests
    BY <1>0, <1>18, MaxRequestsAssumption DEF TypeOK, ReceiveFails
  <2>2. /\ heap' \in [Item -> Bytes \cup {NULL}]
        /\ lost' \subseteq Item
    BY <1>0, <1>18 DEF TypeOK, ReceiveFails, Bytes, Free
  <2> QED
    BY <1>0, <1>18, <2>1, <2>2 DEF TypeOK, ReceiveFails
<1> QED
  BY <1>1, <1>2, <1>3, <1>4, <1>5, <1>6, <1>7, <1>8, <1>9, <1>10, <1>11,
     <1>12, <1>13, <1>14, <1>15, <1>16, <1>17, <1>18 DEF Next, Step

(* No thread loses its request or its item before it answers.              *)
LEMMA RequestsStep == IInv /\ [Next]_vars => RequestsKept'
<1> SUFFICES ASSUME IInv, [Next]_vars PROVE RequestsKept'
  OBVIOUS
<1>0. TypeOK /\ RequestsKept /\ LocksKept
  BY DEF IInv
<1> USE DEF Goto, lockVars, tableVars, requestVars, TypeOK, RequestsKept,
            Changed, IsWrite, Writes, Written, Deleted, Found, NotFound
<1>1. ASSUME NEW t \in Thread, NEW r \in Request, Receive(t, r)
      PROVE  RequestsKept'
  BY <1>0, <1>1 DEF Receive, Free
<1>2. ASSUME NEW t \in Thread, RdLock(t) PROVE RequestsKept'
  BY <1>0, <1>2 DEF RdLock
<1>3. ASSUME NEW t \in Thread, WrLock(t) PROVE RequestsKept'
  BY <1>0, <1>3 DEF WrLock
<1>4. ASSUME NEW t \in Thread, Search(t) PROVE RequestsKept'
  BY <1>0, <1>4 DEF Search
<1>5. ASSUME NEW t \in Thread, ReadItem(t) PROVE RequestsKept'
  BY <1>0, <1>5 DEF ReadItem
<1>6. ASSUME NEW t \in Thread, InsertNew(t) PROVE RequestsKept'
  BY <1>0, <1>6 DEF InsertNew
<1>7. ASSUME NEW t \in Thread, Overwrite(t) PROVE RequestsKept'
  BY <1>0, <1>7 DEF Overwrite
<1>8. ASSUME NEW t \in Thread, InsertExists(t) PROVE RequestsKept'
  BY <1>0, <1>8 DEF InsertExists
<1>9. ASSUME NEW t \in Thread, DeleteItem(t) PROVE RequestsKept'
  BY <1>0, <1>9 DEF DeleteItem
<1>10. ASSUME NEW t \in Thread, DeleteMissing(t) PROVE RequestsKept'
  BY <1>0, <1>10 DEF DeleteMissing
<1>11. ASSUME NEW t \in Thread, LogLock(t) PROVE RequestsKept'
  BY <1>0, <1>11 DEF LogLock
<1>12. ASSUME NEW t \in Thread, Unlock(t) PROVE RequestsKept'
  <2>1. logger[BucketOf(t)] = t => Changed(t)
    BY <1>0, <1>12, Serving DEF Unlock, LocksKept, HoldsLog
  <2> QED
    BY <1>0, <1>12, <2>1 DEF Unlock
<1>13. ASSUME NEW t \in Thread, AppendLog(t) PROVE RequestsKept'
  BY <1>0, <1>13 DEF AppendLog
<1>14. ASSUME NEW t \in Thread, LogUnlock(t) PROVE RequestsKept'
  BY <1>0, <1>14 DEF LogUnlock
<1>15. ASSUME NEW t \in Thread, Send(t) \/ SendFails(t) PROVE RequestsKept'
  BY <1>0, <1>15, ZenonT(40) DEF Send, SendFails, Finish
<1>16. CASE UNCHANGED vars
  BY <1>0, <1>16 DEF vars
<1>17. ASSUME NEW t \in Thread, ReadMissing(t) PROVE RequestsKept'
  BY <1>0, <1>17 DEF ReadMissing
<1>18. ASSUME NEW t \in Thread, ReceiveFails(t) PROVE RequestsKept'
  BY <1>0, <1>18 DEF ReceiveFails
<1> QED
  BY <1>1, <1>2, <1>3, <1>4, <1>5, <1>6, <1>7, <1>8, <1>9, <1>10, <1>11,
     <1>12, <1>13, <1>14, <1>15, <1>16, <1>17, <1>18 DEF Next, Step

(* A lock and the step of its holder change together.                      *)
LEMMA LocksStep == IInv /\ [Next]_vars => LocksKept'
<1> SUFFICES ASSUME IInv, [Next]_vars PROVE LocksKept'
  OBVIOUS
<1>0. TypeOK /\ RequestsKept /\ LocksKept
  BY DEF IInv
<1> USE NullAssumption
    DEF Goto, lockVars, tableVars, requestVars, TypeOK, LocksKept, RequestsKept, InBucket,
        HoldsLog, Changed, BucketOf, Written, Deleted, Found, NotFound
<1>1. ASSUME NEW t \in Thread, NEW r \in Request, Receive(t, r)
      PROVE  LocksKept'
  BY <1>0, <1>1 DEF Receive
<1>2. ASSUME NEW t \in Thread, RdLock(t) PROVE LocksKept'
  BY <1>0, <1>2 DEF RdLock
<1>3. ASSUME NEW t \in Thread, WrLock(t) PROVE LocksKept'
  BY <1>0, <1>3 DEF WrLock
<1>4. ASSUME NEW t \in Thread, Search(t) PROVE LocksKept'
  BY <1>0, <1>4 DEF Search
<1>5. ASSUME NEW t \in Thread, ReadItem(t) PROVE LocksKept'
  BY <1>0, <1>5 DEF ReadItem
<1>6. ASSUME NEW t \in Thread, InsertNew(t) PROVE LocksKept'
  BY <1>0, <1>6 DEF InsertNew
<1>7. ASSUME NEW t \in Thread, Overwrite(t) PROVE LocksKept'
  BY <1>0, <1>7 DEF Overwrite
<1>8. ASSUME NEW t \in Thread, InsertExists(t) PROVE LocksKept'
  BY <1>0, <1>8 DEF InsertExists
<1>9. ASSUME NEW t \in Thread, DeleteItem(t) PROVE LocksKept'
  BY <1>0, <1>9 DEF DeleteItem
<1>10. ASSUME NEW t \in Thread, DeleteMissing(t) PROVE LocksKept'
  BY <1>0, <1>10 DEF DeleteMissing
<1>11. ASSUME NEW t \in Thread, LogLock(t) PROVE LocksKept'
  BY <1>0, <1>11 DEF LogLock
<1>12. ASSUME NEW t \in Thread, Unlock(t) PROVE LocksKept'
  BY <1>0, <1>12 DEF Unlock
<1>13. ASSUME NEW t \in Thread, AppendLog(t) PROVE LocksKept'
  BY <1>0, <1>13 DEF AppendLog
<1>14. ASSUME NEW t \in Thread, LogUnlock(t) PROVE LocksKept'
  BY <1>0, <1>14 DEF LogUnlock
<1>15. ASSUME NEW t \in Thread, Send(t) \/ SendFails(t) PROVE LocksKept'
  <2>1. Finish(t)
    BY <1>15 DEF Send, SendFails
  <2> QED
    BY <1>0, <2>1 DEF Finish
<1>16. CASE UNCHANGED vars
  BY <1>0, <1>16 DEF vars
<1>17. ASSUME NEW t \in Thread, ReadMissing(t) PROVE LocksKept'
  BY <1>0, <1>17 DEF ReadMissing
<1>18. ASSUME NEW t \in Thread, ReceiveFails(t) PROVE LocksKept'
  BY <1>0, <1>18 DEF ReceiveFails
<1> QED
  BY <1>1, <1>2, <1>3, <1>4, <1>5, <1>6, <1>7, <1>8, <1>9, <1>10, <1>11,
     <1>12, <1>13, <1>14, <1>15, <1>16, <1>17, <1>18 DEF Next, Step

(* No thread moves the entry that another one has found.                   *)
LEMMA CursorsStep == IInv /\ [Next]_vars => CursorsKept'
<1> SUFFICES ASSUME IInv, [Next]_vars, NEW u \in Thread, pc'[u] = "act"
             PROVE  IF Missed(u)'
                    THEN ~Has(req[u].key)'
                    ELSE /\ cursor'[u] \in 1 .. Len(Chain(req[u].key)')
                         /\ Chain(req[u].key)'[cursor'[u]].key = req'[u].key
  BY DEF CursorsKept
<1>0. TypeOK /\ RequestsKept /\ LocksKept /\ CursorsKept
  BY DEF IInv
<1> DEFINE Goal == IF Missed(u)'
                   THEN ~Has(req[u].key)'
                   ELSE /\ cursor'[u] \in 1 .. Len(Chain(req[u].key)')
                        /\ Chain(req[u].key)'[cursor'[u]].key = req'[u].key
<1>a. ASSUME NEW t \in Thread, u # t, pc[u] = "act", pc[t] = "act",
             req[t].op # "READ_REQ"
      PROVE  BucketOf(u) # BucketOf(t)
  <2> SUFFICES ASSUME BucketOf(u) = BucketOf(t) PROVE FALSE
    OBVIOUS
  <2>1. BucketOf(t) \in Bucket
    BY <1>a, Serving
  <2>2. writer[BucketOf(t)] = t
    BY <1>0, <1>a, <2>1 DEF LocksKept, InBucket
  <2>3. CASE req[u].op = "READ_REQ"
    <3>1. u \in readers[BucketOf(t)]
      BY <1>0, <1>a, <2>1, <2>3 DEF LocksKept, InBucket
    <3> QED
      BY <1>0, <2>1, <2>2, <3>1, NullAssumption DEF LocksKept
  <2>4. CASE req[u].op # "READ_REQ"
    BY <1>0, <1>a, <2>1, <2>2, <2>4 DEF LocksKept, InBucket
  <2> QED
    BY <2>3, <2>4
<1>b. ASSUME pc[u] = "act", req'[u] = req[u], cursor'[u] = cursor[u],
             Chain(req[u].key)' = Chain(req[u].key)
      PROVE  Goal
  BY <1>0, <1>b DEF CursorsKept, Missed, Has
<1>c. ASSUME NEW t \in Thread, u # t, pc[u] = "act", req' = req, cursor' = cursor,
             \A c \in Bucket \ {BucketOf(t)} : table'[c] = table[c],
             pc[t] = "act", req[t].op # "READ_REQ"
      PROVE  Goal
  <2>1. BucketOf(u) \in Bucket \ {BucketOf(t)}
    BY <1>a, <1>c, Serving
  <2>2. Chain(req[u].key)' = Chain(req[u].key)
    BY <1>c, <2>1 DEF Chain, BucketOf
  <2> QED
    BY <1>b, <1>c, <2>2
<1> HIDE DEF Goal
<1> USE DEF Goto, lockVars, tableVars, requestVars, TypeOK
<1>d. ASSUME NEW t \in Thread, u # t \/ pc'[t] # "act",
             pc' = [pc EXCEPT ![t] = pc'[t]],
             \A v \in Thread \ {t} : req'[v] = req[v] /\ cursor'[v] = cursor[v],
             table' = table
      PROVE  Goal
  BY <1>0, <1>b, <1>d DEF Chain
<1>1. ASSUME NEW t \in Thread, NEW r \in Request, Receive(t, r)
      PROVE  Goal
  BY <1>0, <1>1, <1>d DEF Receive
<1>2. ASSUME NEW t \in Thread, RdLock(t) PROVE Goal
  BY <1>0, <1>2, <1>d DEF RdLock
<1>3. ASSUME NEW t \in Thread, WrLock(t) PROVE Goal
  BY <1>0, <1>3, <1>d DEF WrLock
<1>4. ASSUME NEW t \in Thread, Search(t) PROVE Goal
  <2>1. CASE u = t
    <3>1. /\ req[u].key \in Key /\ req' = req /\ table' = table
          /\ cursor'[u] = IF Has(req[u].key) THEN At(req[u].key) ELSE 0
      BY <1>0, <1>4, <2>1, Serving DEF Search
    <3>2. CASE Has(req[u].key)
      <4>1. PICK n \in 1 .. Len(Chain(req[u].key)) : Chain(req[u].key)[n].key = req[u].key
        BY <3>2 DEF Has
      <4>2. At(req[u].key) = n
        BY <1>0, <3>1, <4>1, SearchStops DEF IInv
      <4> QED
        BY <3>1, <3>2, <4>1, <4>2 DEF Goal, Missed, Chain
    <3>3. CASE ~Has(req[u].key)
      BY <3>1, <3>3 DEF Goal, Missed, Has, Chain
    <3> QED
      BY <3>2, <3>3
  <2>2. CASE u # t
    BY <1>0, <1>4, <1>d, <2>2 DEF Search
  <2> QED
    BY <2>1, <2>2
<1>5. ASSUME NEW t \in Thread, ReadItem(t) PROVE Goal
  BY <1>0, <1>5, <1>d DEF ReadItem
<1>6. ASSUME NEW t \in Thread, InsertNew(t) PROVE Goal
  BY <1>0, <1>6, <1>c, Inserted DEF InsertNew, IsWrite, Writes
<1>7. ASSUME NEW t \in Thread, Overwrite(t) PROVE Goal
  BY <1>0, <1>7, <1>c, Overwritten DEF Overwrite
<1>8. ASSUME NEW t \in Thread, InsertExists(t) PROVE Goal
  BY <1>0, <1>8, <1>d DEF InsertExists
<1>9. ASSUME NEW t \in Thread, DeleteItem(t) PROVE Goal
  BY <1>0, <1>9, <1>c, Unlinked DEF DeleteItem
<1>10. ASSUME NEW t \in Thread, DeleteMissing(t) PROVE Goal
  BY <1>0, <1>10, <1>d DEF DeleteMissing
<1>11. ASSUME NEW t \in Thread, LogLock(t) PROVE Goal
  BY <1>0, <1>11, <1>d DEF LogLock
<1>12. ASSUME NEW t \in Thread, Unlock(t) PROVE Goal
  BY <1>0, <1>12, <1>d DEF Unlock
<1>13. ASSUME NEW t \in Thread, AppendLog(t) PROVE Goal
  BY <1>0, <1>13, <1>d DEF AppendLog
<1>14. ASSUME NEW t \in Thread, LogUnlock(t) PROVE Goal
  BY <1>0, <1>14, <1>d DEF LogUnlock
<1>15. ASSUME NEW t \in Thread, Send(t) \/ SendFails(t) PROVE Goal
  <2>1. /\ table' = table /\ pc' = [pc EXCEPT ![t] = "recv"]
        /\ \A v \in Thread \ {t} : req'[v] = req[v] /\ cursor'[v] = cursor[v]
    BY <1>0, <1>15 DEF Send, SendFails, Finish
  <2> QED
    BY <1>0, <1>d, <2>1
<1>16. CASE UNCHANGED vars
  <2>1. pc' = pc /\ req' = req /\ cursor' = cursor /\ table' = table
    BY <1>16 DEF vars
  <2> QED
    BY <1>b, <2>1 DEF Chain, Goal
<1>17. ASSUME NEW t \in Thread, ReadMissing(t) PROVE Goal
  BY <1>0, <1>17, <1>d DEF ReadMissing
<1>18. ASSUME NEW t \in Thread, ReceiveFails(t) PROVE Goal
  <2>1. pc' = pc /\ req' = req /\ cursor' = cursor /\ table' = table
    BY <1>18 DEF ReceiveFails
  <2> QED
    BY <1>b, <2>1 DEF Chain, Goal
<1> QED
  BY <1>1, <1>2, <1>3, <1>4, <1>5, <1>6, <1>7, <1>8, <1>9, <1>10, <1>11,
     <1>12, <1>13, <1>14, <1>15, <1>16, <1>17, <1>18 DEF Next, Step, Goal

(* insert_item and delete_item keep the chains well formed.                *)
LEMMA ChainsStep == IInv /\ [Next]_vars => ChainsWellFormed'
<1> SUFFICES ASSUME IInv, [Next]_vars PROVE ChainsWellFormed'
  OBVIOUS
<1>0. TypeOK /\ CursorsKept /\ ChainsWellFormed
  BY DEF IInv
<1> USE DEF lockVars, tableVars, requestVars, ChainsWellFormed
<1>1. ASSUME NEW t \in Thread, NEW r \in Request, Receive(t, r)
      PROVE  ChainsWellFormed'
  BY <1>0, <1>1 DEF Receive
<1>2. ASSUME NEW t \in Thread, RdLock(t) PROVE ChainsWellFormed'
  BY <1>0, <1>2 DEF RdLock
<1>3. ASSUME NEW t \in Thread, WrLock(t) PROVE ChainsWellFormed'
  BY <1>0, <1>3 DEF WrLock
<1>4. ASSUME NEW t \in Thread, Search(t) PROVE ChainsWellFormed'
  BY <1>0, <1>4 DEF Search
<1>5. ASSUME NEW t \in Thread, ReadItem(t) PROVE ChainsWellFormed'
  BY <1>0, <1>5 DEF ReadItem
<1>6. ASSUME NEW t \in Thread, InsertNew(t) PROVE ChainsWellFormed'
  <2> DEFINE k == req[t].key
             last == Len(table[BucketOf(t)]) + 1
  <2> SUFFICES ASSUME NEW b \in Bucket, b = BucketOf(t),
                      NEW c \in Bucket, NEW m \in 1 .. Len(table'[c])
               PROVE  /\ hash_function(table'[c][m].key) = c
                      /\ \A n \in 1 .. Len(table'[c]) :
                           table'[c][m].key = table'[c][n].key => m = n
    BY <1>6, Serving DEF InsertNew
  <2>1. /\ table[b] \in Seq(Entry)
        /\ Len(table'[b]) = last
        /\ \A n \in 1 .. Len(table[b]) : table'[b][n] = table[b][n]
        /\ table'[b][last] = [key |-> k, item |-> item[t]]
        /\ c # b => table'[c] = table[c]
    BY <1>6, Inserted
  <2>2. /\ \A n \in 1 .. Len(table[b]) : table[b][n].key # k
        /\ hash_function(k) = b
    BY <1>0, <1>6, Serving DEF InsertNew, CursorsKept, Has, BucketOf
  <2>3. table'[b][last].key = k
    BY <2>1
  <2> HIDE DEF k
  <2>4. CASE c = b
    <3>1. Len(table[b]) \in Nat
      BY <2>1
    <3>2. \A n \in 1 .. Len(table'[b]) : n = last \/ n \in 1 .. Len(table[b])
      BY <2>1, <3>1
    <3>3. CASE m = last
      BY <2>1, <2>2, <2>3, <2>4, <3>2, <3>3
    <3>4. CASE m \in 1 .. Len(table[b])
      BY <1>0, <2>1, <2>2, <2>3, <2>4, <3>2, <3>4, SMTT(40)
    <3> QED
      BY <2>4, <3>2, <3>3, <3>4
  <2>5. CASE c # b
    BY <1>0, <2>1, <2>5
  <2> QED
    BY <2>4, <2>5
<1>7. ASSUME NEW t \in Thread, Overwrite(t) PROVE ChainsWellFormed'
  <2> SUFFICES ASSUME NEW b \in Bucket, b = BucketOf(t) PROVE ChainsWellFormed'
    BY <1>7, Serving DEF Overwrite
  <2>1. /\ Len(table'[b]) = Len(table[b])
        /\ \A n \in 1 .. Len(table[b]) : n # cursor[t] => table'[b][n] = table[b][n]
        /\ table'[b][cursor[t]] = [key |-> req[t].key, item |-> item[t]]
        /\ \A c \in Bucket \ {b} : table'[c] = table[c]
    BY <1>7, Overwritten
  <2>2. table[b][cursor[t]].key = req[t].key
    BY <1>7, Finding DEF Overwrite
  <2>3. \A n \in 1 .. Len(table[b]) : table'[b][n].key = table[b][n].key
    BY <2>1, <2>2
  <2> QED
    BY <1>0, <2>1, <2>3
<1>8. ASSUME NEW t \in Thread, InsertExists(t) PROVE ChainsWellFormed'
  BY <1>0, <1>8 DEF InsertExists
<1>9. ASSUME NEW t \in Thread, DeleteItem(t) PROVE ChainsWellFormed'
  <2> SUFFICES ASSUME NEW b \in Bucket, b = BucketOf(t),
                      NEW c \in Bucket, NEW m \in 1 .. Len(table'[c])
               PROVE  /\ hash_function(table'[c][m].key) = c
                      /\ \A n \in 1 .. Len(table'[c]) :
                           table'[c][m].key = table'[c][n].key => m = n
    BY <1>9, Serving DEF DeleteItem
  <2>1. CASE c = b
    <3>1. /\ Len(table'[b]) = Len(table[b]) - 1
          /\ \A n \in 1 .. Len(table[b]) - 1 :
               table'[b][n] = IF n < cursor[t] THEN table[b][n] ELSE table[b][n + 1]
          /\ Len(table[b]) \in Nat
          /\ cursor[t] \in 1 .. Len(table[b])
      BY <1>9, Unlinked
    <3> DEFINE old(n) == IF n < cursor[t] THEN n ELSE n + 1
    <3>2. \A n \in 1 .. Len(table'[b]) :
            old(n) \in 1 .. Len(table[b]) /\ table'[b][n] = table[b][old(n)]
      BY <3>1
    <3>3. \A n \in 1 .. Len(table'[b]) : old(m) = old(n) => m = n
      BY <2>1, <3>1
    <3> HIDE DEF old
    <3> QED
      BY <1>0, <2>1, <3>2, <3>3
  <2>2. CASE c # b
    <3>1. table'[c] = table[c]
      BY <1>9, <2>2, Unlinked
    <3> QED
      BY <1>0, <3>1
  <2> QED
    BY <2>1, <2>2
<1>10. ASSUME NEW t \in Thread, DeleteMissing(t) PROVE ChainsWellFormed'
  BY <1>0, <1>10 DEF DeleteMissing
<1>11. ASSUME NEW t \in Thread, LogLock(t) PROVE ChainsWellFormed'
  BY <1>0, <1>11 DEF LogLock
<1>12. ASSUME NEW t \in Thread, Unlock(t) PROVE ChainsWellFormed'
  BY <1>0, <1>12 DEF Unlock
<1>13. ASSUME NEW t \in Thread, AppendLog(t) PROVE ChainsWellFormed'
  BY <1>0, <1>13 DEF AppendLog
<1>14. ASSUME NEW t \in Thread, LogUnlock(t) PROVE ChainsWellFormed'
  BY <1>0, <1>14 DEF LogUnlock
<1>15. ASSUME NEW t \in Thread, Send(t) \/ SendFails(t) PROVE ChainsWellFormed'
  BY <1>0, <1>15 DEF Send, SendFails, Finish
<1>16. CASE UNCHANGED vars
  BY <1>0, <1>16 DEF vars
<1>17. ASSUME NEW t \in Thread, ReadMissing(t) PROVE ChainsWellFormed'
  BY <1>0, <1>17 DEF ReadMissing
<1>18. ASSUME NEW t \in Thread, ReceiveFails(t) PROVE ChainsWellFormed'
  BY <1>0, <1>18 DEF ReceiveFails
<1> QED
  BY <1>1, <1>2, <1>3, <1>4, <1>5, <1>6, <1>7, <1>8, <1>9, <1>10, <1>11,
     <1>12, <1>13, <1>14, <1>15, <1>16, <1>17, <1>18 DEF Next, Step

(* malloc takes an address that is in no chain and in no thread's hands.   *)
LEMMA Allocation ==
  ASSUME IInv, NEW a \in Item, heap[a] = NULL,
         NEW v, heap' = [heap EXCEPT ![a] = v]
  PROVE  /\ heap'[a] = v
         /\ \A b \in Bucket : \A n \in 1 .. Len(table[b]) :
              /\ table[b][n].item # a
              /\ heap'[table[b][n].item] = heap[table[b][n].item]
         /\ \A u \in Thread : OwnsItem(u) =>
              item[u] # a /\ heap'[item[u]] = heap[item[u]]
<1>0. TypeOK
  BY DEF IInv
<1>1. \A x \in Item : heap[x] # NULL => x # a /\ heap'[x] = heap[x]
  BY <1>0 DEF TypeOK
<1>2. heap'[a] = v
  BY <1>0 DEF TypeOK
<1>3. ASSUME NEW b \in Bucket, NEW n \in 1 .. Len(table[b])
      PROVE  /\ table[b][n].item # a
             /\ heap'[table[b][n].item] = heap[table[b][n].item]
  <2>1. table[b][n] \in Entry
    BY <1>0 DEF TypeOK
  <2>2. table[b][n].item \in Item /\ heap[table[b][n].item] # NULL
    BY <2>1 DEF IInv, NoDanglingItem, Entry
  <2> QED
    BY <1>1, <2>2
<1>4. ASSUME NEW u \in Thread, OwnsItem(u)
      PROVE  item[u] # a /\ heap'[item[u]] = heap[item[u]]
  <2>1. item[u] \in Item /\ heap[item[u]] # NULL
    BY <1>4 DEF IInv, NoDanglingItem
  <2> QED
    BY <1>1, <2>1
<1> QED
  BY <1>2, <1>3, <1>4

(* destroy_struct frees an item that its thread alone owns.                *)
LEMMA Release ==
  ASSUME IInv, NEW t \in Thread, OwnsItem(t),
         heap' = [heap EXCEPT ![item[t]] = NULL]
  PROVE  /\ item[t] \in Item /\ heap'[item[t]] = NULL
         /\ \A b \in Bucket : \A n \in 1 .. Len(table[b]) :
              heap'[table[b][n].item] = heap[table[b][n].item]
         /\ \A u \in Thread \ {t} : OwnsItem(u) => heap'[item[u]] = heap[item[u]]
<1>0. TypeOK /\ item[t] \in Item
  BY DEF IInv, NoDanglingItem
<1>1. \A x \in Item : x # item[t] => heap'[x] = heap[x]
  BY <1>0 DEF TypeOK
<1>2. heap'[item[t]] = NULL
  BY <1>0 DEF TypeOK
<1>3. ASSUME NEW b \in Bucket, NEW n \in 1 .. Len(table[b])
      PROVE  heap'[table[b][n].item] = heap[table[b][n].item]
  <2>1. table[b][n] \in Entry
    BY <1>0 DEF TypeOK
  <2>2. table[b][n].item \in Item /\ table[b][n].item # item[t]
    BY <2>1 DEF IInv, NoSharedItem, Entry
  <2> QED
    BY <1>1, <2>2
<1>4. ASSUME NEW u \in Thread \ {t}, OwnsItem(u)
      PROVE  heap'[item[u]] = heap[item[u]]
  <2>1. item[u] \in Item /\ item[u] # item[t]
    BY <1>4 DEF IInv, NoDanglingItem, NoSharedItem
  <2> QED
    BY <1>1, <2>1
<1> QED
  BY <1>0, <1>2, <1>3, <1>4

(* A handler that is done has destroyed the item it owned, or has lost it. *)
LEMMA Finished ==
  ASSUME IInv, NEW t \in Thread, Send(t) \/ SendFails(t)
  PROVE  /\ Finish(t)
         /\ lost \subseteq lost'
         /\ \/ OwnsItem(t) /\ heap' = [heap EXCEPT ![item[t]] = NULL]
            \/ heap' = heap /\ (OwnsItem(t) => item[t] \in lost')
         /\ \A b \in Bucket : \A n \in 1 .. Len(table[b]) :
              heap'[table[b][n].item] = heap[table[b][n].item]
         /\ \A u \in Thread \ {t} : OwnsItem(u) => heap'[item[u]] = heap[item[u]]
<1>1. Finish(t) /\ pc[t] = "send"
  BY DEF Send, SendFails, Finish
<1>2. OwnsItem(t) <=> Refused(t) \/ Copied(t)
  BY <1>1 DEF OwnsItem
<1>3. /\ lost \subseteq lost'
      /\ \/ OwnsItem(t) /\ heap' = [heap EXCEPT ![item[t]] = NULL]
         \/ heap' = heap /\ (OwnsItem(t) => item[t] \in lost')
  BY <1>2 DEF Send, SendFails
<1> QED
  BY <1>1, <1>3, Release

(* An item in a chain has been allocated, and nobody else owns it.         *)
LEMMA OwnersKept ==
  ASSUME IInv, table' = table, heap' = heap,
         \A u \in Thread : OwnsItem(u)' => OwnsItem(u) /\ item'[u] = item[u]
  PROVE  NoDanglingItem' /\ NoSharedItem'
  BY DEF IInv, NoDanglingItem, NoSharedItem

(* malloc, insert_item, item_delete and destroy_struct keep one owner per  *)
(* item.                                                                   *)
LEMMA OwnersStep == IInv /\ [Next]_vars => NoDanglingItem' /\ NoSharedItem'
<1> SUFFICES ASSUME IInv, [Next]_vars PROVE NoDanglingItem' /\ NoSharedItem'
  OBVIOUS
<1>0. TypeOK /\ RequestsKept
  BY DEF IInv
<1>e. NoDanglingItem /\ NoSharedItem
  BY DEF IInv
<1> USE DEF Goto, lockVars, tableVars, requestVars, TypeOK
<1> DEFINE Goal == NoDanglingItem' /\ NoSharedItem'
<1>a. ASSUME NEW t \in Thread, OwnsItem(t)
      PROVE  /\ item[t] \in Item
             /\ heap[item[t]] # NULL
             /\ \A c \in Bucket : \A n \in 1 .. Len(table[c]) : table[c][n].item # item[t]
             /\ \A u \in Thread \ {t} : OwnsItem(u) => item[u] # item[t]
  BY <1>e, <1>a DEF NoDanglingItem, NoSharedItem
<1>b. ASSUME NEW t \in Thread, pc[t] = "act", ~Missed(t)
      PROVE  /\ \A c \in Bucket : \A n \in 1 .. Len(table[c]) :
                  table[c][n].item = ItemFound(t) => c = BucketOf(t) /\ n = cursor[t]
             /\ \A u \in Thread : OwnsItem(u) => item[u] # ItemFound(t)
  <2>1. /\ BucketOf(t) \in Bucket
        /\ cursor[t] \in 1 .. Len(table[BucketOf(t)])
        /\ ItemFound(t) = table[BucketOf(t)][cursor[t]].item
    BY <1>b, Serving, Finding
  <2> QED
    BY <1>e, <2>1 DEF NoSharedItem
<1>c. ASSUME NEW c \in Bucket, NEW n \in 1 .. Len(table[c])
      PROVE  table[c][n].item \in Item
  <2>1. table[c] \in Seq(Entry)
    BY <1>0
  <2>2. table[c][n] \in Entry
    BY <2>1
  <2> QED
    BY <2>2 DEF Entry
<1>d. /\ Written(0) # Written(999) /\ Deleted(1) # Written(999)
      /\ Deleted(0) # Written(999) /\ NotFound # Written(999)
      /\ \A v : Found(v) # Written(999)
  BY DEF Written, Deleted, Found, NotFound
<1> HIDE DEF Goal
<1>g. ASSUME NEW t \in Thread, NEW a \in Item, heap[a] = NULL,
             NEW v, v # NULL, heap' = [heap EXCEPT ![a] = v],
             item' = [item EXCEPT ![t] = a], table' = table,
             \A u \in Thread \ {t} : OwnsItem(u)' => OwnsItem(u)
      PROVE  Goal
  <2>1. /\ heap'[a] = v
        /\ \A c \in Bucket : \A n \in 1 .. Len(table[c]) :
             /\ table[c][n].item # a
             /\ heap'[table[c][n].item] = heap[table[c][n].item]
        /\ \A u \in Thread : OwnsItem(u) =>
             item[u] # a /\ heap'[item[u]] = heap[item[u]]
    BY <1>g, Allocation
  <2>2. item'[t] = a /\ \A u \in Thread \ {t} : item'[u] = item[u]
    BY <1>0, <1>g
  <2>3. NoDanglingItem'
    BY <1>e, <1>g, <2>1, <2>2 DEF NoDanglingItem
  <2>4. NoSharedItem'
    BY <1>e, <1>g, <2>1, <2>2 DEF NoSharedItem
  <2> QED
    BY <2>3, <2>4 DEF Goal
<1>1. ASSUME NEW t \in Thread, NEW r \in Request, Receive(t, r)
      PROVE  Goal
  <2>0. \A u \in Thread \ {t} : OwnsItem(u)' => OwnsItem(u)
    BY <1>0, <1>1 DEF Receive, OwnsItem, IsWrite, Refused, Copied
  <2>1. CASE r.op \in Writes
    <3>1. PICK a \in Free : /\ heap' = [heap EXCEPT ![a] = r.val]
                           /\ item' = [item EXCEPT ![t] = a]
      BY <1>1, <2>1 DEF Receive
    <3>2. r.val # NULL
      BY <2>1, NullAssumption DEF Request, Writes, Bytes
    <3>3. a \in Item /\ heap[a] = NULL /\ table' = table
      BY <1>1 DEF Free, Receive
    <3> QED
      BY <1>g, <2>0, <3>1, <3>2, <3>3
  <2>2. CASE r.op \notin Writes
    <3>1. ~OwnsItem(t)'
      BY <1>0, <1>1, <2>2 DEF Receive, OwnsItem, IsWrite, Refused, Copied
    <3>2. heap' = heap /\ item' = item /\ table' = table
      BY <1>1, <2>2 DEF Receive
    <3> QED
      BY <2>0, <3>1, <3>2, OwnersKept DEF Goal
  <2> QED
    BY <2>1, <2>2
<1>2. ASSUME NEW t \in Thread, RdLock(t) PROVE Goal
  BY <1>0, <1>d, <1>2, OwnersKept DEF RdLock, Goal, OwnsItem, IsWrite, Writes, Refused, Copied
<1>3. ASSUME NEW t \in Thread, WrLock(t) PROVE Goal
  BY <1>0, <1>d, <1>3, OwnersKept DEF WrLock, Goal, OwnsItem, IsWrite, Writes, Refused, Copied
<1>4. ASSUME NEW t \in Thread, Search(t) PROVE Goal
  BY <1>0, <1>d, <1>4, OwnersKept DEF Search, Goal, OwnsItem, IsWrite, Writes, Refused, Copied
<1>5. ASSUME NEW t \in Thread, ReadItem(t) PROVE Goal
  <2>1. heap[ItemFound(t)] # NULL
    BY <1>5, Finding, NullAssumption DEF ReadItem, Bytes
  <2>2. PICK a \in Free : /\ heap' = [heap EXCEPT ![a] = heap[ItemFound(t)]]
                         /\ item' = [item EXCEPT ![t] = a]
    BY <1>5 DEF ReadItem
  <2>3. a \in Item /\ heap[a] = NULL /\ table' = table
    BY <1>5 DEF Free, ReadItem
  <2>4. \A u \in Thread \ {t} : OwnsItem(u)' => OwnsItem(u)
    BY <1>0, <1>5 DEF ReadItem, OwnsItem, IsWrite, Refused, Copied
  <2> QED
    BY <1>g, <2>1, <2>2, <2>3, <2>4
<1>6. ASSUME NEW t \in Thread, InsertNew(t) PROVE Goal
  <2> SUFFICES ASSUME NEW b \in Bucket, b = BucketOf(t) PROVE Goal
    BY <1>6, Serving DEF InsertNew
  <2> DEFINE last == Len(table[b]) + 1
  <2>1. /\ \A n \in 1 .. Len(table[b]) : table'[b][n] = table[b][n]
        /\ table'[b][last] = [key |-> req[t].key, item |-> item[t]]
        /\ Len(table'[b]) = last
        /\ Len(table[b]) \in Nat
        /\ \A c \in Bucket \ {b} : table'[c] = table[c]
    BY <1>6, Inserted
  <2>2. ASSUME NEW c \in Bucket, NEW n \in 1 .. Len(table'[c])
        PROVE  \/ c = b /\ n = last /\ table'[c][n].item = item[t]
               \/ n \in 1 .. Len(table[c]) /\ table'[c][n] = table[c][n]
    <3>1. table'[b][last].item = item[t]
      BY <2>1
    <3>2. n \in 1 .. Len(table'[b]) => n = last \/ n \in 1 .. Len(table[b])
      BY <2>1
    <3> HIDE DEF last
    <3> QED
      BY <2>1, <2>2, <3>1, <3>2
  <2> HIDE DEF last
  <2>3. OwnsItem(t) /\ heap' = heap
    BY <1>6 DEF InsertNew, OwnsItem, IsWrite, Writes, Refused, Copied
  <2>4. \A u \in Thread : OwnsItem(u)' => u # t /\ OwnsItem(u) /\ item'[u] = item[u]
    BY <1>0, <1>d, <1>6 DEF InsertNew, OwnsItem, IsWrite, Writes, Refused, Copied
  <2>5. NoDanglingItem'
    <3>1. ASSUME NEW c \in Bucket, NEW n \in 1 .. Len(table'[c])
          PROVE  heap'[table'[c][n].item] # NULL
      BY <1>e, <1>a, <2>2, <2>3, <3>1 DEF NoDanglingItem
    <3>2. ASSUME NEW u \in Thread, OwnsItem(u)'
          PROVE  item'[u] \in Item /\ heap'[item'[u]] # NULL
      BY <1>a, <2>3, <2>4, <3>2
    <3> QED
      BY <3>1, <3>2 DEF NoDanglingItem
  <2>6. NoSharedItem'
    <3>1. ASSUME NEW c \in Bucket, NEW d \in Bucket,
                 NEW m \in 1 .. Len(table'[c]), NEW n \in 1 .. Len(table'[d]),
                 table'[c][m].item = table'[d][n].item
          PROVE  c = d /\ m = n
      <4>1. CASE m \in 1 .. Len(table[c]) /\ table'[c][m] = table[c][m]
        <5>1. CASE n \in 1 .. Len(table[d]) /\ table'[d][n] = table[d][n]
          BY <1>e, <3>1, <4>1, <5>1 DEF NoSharedItem
        <5>2. CASE table'[d][n].item = item[t]
          BY <1>a, <2>3, <3>1, <4>1, <5>2
        <5> QED
          BY <2>2, <5>1, <5>2
      <4>2. CASE c = b /\ m = last /\ table'[c][m].item = item[t]
        BY <1>a, <2>2, <2>3, <3>1, <4>2
      <4> QED
        BY <2>2, <4>1, <4>2
    <3>2. ASSUME NEW u \in Thread, OwnsItem(u)',
                 NEW c \in Bucket, NEW n \in 1 .. Len(table'[c])
          PROVE  table'[c][n].item # item'[u]
      BY <1>a, <2>2, <2>3, <2>4, <3>2
    <3>3. ASSUME NEW u \in Thread, NEW v \in Thread \ {u}, OwnsItem(u)', OwnsItem(v)'
          PROVE  item'[v] # item'[u]
      BY <1>a, <2>4, <3>3
    <3> QED
      BY <3>1, <3>2, <3>3 DEF NoSharedItem
  <2> QED
    BY <2>5, <2>6 DEF Goal
<1>7. ASSUME NEW t \in Thread, Overwrite(t) PROVE Goal
  <2> SUFFICES ASSUME NEW b \in Bucket, b = BucketOf(t) PROVE Goal
    BY <1>7, Serving DEF Overwrite
  <2> DEFINE x == ItemFound(t)
  <2>1. /\ \A n \in 1 .. Len(table[b]) : n # cursor[t] => table'[b][n] = table[b][n]
        /\ table'[b][cursor[t]] = [key |-> req[t].key, item |-> item[t]]
        /\ Len(table'[b]) = Len(table[b])
        /\ \A c \in Bucket \ {b} : table'[c] = table[c]
    BY <1>7, Overwritten
  <2>2. ASSUME NEW c \in Bucket, NEW n \in 1 .. Len(table'[c])
        PROVE  \/ c = b /\ n = cursor[t] /\ table'[c][n].item = item[t]
               \/ /\ ~(c = b /\ n = cursor[t])
                  /\ n \in 1 .. Len(table[c]) /\ table'[c][n] = table[c][n]
    <3>1. table'[b][cursor[t]].item = item[t]
      BY <2>1
    <3> QED
      BY <2>1, <2>2, <3>1
  <2>3. OwnsItem(t) /\ pc[t] = "act" /\ ~Missed(t)
    BY <1>7 DEF Overwrite, OwnsItem, IsWrite, Writes, Refused, Copied
  <2>4. \A u \in Thread : OwnsItem(u)' => u # t /\ OwnsItem(u) /\ item'[u] = item[u]
    BY <1>0, <1>d, <1>7 DEF Overwrite, OwnsItem, IsWrite, Writes, Refused, Copied
  <2>5. \A a \in Item : a # x => heap'[a] = heap[a]
    BY <1>0, <1>7 DEF Overwrite
  <2> HIDE DEF x
  <2>6. /\ \A c \in Bucket : \A n \in 1 .. Len(table[c]) :
             table[c][n].item = x => c = b /\ n = cursor[t]
        /\ \A u \in Thread : OwnsItem(u) => item[u] # x
    BY <1>b, <2>3 DEF x
  <2>7. NoDanglingItem'
    <3>1. ASSUME NEW c \in Bucket, NEW n \in 1 .. Len(table'[c])
          PROVE  heap'[table'[c][n].item] # NULL
      BY <1>e, <1>a, <1>c, <2>2, <2>3, <2>5, <2>6, <3>1 DEF NoDanglingItem
    <3>2. ASSUME NEW u \in Thread, OwnsItem(u)'
          PROVE  item'[u] \in Item /\ heap'[item'[u]] # NULL
      BY <1>a, <2>4, <2>5, <2>6, <3>2
    <3> QED
      BY <3>1, <3>2 DEF NoDanglingItem
  <2>8. NoSharedItem'
    <3>1. ASSUME NEW c \in Bucket, NEW d \in Bucket,
                 NEW m \in 1 .. Len(table'[c]), NEW n \in 1 .. Len(table'[d]),
                 table'[c][m].item = table'[d][n].item
          PROVE  c = d /\ m = n
      <4>1. CASE m \in 1 .. Len(table[c]) /\ table'[c][m] = table[c][m]
        <5>1. CASE n \in 1 .. Len(table[d]) /\ table'[d][n] = table[d][n]
          BY <1>e, <3>1, <4>1, <5>1 DEF NoSharedItem
        <5>2. CASE table'[d][n].item = item[t]
          BY <1>a, <2>3, <3>1, <4>1, <5>2
        <5> QED
          BY <2>2, <5>1, <5>2
      <4>2. CASE c = b /\ m = cursor[t] /\ table'[c][m].item = item[t]
        BY <1>a, <2>2, <2>3, <3>1, <4>2, SMTT(40)
      <4> QED
        BY <2>2, <4>1, <4>2
    <3>2. ASSUME NEW u \in Thread, OwnsItem(u)',
                 NEW c \in Bucket, NEW n \in 1 .. Len(table'[c])
          PROVE  table'[c][n].item # item'[u]
      BY <1>a, <2>2, <2>3, <2>4, <3>2
    <3>3. ASSUME NEW u \in Thread, NEW v \in Thread \ {u}, OwnsItem(u)', OwnsItem(v)'
          PROVE  item'[v] # item'[u]
      BY <1>a, <2>4, <3>3
    <3> QED
      BY <3>1, <3>2, <3>3 DEF NoSharedItem
  <2> QED
    BY <2>7, <2>8 DEF Goal
<1>8. ASSUME NEW t \in Thread, InsertExists(t) PROVE Goal
  BY <1>0, <1>d, <1>8, OwnersKept DEF InsertExists, Goal, OwnsItem, IsWrite, Writes, Refused, Copied
<1>9. ASSUME NEW t \in Thread, DeleteItem(t) PROVE Goal
  <2> SUFFICES ASSUME NEW b \in Bucket, b = BucketOf(t) PROVE Goal
    BY <1>9, Serving DEF DeleteItem
  <2> DEFINE x == ItemFound(t)
             old(c, n) == IF c # b \/ n < cursor[t] THEN n ELSE n + 1
  <2>1. /\ Len(table'[b]) = Len(table[b]) - 1
        /\ \A n \in 1 .. Len(table[b]) - 1 :
             table'[b][n] = IF n < cursor[t] THEN table[b][n] ELSE table[b][n + 1]
        /\ \A c \in Bucket \ {b} : table'[c] = table[c]
        /\ cursor[t] \in 1 .. Len(table[b])
        /\ Len(table[b]) \in Nat
    BY <1>9, Unlinked
  <2>2. ASSUME NEW c \in Bucket, NEW n \in 1 .. Len(table'[c])
        PROVE  /\ ~(c = b /\ old(c, n) = cursor[t])
               /\ old(c, n) \in 1 .. Len(table[c])
               /\ table'[c][n] = table[c][old(c, n)]
    BY <2>1, SMTT(40)
  <2>3. \A c \in Bucket : \A m, n \in 1 .. Len(table'[c]) : old(c, m) = old(c, n) => m = n
    BY <2>1
  <2>4. pc[t] = "act" /\ ~Missed(t)
    BY <1>9 DEF DeleteItem, OwnsItem, IsWrite, Writes, Refused, Copied
  <2>5. \A u \in Thread : OwnsItem(u)' => OwnsItem(u) /\ item'[u] = item[u]
    BY <1>0, <1>d, <1>9 DEF DeleteItem, OwnsItem, IsWrite, Writes, Refused, Copied
  <2>6. \A a \in Item : a # x => heap'[a] = heap[a]
    BY <1>0, <1>9 DEF DeleteItem
  <2> HIDE DEF x, old
  <2>7. /\ \A c \in Bucket : \A n \in 1 .. Len(table[c]) :
             table[c][n].item = x => c = b /\ n = cursor[t]
        /\ \A u \in Thread : OwnsItem(u) => item[u] # x
    BY <1>b, <2>4 DEF x
  <2>8. NoDanglingItem'
    <3>1. ASSUME NEW c \in Bucket, NEW n \in 1 .. Len(table'[c])
          PROVE  heap'[table'[c][n].item] # NULL
      BY <1>e, <1>c, <2>2, <2>6, <2>7, <3>1 DEF NoDanglingItem
    <3>2. ASSUME NEW u \in Thread, OwnsItem(u)'
          PROVE  item'[u] \in Item /\ heap'[item'[u]] # NULL
      BY <1>a, <2>5, <2>6, <2>7, <3>2
    <3> QED
      BY <3>1, <3>2 DEF NoDanglingItem
  <2>9. NoSharedItem'
    <3>1. ASSUME NEW c \in Bucket, NEW d \in Bucket,
                 NEW m \in 1 .. Len(table'[c]), NEW n \in 1 .. Len(table'[d]),
                 table'[c][m].item = table'[d][n].item
          PROVE  c = d /\ m = n
      <4>1. /\ old(c, m) \in 1 .. Len(table[c]) /\ old(d, n) \in 1 .. Len(table[d])
            /\ table[c][old(c, m)].item = table[d][old(d, n)].item
        BY <2>2, <3>1
      <4>2. c = d /\ old(c, m) = old(d, n)
        BY <1>e, <4>1 DEF NoSharedItem
      <4> QED
        BY <2>3, <4>2
    <3>2. ASSUME NEW u \in Thread, OwnsItem(u)',
                 NEW c \in Bucket, NEW n \in 1 .. Len(table'[c])
          PROVE  table'[c][n].item # item'[u]
      BY <1>a, <2>2, <2>5, <3>2
    <3>3. ASSUME NEW u \in Thread, NEW v \in Thread \ {u}, OwnsItem(u)', OwnsItem(v)'
          PROVE  item'[v] # item'[u]
      BY <1>a, <2>5, <3>3
    <3> QED
      BY <3>1, <3>2, <3>3 DEF NoSharedItem
  <2> QED
    BY <2>8, <2>9 DEF Goal
<1>10. ASSUME NEW t \in Thread, DeleteMissing(t) PROVE Goal
  BY <1>0, <1>d, <1>10, OwnersKept DEF DeleteMissing, Goal, OwnsItem, IsWrite, Writes, Refused, Copied
<1>11. ASSUME NEW t \in Thread, LogLock(t) PROVE Goal
  <2>1. pc[t] = "log_lock" /\ ~Refused(t) /\ ~Copied(t)
    BY <1>0, <1>d, <1>11 DEF LogLock, RequestsKept, Changed, Refused, Copied
  <2>2. \A u \in Thread : OwnsItem(u)' => OwnsItem(u) /\ item'[u] = item[u]
    BY <1>0, <1>11, <2>1 DEF LogLock, OwnsItem, IsWrite, Refused, Copied
  <2> QED
    BY <1>11, <2>2, OwnersKept DEF LogLock, Goal
<1>12. ASSUME NEW t \in Thread, Unlock(t) PROVE Goal
  BY <1>0, <1>d, <1>12, OwnersKept DEF Unlock, Goal, OwnsItem, IsWrite, Writes, Refused, Copied
<1>13. ASSUME NEW t \in Thread, AppendLog(t) PROVE Goal
  BY <1>0, <1>d, <1>13, OwnersKept DEF AppendLog, Goal, OwnsItem, IsWrite, Writes, Refused, Copied
<1>14. ASSUME NEW t \in Thread, LogUnlock(t) PROVE Goal
  <2>1. pc[t] = "log_unlock" /\ ~Refused(t) /\ ~Copied(t)
    BY <1>0, <1>d, <1>14 DEF LogUnlock, RequestsKept, Changed, Refused, Copied
  <2>2. \A u \in Thread : OwnsItem(u)' => OwnsItem(u) /\ item'[u] = item[u]
    BY <1>0, <1>14, <2>1 DEF LogUnlock, OwnsItem, IsWrite, Refused, Copied
  <2> QED
    BY <1>14, <2>2, OwnersKept DEF LogUnlock, Goal
<1>15. ASSUME NEW t \in Thread, Send(t) \/ SendFails(t) PROVE Goal
  <2>1. /\ Finish(t)
        /\ \A c \in Bucket : \A n \in 1 .. Len(table[c]) :
             heap'[table[c][n].item] = heap[table[c][n].item]
        /\ \A u \in Thread \ {t} : OwnsItem(u) => heap'[item[u]] = heap[item[u]]
    BY <1>15, Finished
  <2>2. table' = table
    BY <2>1 DEF Finish
  <2>3. \A u \in Thread : OwnsItem(u)' => u # t /\ OwnsItem(u) /\ item'[u] = item[u]
    BY <1>0, <2>1 DEF Finish, OwnsItem, IsWrite, Refused, Copied
  <2>4. NoDanglingItem'
    BY <1>e, <1>a, <2>1, <2>2, <2>3 DEF NoDanglingItem
  <2>5. NoSharedItem'
    BY <1>e, <2>2, <2>3 DEF NoSharedItem
  <2> QED
    BY <2>4, <2>5 DEF Goal
<1>16. CASE UNCHANGED vars
  BY <1>0, <1>16, OwnersKept DEF vars, Goal, OwnsItem, IsWrite, Refused, Copied
<1>17. ASSUME NEW t \in Thread, ReadMissing(t) PROVE Goal
  BY <1>0, <1>d, <1>17, OwnersKept DEF ReadMissing, Goal, OwnsItem, IsWrite, Writes, Refused, Copied
<1>18. ASSUME NEW t \in Thread, ReceiveFails(t) PROVE Goal
  <2>1. PICK a \in Item : heap[a] = NULL /\ heap' = [heap EXCEPT ![a] = Garbage]
    BY <1>18 DEF ReceiveFails, Free
  <2>2. /\ \A c \in Bucket : \A n \in 1 .. Len(table[c]) :
             /\ table[c][n].item # a
             /\ heap'[table[c][n].item] = heap[table[c][n].item]
        /\ \A u \in Thread : OwnsItem(u) =>
             item[u] # a /\ heap'[item[u]] = heap[item[u]]
    BY <2>1, Allocation
  <2>3. /\ table' = table /\ item' = item
        /\ \A u \in Thread : OwnsItem(u)' => OwnsItem(u)
    BY <1>18 DEF ReceiveFails, OwnsItem, IsWrite, Refused, Copied
  <2>4. NoDanglingItem'
    BY <1>e, <2>2, <2>3 DEF NoDanglingItem
  <2>5. NoSharedItem'
    BY <1>e, <2>3 DEF NoSharedItem
  <2> QED
    BY <2>4, <2>5 DEF Goal
<1> QED
  BY <1>1, <1>2, <1>3, <1>4, <1>5, <1>6, <1>7, <1>8, <1>9, <1>10, <1>11,
     <1>12, <1>13, <1>14, <1>15, <1>16, <1>17, <1>18 DEF Next, Step, Goal

(* Entry [key |-> k, item |-> a] is in the table; what that says of k.     *)
Linked(k, a) == \E n \in 1 .. Len(Chain(k)) : Chain(k)[n] = [key |-> k, item |-> a]

ContentFacts ==
  \A k \in Key :
    /\ Has(k) <=> \E a \in Item : Linked(k, a)
    /\ \A a \in Item : Linked(k, a) => Content(k) = heap[a]
    /\ ~Has(k) => Content(k) = NULL

(* In well-formed chains the entry of a key determines its content.        *)
LEMMA ContentOf == TypeOK /\ ChainsWellFormed => ContentFacts
<1> SUFFICES ASSUME TypeOK, ChainsWellFormed, NEW k \in Key
             PROVE  /\ Has(k) <=> \E a \in Item : Linked(k, a)
                    /\ \A a \in Item : Linked(k, a) => Content(k) = heap[a]
                    /\ ~Has(k) => Content(k) = NULL
  BY DEF ContentFacts
<1>1. Chain(k) \in Seq(Entry)
  BY BucketOfKey DEF Chain, TypeOK
<1>2. ASSUME Has(k) PROVE \E a \in Item : Linked(k, a)
  <2>1. PICK n \in 1 .. Len(Chain(k)) : Chain(k)[n].key = k
    BY <1>2 DEF Has
  <2>2. Chain(k)[n] \in Entry
    BY <1>1, <2>1
  <2>3. /\ Chain(k)[n].item \in Item
        /\ Chain(k)[n] = [key |-> k, item |-> Chain(k)[n].item]
    BY <2>1, <2>2 DEF Entry
  <2> QED
    BY <2>3 DEF Linked
<1>3. ASSUME NEW a \in Item, Linked(k, a)
      PROVE  Has(k) /\ Content(k) = heap[a]
  <2>1. PICK n \in 1 .. Len(Chain(k)) : Chain(k)[n] = [key |-> k, item |-> a]
    BY <1>3 DEF Linked
  <2>2. Chain(k)[n].key = k /\ Chain(k)[n].item = a
    BY <2>1
  <2>3. Has(k) /\ At(k) = n
    BY <2>2, SearchStops
  <2> QED
    BY <2>2, <2>3 DEF Content, ItemAt
<1>4. ~Has(k) => Content(k) = NULL
  BY DEF Content
<1> QED
  BY <1>2, <1>3, <1>4

(* A step that spares the table and its items spares the contents.         *)
LEMMA SameContent ==
  ASSUME IInv, table' = table,
         \A b \in Bucket : \A n \in 1 .. Len(table[b]) :
           heap'[table[b][n].item] = heap[table[b][n].item]
  PROVE  \A k \in Key : Content(k)' = Content(k)
<1> SUFFICES ASSUME NEW k \in Key PROVE Content(k)' = Content(k)
  OBVIOUS
<1>0. ContentFacts
  BY ContentOf DEF IInv
<1>1. Has(k)' = Has(k) /\ ItemAt(k)' = ItemAt(k)
  BY DEF Has, ItemAt, At, Chain
<1>2. CASE Has(k)
  <2>1. PICK a \in Item : Linked(k, a)
    BY <1>0, <1>2 DEF ContentFacts
  <2>2. PICK n \in 1 .. Len(Chain(k)) : Chain(k)[n] = [key |-> k, item |-> a]
    BY <2>1 DEF Linked
  <2>3. ItemAt(k) = a
    BY <2>2, SearchStops DEF ItemAt, IInv
  <2>4. heap'[a] = heap[a]
    BY <2>2, BucketOfKey DEF Chain
  <2> QED
    BY <1>1, <1>2, <2>3, <2>4 DEF Content
<1>3. CASE ~Has(k)
  BY <1>1, <1>3 DEF Content
<1> QED
  BY <1>2, <1>3

(* A step that changes neither contents, log nor who is on the way to it.  *)
LEMMA LogUntouched ==
  ASSUME IInv, table' = table, log' = log,
         \A k \in Key : Content(k)' = Content(k),
         \A u \in Thread, k \in Key :
           /\ Waiting(u, k)' <=> Waiting(u, k)
           /\ Logging(u, k)' <=> Logging(u, k)
           /\ Waiting(u, k) \/ Logging(u, k) => req'[u] = req[u] /\ item'[u] = item[u]
  PROVE  ChangesKept' /\ LogFollowsTable'
<1>1. ChangesKept'
  <2> SUFFICES ASSUME NEW u \in Thread, NEW k \in Key, Latest(u, k)'
               PROVE  (IF IsWrite(u) THEN Linked(k, item[u]) ELSE ~Has(k))'
    BY DEF ChangesKept, Linked
  <2>1. Latest(u, k)
    BY DEF Latest
  <2>2. req'[u] = req[u] /\ item'[u] = item[u]
    BY <2>1 DEF Latest
  <2>3. IF IsWrite(u) THEN Linked(k, item[u]) ELSE ~Has(k)
    BY <2>1 DEF IInv, ChangesKept, Linked
  <2> QED
    BY <2>2, <2>3 DEF IsWrite, Linked, Has, Chain
<1>2. LogFollowsTable'
  <2> SUFFICES ASSUME NEW k \in Key, Settled(k)' PROVE Replays(k, Content(k))'
    BY DEF LogFollowsTable
  <2>1. Settled(k)
    BY DEF Settled
  <2>2. Replays(k, Content(k)) /\ Content(k)' = Content(k)
    BY <2>1 DEF IInv, LogFollowsTable
  <2> QED
    BY <2>2 DEF Replays
<1> QED
  BY <1>1, <1>2

(* InsertNew links one entry, under its own key.                           *)
LEMMA InsertEffect ==
  ASSUME IInv, NEW t \in Thread, InsertNew(t)
  PROVE  /\ Linked(req[t].key, item[t])'
         /\ \A k \in Key \ {req[t].key} : \A a : Linked(k, a)' <=> Linked(k, a)
<1> DEFINE kt == req[t].key
<1>0. PICK b \in Bucket : b = BucketOf(t) /\ b = hash_function(kt)
  BY Serving DEF InsertNew, BucketOf
<1>1. /\ table[b] \in Seq(Entry)
      /\ Len(table'[b]) = Len(table[b]) + 1
      /\ \A n \in 1 .. Len(table[b]) : table'[b][n] = table[b][n]
      /\ table'[b][Len(table[b]) + 1] = [key |-> kt, item |-> item[t]]
      /\ \A c \in Bucket \ {b} : table'[c] = table[c]
  BY <1>0, Inserted
<1>2. /\ Len(table[b]) + 1 \in 1 .. Len(table'[b])
      /\ \A n \in 1 .. Len(table'[b]) : n \in 1 .. Len(table[b]) \/ n = Len(table[b]) + 1
      /\ \A n \in 1 .. Len(table[b]) : n \in 1 .. Len(table'[b])
  BY <1>1
<1>3. item' = item /\ req' = req
  BY DEF InsertNew, requestVars
<1>4. Linked(kt, item[t])'
  BY <1>0, <1>1, <1>2, <1>3 DEF Linked, Chain
<1>5. ASSUME NEW k \in Key \ {kt}, NEW a PROVE Linked(k, a)' <=> Linked(k, a)
  <2>1. CASE hash_function(k) = b
    <3>1. [key |-> k, item |-> a] # [key |-> kt, item |-> item[t]]
      BY <1>5
    <3> QED
      BY <1>1, <1>2, <2>1, <3>1 DEF Linked, Chain
  <2>2. CASE hash_function(k) # b
    BY <1>1, <1>5, <2>2, BucketOfKey DEF Linked, Chain
  <2> QED
    BY <2>1, <2>2
<1> QED
  BY <1>4, <1>5

(* Overwrite relinks one entry, under its own key.                         *)
LEMMA OverwriteEffect ==
  ASSUME IInv, NEW t \in Thread, Overwrite(t)
  PROVE  /\ Linked(req[t].key, item[t])'
         /\ \A k \in Key \ {req[t].key} : \A a : Linked(k, a)' <=> Linked(k, a)
<1> SUFFICES ASSUME NEW b, b = BucketOf(t), NEW kt, kt = req[t].key
             PROVE  /\ Linked(kt, item[t])'
                    /\ \A k \in Key \ {kt} : \A a : Linked(k, a)' <=> Linked(k, a)
  BY DEF Overwrite, requestVars
<1>0. b \in Bucket /\ b = hash_function(kt)
  BY Serving DEF Overwrite, BucketOf
<1>1. /\ cursor[t] \in 1 .. Len(table[b])
      /\ Len(table'[b]) = Len(table[b])
      /\ \A n \in 1 .. Len(table[b]) : n # cursor[t] => table'[b][n] = table[b][n]
      /\ table'[b][cursor[t]] = [key |-> kt, item |-> item[t]]
      /\ \A c \in Bucket \ {b} : table'[c] = table[c]
  BY Overwritten
<1>2. table[b][cursor[t]].key = kt
  BY <1>0, Finding DEF Overwrite
<1>3. item' = item /\ req' = req
  BY DEF Overwrite, requestVars
<1>4. Linked(kt, item[t])'
  BY <1>0, <1>1, <1>3 DEF Linked, Chain
<1>5. ASSUME NEW k \in Key \ {kt}, NEW a PROVE Linked(k, a)' <=> Linked(k, a)
  <2>1. CASE hash_function(k) = b
    <3>1. /\ [key |-> k, item |-> a] # [key |-> kt, item |-> item[t]]
          /\ [key |-> k, item |-> a] # table[b][cursor[t]]
      BY <1>2, <1>5
    <3> QED
      BY <1>1, <2>1, <3>1 DEF Linked, Chain
  <2>2. CASE hash_function(k) # b
    BY <1>1, <1>5, <2>2, BucketOfKey DEF Linked, Chain
  <2> QED
    BY <2>1, <2>2
<1> QED
  BY <1>4, <1>5

(* DeleteItem removes the entry of its own key only.                       *)
LEMMA DeleteEffect ==
  ASSUME IInv, NEW t \in Thread, DeleteItem(t)
  PROVE  /\ ~Has(req[t].key)'
         /\ \A k \in Key \ {req[t].key} : \A a : Linked(k, a)' <=> Linked(k, a)
<1> SUFFICES ASSUME NEW b, b = BucketOf(t), NEW kt, kt = req[t].key
             PROVE  /\ ~Has(kt)'
                    /\ \A k \in Key \ {kt} : \A a : Linked(k, a)' <=> Linked(k, a)
  BY DEF DeleteItem, requestVars
<1>0. b \in Bucket /\ b = hash_function(kt)
  BY Serving DEF DeleteItem, BucketOf
<1>1. /\ cursor[t] \in 1 .. Len(table[b])
      /\ Len(table[b]) \in Nat
      /\ Len(table'[b]) = Len(table[b]) - 1
      /\ \A n \in 1 .. Len(table[b]) - 1 :
           table'[b][n] = IF n < cursor[t] THEN table[b][n] ELSE table[b][n + 1]
      /\ \A c \in Bucket \ {b} : table'[c] = table[c]
  BY Unlinked
<1>2. table[b][cursor[t]].key = kt
  BY <1>0, Finding DEF DeleteItem
<1>3. req' = req
  BY DEF DeleteItem, requestVars
<1>4. ASSUME NEW n \in 1 .. Len(table'[b])
      PROVE  \E m \in 1 .. Len(table[b]) : m # cursor[t] /\ table'[b][n] = table[b][m]
  <2>1. CASE n < cursor[t]
    BY <1>1, <2>1
  <2>2. CASE ~(n < cursor[t])
    <3>1. n + 1 \in 1 .. Len(table[b]) /\ n + 1 # cursor[t]
      BY <1>1, <2>2
    <3> QED
      BY <1>1, <2>2, <3>1
  <2> QED
    BY <2>1, <2>2
<1>5. ASSUME NEW m \in 1 .. Len(table[b]), m # cursor[t]
      PROVE  \E n \in 1 .. Len(table'[b]) : table'[b][n] = table[b][m]
  <2>1. CASE m < cursor[t]
    <3>1. m \in 1 .. Len(table'[b])
      BY <1>1, <2>1
    <3> QED
      BY <1>1, <2>1, <3>1
  <2>2. CASE ~(m < cursor[t])
    <3>1. /\ m - 1 \in 1 .. Len(table'[b])
          /\ ~(m - 1 < cursor[t])
          /\ (m - 1) + 1 = m
      BY <1>1, <1>5, <2>2
    <3> QED
      BY <1>1, <3>1
  <2> QED
    BY <2>1, <2>2
<1>6. ~Has(kt)'
  <2>1. \A m \in 1 .. Len(table[b]) : m # cursor[t] => table[b][m].key # kt
    BY <1>0, <1>1, <1>2 DEF IInv, ChainsWellFormed
  <2> QED
    BY <1>0, <1>3, <1>4, <2>1 DEF Has, Chain
<1>7. ASSUME NEW k \in Key \ {kt}, NEW a PROVE Linked(k, a)' <=> Linked(k, a)
  <2>1. CASE hash_function(k) = b
    <3> DEFINE e == [key |-> k, item |-> a]
    <3>1. e # table[b][cursor[t]]
      BY <1>2, <1>7
    <3> HIDE DEF e
    <3>2. ASSUME NEW n \in 1 .. Len(table'[b]), table'[b][n] = e
          PROVE  \E m \in 1 .. Len(table[b]) : table[b][m] = e
      BY <1>4, <3>2
    <3>3. ASSUME NEW m \in 1 .. Len(table[b]), table[b][m] = e
          PROVE  \E n \in 1 .. Len(table'[b]) : table'[b][n] = e
      BY <1>5, <3>1, <3>3
    <3> QED
      BY <2>1, <3>2, <3>3 DEF Linked, Chain, e
  <2>2. CASE hash_function(k) # b
    BY <1>1, <1>7, <2>2, BucketOfKey DEF Linked, Chain
  <2> QED
    BY <2>1, <2>2
<1> QED
  BY <1>6, <1>7

(* What one more record does to what the log replays.                      *)
LEMMA ReplaysAppend ==
  ASSUME NEW r, TypeOK, log' = Append(log, r)
  PROVE  /\ \A k, v : r.key # k /\ Replays(k, v) => Replays(k, v)'
         /\ Replays(r.key, r.val)'
<1>1. /\ Len(log) \in Nat
      /\ Len(log') = Len(log) + 1
      /\ \A n \in 1 .. Len(log) : log'[n] = log[n]
      /\ log'[Len(log) + 1] = r
  BY DEF TypeOK
<1>2. ASSUME NEW k, NEW v, r.key # k, Replays(k, v) PROVE Replays(k, v)'
  <2>1. CASE v = NULL /\ \A n \in 1 .. Len(log) : log[n].key # k
    <3>1. \A n \in 1 .. Len(log') : n \in 1 .. Len(log) \/ n = Len(log) + 1
      BY <1>1
    <3>2. \A n \in 1 .. Len(log') : log'[n].key # k
      BY <1>1, <1>2, <2>1, <3>1
    <3> QED
      BY <2>1, <3>2 DEF Replays
  <2>2. CASE \E n \in 1 .. Len(log) :
               /\ log[n].key = k
               /\ log[n].val = v
               /\ \A m \in n + 1 .. Len(log) : log[m].key # k
    <3>1. PICK n \in 1 .. Len(log) :
                 /\ log[n].key = k
                 /\ log[n].val = v
                 /\ \A m \in n + 1 .. Len(log) : log[m].key # k
      BY <2>2
    <3>2. /\ n \in 1 .. Len(log')
          /\ \A m \in n + 1 .. Len(log') :
               m = Len(log) + 1 \/ (m \in n + 1 .. Len(log) /\ m \in 1 .. Len(log))
      BY <1>1
    <3>3. \A m \in n + 1 .. Len(log') : log'[m].key # k
      BY <1>1, <1>2, <3>1, <3>2
    <3>4. log'[n] = log[n]
      BY <1>1
    <3> QED
      BY <3>1, <3>2, <3>3, <3>4 DEF Replays
  <2> QED
    BY <1>2, <2>1, <2>2 DEF Replays
<1>3. Replays(r.key, r.val)'
  <2>1. /\ Len(log) + 1 \in 1 .. Len(log')
        /\ \A m \in (Len(log) + 1) + 1 .. Len(log') : FALSE
    BY <1>1
  <2> QED
    BY <1>1, <2>1 DEF Replays
<1> QED
  BY <1>2, <1>3

(* Two threads that change one bucket are one thread.                      *)
LEMMA OneWriter ==
  ASSUME IInv, NEW t \in Thread, NEW u \in Thread,
         InBucket(t), InBucket(u), BucketOf(t) = BucketOf(u),
         req[t].op # "READ_REQ", req[u].op # "READ_REQ"
  PROVE  t = u
<1>1. BucketOf(t) \in Bucket
  BY Serving DEF InBucket
<1> QED
  BY <1>1 DEF IInv, LocksKept

(* A thread that waits for the log mutex holds its bucket for writing.     *)
LEMMA WaitingWrites ==
  ASSUME IInv, NEW t \in Thread, pc[t] = "log_lock"
  PROVE  InBucket(t) /\ req[t].op # "READ_REQ"
  BY DEF IInv, RequestsKept, InBucket

(* A change of the table under the key of t disturbs no other key, and t   *)
(* is then the latest to have changed its own.                             *)
LEMMA TableChanged ==
  ASSUME IInv, TypeOK', ChainsWellFormed',
         NEW t \in Thread, NEW kt \in Key, kt = req[t].key,
         pc[t] = "act", req[t].op # "READ_REQ",
         pc' = [pc EXCEPT ![t] = "log_lock"],
         req' = req, item' = item, logger' = logger, log' = log,
         (IF IsWrite(t) THEN Linked(kt, item[t]) ELSE ~Has(kt))',
         \A k \in Key \ {kt} : \A a : Linked(k, a)' <=> Linked(k, a),
         \A k \in Key \ {kt} : Content(k)' = Content(k)
  PROVE  ChangesKept' /\ LogFollowsTable'
<1>0. TypeOK /\ ContentFacts /\ ContentFacts'
  <2>1. TypeOK' /\ ChainsWellFormed' => ContentFacts'
    BY ContentOf, PTL
  <2> QED
    BY <2>1, ContentOf DEF IInv
<1>1. Waiting(t, kt)' /\ pc'[t] = "log_lock"
  BY <1>0 DEF TypeOK, Waiting
<1>2. ASSUME NEW u \in Thread, Waiting(u, kt)' PROVE u = t
  <2>1. CASE u # t
    <3>1. Waiting(u, kt) /\ pc[u] = "log_lock"
      BY <1>0, <1>2, <2>1 DEF TypeOK, Waiting
    <3>2. InBucket(t) /\ InBucket(u) /\ BucketOf(t) = BucketOf(u)
      BY <3>1 DEF InBucket, BucketOf, Waiting
    <3> QED
      BY <3>1, <3>2, WaitingWrites, OneWriter
  <2> QED
    BY <2>1
<1>3. ASSUME NEW u \in Thread, NEW k \in Key \ {kt}
      PROVE  (Waiting(u, k)' <=> Waiting(u, k)) /\ (Logging(u, k)' <=> Logging(u, k))
  BY <1>0 DEF TypeOK, Waiting, Logging
<1>4. ChangesKept'
  <2> SUFFICES ASSUME NEW u \in Thread, NEW k \in Key, Latest(u, k)'
               PROVE  (IF IsWrite(u) THEN Linked(k, item[u]) ELSE ~Has(k))'
    BY DEF ChangesKept, Linked
  <2>1. CASE k = kt
    BY <1>1, <1>2, <2>1 DEF Latest
  <2>2. CASE k # kt
    <3>1. Latest(u, k)
      BY <1>3, <2>2 DEF Latest
    <3>2. IF IsWrite(u) THEN Linked(k, item[u]) ELSE ~Has(k)
      BY <3>1 DEF IInv, ChangesKept, Linked
    <3>3. (Has(k)' <=> Has(k)) /\ (Linked(k, item[u])' <=> Linked(k, item[u]))
      <4>1. \A a : Linked(k, a)' <=> Linked(k, a)
        BY <2>2
      <4>2. Linked(k, item[u])' <=> Linked(k, item[u])
        BY <4>1 DEF Linked
      <4>3. Has(k)' <=> Has(k)
        BY <1>0, <4>1 DEF ContentFacts
      <4> QED
        BY <4>2, <4>3
    <3> QED
      BY <3>2, <3>3 DEF IsWrite
  <2> QED
    BY <2>1, <2>2
<1>5. LogFollowsTable'
  <2> SUFFICES ASSUME NEW k \in Key, Settled(k)' PROVE Replays(k, Content(k))'
    BY DEF LogFollowsTable
  <2>1. k # kt
    BY <1>1 DEF Settled
  <2>2. Settled(k)
    BY <1>3, <2>1 DEF Settled
  <2>3. Replays(k, Content(k)) /\ Content(k)' = Content(k)
    BY <2>1, <2>2 DEF IInv, LogFollowsTable
  <2> QED
    BY <2>3 DEF Replays
<1> QED
  BY <1>4, <1>5

(* Freeing the item that t found leaves the content of other keys.         *)
LEMMA OthersKeep ==
  ASSUME IInv, TypeOK', ChainsWellFormed',
         NEW t \in Thread, pc[t] = "act", ~Missed(t),
         heap' = [heap EXCEPT ![ItemFound(t)] = NULL],
         NEW k \in Key, k # req[t].key,
         \A a : Linked(k, a)' <=> Linked(k, a)
  PROVE  Content(k)' = Content(k)
<1>0. ContentFacts /\ ContentFacts' /\ TypeOK
  <2>1. TypeOK' /\ ChainsWellFormed' => ContentFacts'
    BY ContentOf, PTL
  <2> QED
    BY <2>1, ContentOf DEF IInv
<1>1. CASE Has(k)
  <2>1. PICK a \in Item : Linked(k, a)
    BY <1>0, <1>1 DEF ContentFacts
  <2>2. a # ItemFound(t)
    <3>1. PICK n \in 1 .. Len(Chain(k)) : Chain(k)[n] = [key |-> k, item |-> a]
      BY <2>1 DEF Linked
    <3>2. /\ hash_function(k) \in Bucket /\ BucketOf(t) \in Bucket
          /\ cursor[t] \in 1 .. Len(table[BucketOf(t)])
          /\ table[BucketOf(t)][cursor[t]].key = req[t].key
          /\ ItemFound(t) = table[BucketOf(t)][cursor[t]].item
      BY BucketOfKey, Serving, Finding
    <3>3. /\ table[hash_function(k)][n].item = a
          /\ table[hash_function(k)][n].key = k
      BY <3>1 DEF Chain
    <3> QED
      BY <3>1, <3>2, <3>3 DEF IInv, NoSharedItem, Chain
  <2>3. heap'[a] = heap[a]
    BY <1>0, <2>2 DEF TypeOK
  <2>4. Content(k) = heap[a] /\ Content(k)' = heap'[a]
    BY <1>0, <2>1 DEF ContentFacts
  <2> QED
    BY <2>3, <2>4
<1>2. CASE ~Has(k)
  BY <1>0, <1>2 DEF ContentFacts
<1> QED
  BY <1>1, <1>2

(* Taking the log mutex makes the thread that waited the one that logs.    *)
LEMMA LogLockStep ==
  ASSUME IInv, NEW t \in Thread, LogLock(t)
  PROVE  ChangesKept' /\ LogFollowsTable'
<1> SUFFICES ASSUME NEW kt \in Key, kt = req[t].key
             PROVE  ChangesKept' /\ LogFollowsTable'
  BY Serving DEF LogLock
<1>0. TypeOK /\ hash_function(kt) \in Bucket
  BY BucketOfKey DEF IInv
<1>1. /\ table' = table /\ heap' = heap /\ log' = log /\ req' = req /\ item' = item
      /\ pc[t] = "log_lock" /\ pc' = [pc EXCEPT ![t] = "unlock"]
      /\ logger[hash_function(kt)] = NULL
      /\ logger' = [logger EXCEPT ![hash_function(kt)] = t]
  BY DEF LogLock, Goto, BucketOf, tableVars, requestVars
<1>2. Waiting(t, kt) /\ Logging(t, kt)'
  BY <1>0, <1>1 DEF TypeOK, Waiting, Logging
<1>3. ASSUME NEW u \in Thread, Waiting(u, kt) PROVE u = t
  <2>1. pc[u] = "log_lock" /\ BucketOf(u) = BucketOf(t)
    BY <1>3 DEF Waiting, BucketOf
  <2> QED
    BY <1>1, <2>1, WaitingWrites, OneWriter
<1>4. ASSUME NEW u \in Thread, NEW k \in Key, u # t \/ k # kt
      PROVE  (Waiting(u, k)' <=> Waiting(u, k)) /\ (Logging(u, k)' <=> Logging(u, k))
  <2>1. hash_function(k) \in Bucket
    BY BucketOfKey
  <2>2. u # t => (logger'[hash_function(k)] = u <=> logger[hash_function(k)] = u)
    BY <1>0, <1>1, <2>1, NullAssumption DEF TypeOK
  <2> QED
    BY <1>0, <1>1, <1>4, <2>2 DEF TypeOK, Waiting, Logging
<1>5. ChangesKept'
  <2> SUFFICES ASSUME NEW u \in Thread, NEW k \in Key, Latest(u, k)'
               PROVE  (IF IsWrite(u) THEN Linked(k, item[u]) ELSE ~Has(k))'
    BY DEF ChangesKept, Linked
  <2>1. Latest(u, k)
    <3>1. CASE k # kt
      BY <1>4, <3>1 DEF Latest
    <3>2. CASE k = kt
      <4>1. CASE u = t
        BY <1>2, <3>2, <4>1 DEF Latest
      <4>2. CASE u # t
        <5>1. ~Waiting(u, kt)
          BY <1>3, <4>2
        <5>2. ~Logging(u, kt)'
          BY <1>0, <1>1, <4>2 DEF TypeOK, Logging
        <5> QED
          BY <1>4, <3>2, <4>2, <5>1, <5>2 DEF Latest
      <4> QED
        BY <4>1, <4>2
    <3> QED
      BY <3>1, <3>2
  <2>2. IF IsWrite(u) THEN Linked(k, item[u]) ELSE ~Has(k)
    BY <2>1 DEF IInv, ChangesKept, Linked
  <2> QED
    BY <1>1, <2>2 DEF IsWrite, Linked, Has, Chain
<1>6. LogFollowsTable'
  <2> SUFFICES ASSUME NEW k \in Key, Settled(k)' PROVE Replays(k, Content(k))'
    BY DEF LogFollowsTable
  <2>1. k # kt
    BY <1>2 DEF Settled
  <2>2. Settled(k)
    BY <1>4, <2>1 DEF Settled
  <2>3. Replays(k, Content(k)) /\ Content(k)' = Content(k)
    BY <1>1, <2>2, SameContent DEF IInv, LogFollowsTable
  <2> QED
    BY <1>1, <2>3 DEF Replays
<1> QED
  BY <1>5, <1>6

(* The record appended for a key that nobody waits to change again says    *)
(* what the table holds.                                                   *)
LEMMA AppendLogStep ==
  ASSUME IInv, NEW t \in Thread, AppendLog(t)
  PROVE  ChangesKept' /\ LogFollowsTable'
<1> SUFFICES ASSUME NEW kt \in Key, kt = req[t].key
             PROVE  ChangesKept' /\ LogFollowsTable'
  BY Serving DEF AppendLog
<1>0. TypeOK /\ hash_function(kt) \in Bucket /\ ContentFacts
  BY BucketOfKey, ContentOf DEF IInv
<1>1. /\ table' = table /\ heap' = heap /\ logger' = logger
      /\ req' = req /\ item' = item
      /\ pc[t] = "log" /\ pc' = [pc EXCEPT ![t] = "log_unlock"]
  BY DEF AppendLog, Goto, tableVars, requestVars, lockVars
<1>2. PICK r : /\ log' = Append(log, r)
               /\ r.key = kt
               /\ IF IsWrite(t) THEN r.val \in BytesAt(item[t]) ELSE r.val = NULL
  <2>1. CASE IsWrite(t)
    <3>1. PICK v \in BytesAt(item[t]) :
                 log' = Append(log, [op |-> "I", key |-> kt, val |-> v])
      BY <2>1 DEF AppendLog
    <3>2. WITNESS [op |-> "I", key |-> kt, val |-> v]
    <3> QED
      BY <2>1, <3>1
  <2>2. CASE ~IsWrite(t)
    <3>1. log' = Append(log, [op |-> "D", key |-> kt, val |-> NULL])
      BY <2>2 DEF AppendLog
    <3>2. WITNESS [op |-> "D", key |-> kt, val |-> NULL]
    <3> QED
      BY <2>2, <3>1
  <2> QED
    BY <2>1, <2>2
<1>3. logger[hash_function(kt)] = t
  <2>1. HoldsLog(t) /\ BucketOf(t) = hash_function(kt)
    BY <1>1 DEF HoldsLog, BucketOf
  <2> QED
    BY <1>0, <2>1 DEF IInv, LocksKept
<1>4. ASSUME NEW u \in Thread, NEW k \in Key
      PROVE  /\ Waiting(u, k)' <=> Waiting(u, k)
             /\ Logging(u, k)' <=> Logging(u, k) /\ u # t
  BY <1>0, <1>1, <1>4 DEF TypeOK, Waiting, Logging
<1>5. ChangesKept'
  <2> SUFFICES ASSUME NEW u \in Thread, NEW k \in Key, Latest(u, k)'
               PROVE  (IF IsWrite(u) THEN Linked(k, item[u]) ELSE ~Has(k))'
    BY DEF ChangesKept, Linked
  <2>1. Latest(u, k)
    BY <1>4 DEF Latest
  <2>2. IF IsWrite(u) THEN Linked(k, item[u]) ELSE ~Has(k)
    BY <2>1 DEF IInv, ChangesKept, Linked
  <2> QED
    BY <1>1, <2>2 DEF IsWrite, Linked, Has, Chain
<1>6. ASSUME NEW k \in Key \ {kt}, Settled(k)' PROVE Replays(k, Content(k))'
  <2>1. ~Logging(t, k)
    BY <1>6 DEF Logging
  <2>2. Settled(k)
    BY <1>4, <1>6, <2>1 DEF Settled
  <2>3. PICK v : v = Content(k)
    OBVIOUS
  <2>4. Replays(k, v) /\ Content(k)' = v
    BY <1>1, <2>2, <2>3, SameContent DEF IInv, LogFollowsTable
  <2>5. Replays(k, v)'
    BY <1>0, <1>2, <2>4, ReplaysAppend
  <2> QED
    BY <2>4, <2>5 DEF Replays
<1>7. ASSUME Settled(kt)' PROVE Replays(kt, Content(kt))'
  <2>1. \A u \in Thread : ~Waiting(u, kt)
    BY <1>4, <1>7 DEF Settled
  <2>2. Latest(t, kt)
    BY <1>1, <1>3, <2>1 DEF Latest, Logging
  <2>3. r.val = Content(kt)
    <3>1. CASE IsWrite(t)
      <4>1. PICK n \in 1 .. Len(Chain(kt)) : Chain(kt)[n] = [key |-> kt, item |-> item[t]]
        BY <2>2, <3>1 DEF IInv, ChangesKept
      <4>2. item[t] \in Item /\ Linked(kt, item[t])
        BY <1>1, <3>1, <4>1, Serving DEF Linked
      <4>3. heap[item[t]] # NULL
        BY <1>0, <4>1 DEF IInv, NoDanglingItem, Chain
      <4>4. r.val = heap[item[t]]
        BY <1>2, <3>1, <4>3 DEF BytesAt
      <4> QED
        BY <1>0, <4>2, <4>4 DEF ContentFacts
    <3>2. CASE ~IsWrite(t)
      BY <1>0, <1>2, <2>2, <3>2 DEF IInv, ChangesKept, ContentFacts
    <3> QED
      BY <3>1, <3>2
  <2>4. Replays(kt, r.val)'
    BY <1>0, <1>2, ReplaysAppend
  <2>5. Content(kt)' = Content(kt)
    BY <1>1, SameContent
  <2> QED
    BY <2>3, <2>4, <2>5 DEF Replays
<1>8. LogFollowsTable'
  BY <1>6, <1>7 DEF LogFollowsTable
<1> QED
  BY <1>5, <1>8

(* ChangesKept and LogFollowsTable are preserved: a change makes its       *)
(* thread the latest for its key, and its append settles the key again.    *)
LEMMA LogStep ==
  IInv /\ [Next]_vars /\ TypeOK' /\ ChainsWellFormed' => ChangesKept' /\ LogFollowsTable'
<1> SUFFICES ASSUME IInv, [Next]_vars, TypeOK', ChainsWellFormed'
             PROVE  ChangesKept' /\ LogFollowsTable'
  OBVIOUS
<1> DEFINE Goal == ChangesKept' /\ LogFollowsTable'
<1>0. TypeOK /\ ChainsWellFormed /\ NoDanglingItem /\ NoSharedItem /\ LocksKept
  BY DEF IInv
<1>f. ContentFacts /\ ContentFacts'
  <2>1. TypeOK' /\ ChainsWellFormed' => ContentFacts'
    BY ContentOf, PTL
  <2> QED
    BY <1>0, <2>1, ContentOf
<1>h. heap' = heap /\ table' = table => \A k \in Key : Content(k)' = Content(k)
  BY SameContent
<1>t. ASSUME NEW b \in Bucket, NEW n \in 1 .. Len(table[b])
      PROVE  table[b][n].item \in Item
  <2>1. table[b] \in Seq(Entry)
    BY <1>0 DEF TypeOK
  <2>2. table[b][n] \in Entry
    BY <2>1
  <2> QED
    BY <2>2 DEF Entry
<1>i. ASSUME NEW t \in Thread, NEW k \in Key, pc[t] = "act" \/ pc[t] = "unlock",
             Logging(t, k) \/ (req[t].key = k /\ logger[hash_function(k)] = t)
      PROVE  HoldsLog(t)
  <2>1. hash_function(k) \in Bucket
    BY BucketOfKey
  <2> QED
    BY <1>0, <1>i, <2>1 DEF LocksKept, Logging
<1> HIDE DEF Goal
<1> USE DEF Goto
<1>g. ASSUME NEW a \in Free, NEW v, heap' = [heap EXCEPT ![a] = v], table' = table
      PROVE  \A k \in Key : Content(k)' = Content(k)
  <2>1. \A b \in Bucket : \A n \in 1 .. Len(table[b]) :
          /\ table[b][n].item # a
          /\ heap'[table[b][n].item] = heap[table[b][n].item]
    BY <1>g, Allocation DEF Free
  <2> QED
    BY <1>g, <2>1, SameContent
<1>1. ASSUME NEW t \in Thread, NEW r \in Request, Receive(t, r)
      PROVE  Goal
  <2>1. \/ heap' = heap
        \/ \E a \in Free : heap' = [heap EXCEPT ![a] = r.val]
    BY <1>1 DEF Receive
  <2>2. \A k \in Key : Content(k)' = Content(k)
    BY <1>1, <1>g, <1>h, <2>1 DEF Receive
  <2>3. ASSUME NEW u \in Thread, NEW k \in Key
        PROVE  /\ Waiting(u, k)' <=> Waiting(u, k)
               /\ Logging(u, k)' <=> Logging(u, k)
               /\ Waiting(u, k) \/ Logging(u, k) => req'[u] = req[u] /\ item'[u] = item[u]
    BY <1>0, <1>1 DEF Receive, Waiting, Logging, lockVars, TypeOK
  <2> QED
    BY <1>1, <2>2, <2>3, LogUntouched DEF Receive, Goal
<1>2. ASSUME NEW t \in Thread, RdLock(t) PROVE Goal
  <2>1. ASSUME NEW u \in Thread, NEW k \in Key
        PROVE  /\ Waiting(u, k)' <=> Waiting(u, k)
               /\ Logging(u, k)' <=> Logging(u, k)
               /\ req'[u] = req[u] /\ item'[u] = item[u]
    BY <1>0, <1>2 DEF RdLock, Waiting, Logging, lockVars, requestVars, TypeOK
  <2> QED
    BY <1>h, <1>2, <2>1, LogUntouched DEF RdLock, tableVars, Goal
<1>3. ASSUME NEW t \in Thread, WrLock(t) PROVE Goal
  <2>1. ASSUME NEW u \in Thread, NEW k \in Key
        PROVE  /\ Waiting(u, k)' <=> Waiting(u, k)
               /\ Logging(u, k)' <=> Logging(u, k)
               /\ req'[u] = req[u] /\ item'[u] = item[u]
    BY <1>0, <1>3 DEF WrLock, Waiting, Logging, lockVars, requestVars, TypeOK
  <2> QED
    BY <1>h, <1>3, <2>1, LogUntouched DEF WrLock, tableVars, Goal
<1>4. ASSUME NEW t \in Thread, Search(t) PROVE Goal
  <2>1. ASSUME NEW u \in Thread, NEW k \in Key
        PROVE  /\ Waiting(u, k)' <=> Waiting(u, k)
               /\ Logging(u, k)' <=> Logging(u, k)
               /\ req'[u] = req[u] /\ item'[u] = item[u]
    BY <1>0, <1>4 DEF Search, Waiting, Logging, lockVars, requestVars, TypeOK
  <2> QED
    BY <1>h, <1>4, <2>1, LogUntouched DEF Search, tableVars, Goal
<1>5. ASSUME NEW t \in Thread, ReadItem(t) PROVE Goal
  <2>1. \A k \in Key : req[t].key = k => logger[hash_function(k)] # t
    BY <1>i, <1>5 DEF ReadItem, HoldsLog
  <2>2. \A k \in Key : Content(k)' = Content(k)
    BY <1>5, <1>g DEF ReadItem
  <2>3. ASSUME NEW u \in Thread, NEW k \in Key
        PROVE  /\ Waiting(u, k)' <=> Waiting(u, k)
               /\ Logging(u, k)' <=> Logging(u, k)
               /\ Waiting(u, k) \/ Logging(u, k) => req'[u] = req[u] /\ item'[u] = item[u]
    BY <1>0, <1>5, <2>1 DEF ReadItem, Waiting, Logging, lockVars, TypeOK
  <2> QED
    BY <1>5, <2>2, <2>3, LogUntouched DEF ReadItem, Goal
<1>6. ASSUME NEW t \in Thread, InsertNew(t) PROVE Goal
  <2> SUFFICES ASSUME NEW kt \in Key, kt = req[t].key PROVE Goal
    BY <1>6, Serving DEF InsertNew
  <2>1. /\ Linked(kt, item[t])'
        /\ \A k \in Key \ {kt} : \A a : Linked(k, a)' <=> Linked(k, a)
    BY <1>6, InsertEffect DEF InsertNew, requestVars
  <2>2. ASSUME NEW k \in Key \ {kt} PROVE Content(k)' = Content(k)
    BY <1>f, <1>6, <2>1 DEF InsertNew, ContentFacts
  <2> QED
    BY <1>6, <2>1, <2>2, TableChanged
       DEF InsertNew, IsWrite, Writes, Goal, lockVars, requestVars
<1>7. ASSUME NEW t \in Thread, Overwrite(t) PROVE Goal
  <2> SUFFICES ASSUME NEW kt \in Key, kt = req[t].key PROVE Goal
    BY <1>7, Serving DEF Overwrite
  <2>1. /\ Linked(kt, item[t])'
        /\ \A k \in Key \ {kt} : \A a : Linked(k, a)' <=> Linked(k, a)
    BY <1>7, OverwriteEffect DEF Overwrite, requestVars
  <2>2. ASSUME NEW k \in Key \ {kt} PROVE Content(k)' = Content(k)
    BY <1>7, <2>1, OthersKeep DEF Overwrite
  <2> QED
    BY <1>7, <2>1, <2>2, TableChanged
       DEF Overwrite, IsWrite, Writes, Goal, lockVars, requestVars
<1>8. ASSUME NEW t \in Thread, InsertExists(t) PROVE Goal
  <2>1. \A k \in Key : req[t].key = k => logger[hash_function(k)] # t
    BY <1>i, <1>8 DEF InsertExists, HoldsLog
  <2>2. ASSUME NEW u \in Thread, NEW k \in Key
        PROVE  /\ Waiting(u, k)' <=> Waiting(u, k)
               /\ Logging(u, k)' <=> Logging(u, k)
               /\ req'[u] = req[u] /\ item'[u] = item[u]
    BY <1>0, <1>8, <2>1 DEF InsertExists, Waiting, Logging, lockVars, requestVars, TypeOK
  <2> QED
    BY <1>h, <1>8, <2>2, LogUntouched DEF InsertExists, tableVars, Goal
<1>9. ASSUME NEW t \in Thread, DeleteItem(t) PROVE Goal
  <2> SUFFICES ASSUME NEW kt \in Key, kt = req[t].key PROVE Goal
    BY <1>9, Serving DEF DeleteItem
  <2>1. /\ ~Has(kt)'
        /\ \A k \in Key \ {kt} : \A a : Linked(k, a)' <=> Linked(k, a)
    BY <1>9, DeleteEffect DEF DeleteItem, requestVars
  <2>2. ASSUME NEW k \in Key \ {kt} PROVE Content(k)' = Content(k)
    BY <1>9, <2>1, OthersKeep DEF DeleteItem
  <2> QED
    BY <1>9, <2>1, <2>2, TableChanged
       DEF DeleteItem, IsWrite, Writes, Goal, lockVars, requestVars
<1>10. ASSUME NEW t \in Thread, DeleteMissing(t) PROVE Goal
  <2>1. \A k \in Key : req[t].key = k => logger[hash_function(k)] # t
    BY <1>i, <1>10 DEF DeleteMissing, HoldsLog
  <2>2. ASSUME NEW u \in Thread, NEW k \in Key
        PROVE  /\ Waiting(u, k)' <=> Waiting(u, k)
               /\ Logging(u, k)' <=> Logging(u, k)
               /\ req'[u] = req[u] /\ item'[u] = item[u]
    BY <1>0, <1>10, <2>1 DEF DeleteMissing, Waiting, Logging, lockVars, requestVars, TypeOK
  <2> QED
    BY <1>h, <1>10, <2>2, LogUntouched DEF DeleteMissing, tableVars, Goal
<1>11. ASSUME NEW t \in Thread, LogLock(t) PROVE Goal
  BY <1>11, LogLockStep DEF Goal
<1>12. ASSUME NEW t \in Thread, Unlock(t) PROVE Goal
  <2>1. ASSUME NEW u \in Thread, NEW k \in Key
        PROVE  /\ Waiting(u, k)' <=> Waiting(u, k)
               /\ Logging(u, k)' <=> Logging(u, k)
               /\ req'[u] = req[u] /\ item'[u] = item[u]
    BY <1>0, <1>12 DEF Unlock, Waiting, Logging, requestVars, TypeOK, BucketOf
  <2> QED
    BY <1>h, <1>12, <2>1, LogUntouched DEF Unlock, tableVars, Goal
<1>13. ASSUME NEW t \in Thread, AppendLog(t) PROVE Goal
  BY <1>13, AppendLogStep DEF Goal
<1>14. ASSUME NEW t \in Thread, LogUnlock(t) PROVE Goal
  <2>1. BucketOf(t) \in Bucket /\ logger[BucketOf(t)] = t
    <3>1. BucketOf(t) \in Bucket
      BY <1>14, Serving DEF LogUnlock
    <3> QED
      BY <1>0, <1>14, <3>1 DEF LogUnlock, LocksKept, HoldsLog
  <2>2. ASSUME NEW u \in Thread, NEW k \in Key
        PROVE  /\ Waiting(u, k)' <=> Waiting(u, k)
               /\ Logging(u, k)' <=> Logging(u, k)
               /\ req'[u] = req[u] /\ item'[u] = item[u]
    <3>1. hash_function(k) \in Bucket
      BY BucketOfKey
    <3>2. u # t => (logger'[hash_function(k)] = u <=> logger[hash_function(k)] = u)
      BY <1>0, <1>14, <2>1, <3>1, NullAssumption DEF LogUnlock, TypeOK
    <3> QED
      BY <1>0, <1>14, <3>2 DEF LogUnlock, Waiting, Logging, requestVars, TypeOK
  <2> QED
    BY <1>h, <1>14, <2>2, LogUntouched DEF LogUnlock, tableVars, Goal
<1>15. ASSUME NEW t \in Thread, Send(t) \/ SendFails(t) PROVE Goal
  <2>1. /\ Finish(t)
        /\ \A b \in Bucket : \A n \in 1 .. Len(table[b]) :
             heap'[table[b][n].item] = heap[table[b][n].item]
    BY <1>15, Finished
  <2>2. \A k \in Key : Content(k)' = Content(k)
    BY <2>1, SameContent DEF Finish
  <2>3. ASSUME NEW u \in Thread, NEW k \in Key
        PROVE  /\ Waiting(u, k)' <=> Waiting(u, k)
               /\ Logging(u, k)' <=> Logging(u, k)
               /\ Waiting(u, k) \/ Logging(u, k) => req'[u] = req[u] /\ item'[u] = item[u]
    BY <1>0, <2>1 DEF Finish, Waiting, Logging, lockVars, TypeOK
  <2> QED
    BY <2>1, <2>2, <2>3, LogUntouched DEF Finish, Goal
<1>16. CASE UNCHANGED vars
  <2>1. ASSUME NEW u \in Thread, NEW k \in Key
        PROVE  /\ Waiting(u, k)' <=> Waiting(u, k)
               /\ Logging(u, k)' <=> Logging(u, k)
               /\ req'[u] = req[u] /\ item'[u] = item[u]
    BY <1>16 DEF vars, Waiting, Logging
  <2> QED
    BY <1>h, <1>16, <2>1, LogUntouched DEF vars, Goal
<1>17. ASSUME NEW t \in Thread, ReadMissing(t) PROVE Goal
  <2>1. \A k \in Key : req[t].key = k => logger[hash_function(k)] # t
    BY <1>i, <1>17 DEF ReadMissing, HoldsLog
  <2>2. ASSUME NEW u \in Thread, NEW k \in Key
        PROVE  /\ Waiting(u, k)' <=> Waiting(u, k)
               /\ Logging(u, k)' <=> Logging(u, k)
               /\ req'[u] = req[u] /\ item'[u] = item[u]
    BY <1>0, <1>17, <2>1 DEF ReadMissing, Waiting, Logging, lockVars, requestVars, TypeOK
  <2> QED
    BY <1>h, <1>17, <2>2, LogUntouched DEF ReadMissing, tableVars, Goal
<1>18. ASSUME NEW t \in Thread, ReceiveFails(t) PROVE Goal
  <2>1. \A k \in Key : Content(k)' = Content(k)
    BY <1>18, <1>g DEF ReceiveFails
  <2>2. ASSUME NEW u \in Thread, NEW k \in Key
        PROVE  /\ Waiting(u, k)' <=> Waiting(u, k)
               /\ Logging(u, k)' <=> Logging(u, k)
               /\ req'[u] = req[u] /\ item'[u] = item[u]
    BY <1>18 DEF ReceiveFails, Waiting, Logging, lockVars
  <2> QED
    BY <1>18, <2>1, <2>2, LogUntouched DEF ReceiveFails, Goal
<1> QED
  BY <1>1, <1>2, <1>3, <1>4, <1>5, <1>6, <1>7, <1>8, <1>9, <1>10, <1>11,
     <1>12, <1>13, <1>14, <1>15, <1>16, <1>17, <1>18 DEF Next, Step, Goal

(* IInv is inductive.                                                      *)
LEMMA NextInvariant == IInv /\ [Next]_vars => IInv'
<1> SUFFICES ASSUME IInv, [Next]_vars PROVE IInv'
  OBVIOUS
<1>1. TypeOK'
  BY TypeStep
<1>2. RequestsKept' /\ LocksKept' /\ CursorsKept'
  BY RequestsStep, LocksStep, CursorsStep
<1>3. ChainsWellFormed' /\ NoDanglingItem' /\ NoSharedItem'
  BY ChainsStep, OwnersStep
<1>4. ChangesKept' /\ LogFollowsTable'
  BY <1>1, <1>3, LogStep
<1> QED
  BY <1>1, <1>2, <1>3, <1>4 DEF IInv

-----------------------------------------------------------------------------
(* Theorems.                                                               *)

(* IInv holds in every state of every behaviour of the store.              *)
THEOREM Invariance == Spec => []IInv
  BY InitInvariant, NextInvariant, PTL DEF Spec

(* Every variable keeps its type.                                          *)
THEOREM TypeCorrect == Spec => []TypeOK
<1>1. IInv => TypeOK
  BY DEF IInv
<1> QED
  BY <1>1, Invariance, PTL

(* insert_item and delete_item never leave a key twice in a chain, nor in  *)
(* the chain of another bucket.                                            *)
THEOREM ChainsCorrect == Spec => []ChainsWellFormed
<1>1. IInv => ChainsWellFormed
  BY DEF IInv
<1> QED
  BY <1>1, Invariance, PTL

(* No freed item is ever in the table or in the hands of its owner.        *)
THEOREM NoUseOfFreedItem == Spec => []NoDanglingItem
<1>1. IInv => NoDanglingItem
  BY DEF IInv
<1> QED
  BY <1>1, Invariance, PTL

(* No item is ever owned twice, so that none is freed twice.               *)
THEOREM NoDoubleFree == Spec => []NoSharedItem
<1>1. IInv => NoSharedItem
  BY DEF IInv
<1> QED
  BY <1>1, Invariance, PTL

(* The bucket locks exclude: from lock to unlock a writer is alone in its  *)
(* bucket.                                                                 *)
THEOREM Exclusion == Spec => []BucketExclusive
<1>1. IInv => BucketExclusive
  <2> SUFFICES ASSUME IInv, NEW t \in Thread, NEW u \in Thread, t # u,
                      InBucket(t), InBucket(u), BucketOf(t) = BucketOf(u)
               PROVE  req[t].op = "READ_REQ" /\ req[u].op = "READ_REQ"
    BY DEF BucketExclusive
  <2>1. BucketOf(t) \in Bucket
    BY Serving DEF InBucket
  <2> QED
    BY <2>1, NullAssumption DEF IInv, LocksKept
<1> QED
  BY <1>1, Invariance, PTL

(* However many threads race for the bucket and the log mutex of a key:    *)
(* once its changes are logged, the last record about it is what the table *)
(* holds.                                                                  *)
THEOREM LogOrder == Spec => []LogFollowsTable
<1>1. IInv => LogFollowsTable
  BY DEF IInv
<1> QED
  BY <1>1, Invariance, PTL

-----------------------------------------------------------------------------
(* No item is leaked, and every step is one of KVStore or leaves what      *)
(* clients see alone.                                                      *)


InTable(a) == \E b \in Bucket : \E n \in 1 .. Len(table[b]) : table[b][n].item = a

(* A step that neither allocates nor takes an owner away.                  *)
LEMMA StillOwned ==
  ASSUME OnlyFailuresLeak, lost \subseteq lost',
         \A a \in Item : heap'[a] # NULL => heap[a] # NULL,
         \A a \in Item : heap'[a] # NULL /\ InTable(a) => InTable(a)',
         \A u \in Thread : OwnsItem(u) =>
           \/ OwnsItem(u)' /\ item'[u] = item[u]
           \/ heap'[item[u]] = NULL
           \/ item[u] \in lost'
           \/ item'[u] = item[u] /\ InTable(item[u])'
  PROVE  OnlyFailuresLeak'
<1> SUFFICES ASSUME NEW a \in Item, heap'[a] # NULL, a \notin lost'
             PROVE  Owned(a)'
  BY DEF OnlyFailuresLeak
<1>1. Owned(a)
  BY DEF OnlyFailuresLeak
<1>2. CASE InTable(a)
  BY <1>2 DEF Owned, InTable
<1>3. CASE \E u \in Thread : OwnsItem(u) /\ item[u] = a
  <2>1. PICK u \in Thread : OwnsItem(u) /\ item[u] = a
    BY <1>3
  <2>2. CASE OwnsItem(u)' /\ item'[u] = a
    BY <2>2 DEF Owned
  <2>3. CASE item'[u] = a /\ InTable(item[u])'
    BY <2>3 DEF Owned, InTable
  <2> QED
    BY <2>1, <2>2, <2>3
<1> QED
  BY <1>1, <1>2, <1>3 DEF Owned, InTable

(* malloc gives its item to a thread; insert_item hands it to the table or *)
(* back; item_delete, delete_hitem and destroy_struct free what they take  *)
(* out.                                                                    *)
LEMMA LeakStep == IInv /\ OnlyFailuresLeak /\ [Next]_vars => OnlyFailuresLeak'
<1> SUFFICES ASSUME IInv, OnlyFailuresLeak, [Next]_vars PROVE OnlyFailuresLeak'
  OBVIOUS
<1>0. TypeOK /\ RequestsKept
  BY DEF IInv
<1> USE DEF Goto, lockVars, tableVars, requestVars, TypeOK
<1>a. /\ Written(0) # Written(999) /\ Deleted(1) # Written(999)
      /\ Deleted(0) # Written(999) /\ NotFound # Written(999)
      /\ \A v : Found(v) # Written(999)
  BY DEF Written, Deleted, Found, NotFound
<1>b. ASSUME UNCHANGED <<tableVars, lost>>,
             \A u \in Thread : OwnsItem(u) => OwnsItem(u)' /\ item'[u] = item[u]
      PROVE  OnlyFailuresLeak'
  BY <1>b, StillOwned DEF InTable
<1>g. ASSUME NEW a \in Item, heap[a] = NULL, NEW v, heap' = [heap EXCEPT ![a] = v],
             table' = table, Owned(a)' \/ a \in lost', lost \subseteq lost',
             \A u \in Thread : OwnsItem(u) => OwnsItem(u)' /\ item'[u] = item[u]
      PROVE  OnlyFailuresLeak'
  <2> SUFFICES ASSUME NEW x \in Item, x # a, heap'[x] # NULL, x \notin lost'
               PROVE  Owned(x)'
    BY <1>g DEF OnlyFailuresLeak
  <2>1. Owned(x)
    BY <1>0, <1>g DEF OnlyFailuresLeak
  <2> QED
    BY <1>g, <2>1 DEF Owned
<1>1. ASSUME NEW t \in Thread, NEW r \in Request, Receive(t, r)
      PROVE  OnlyFailuresLeak'
  <2>1. \A u \in Thread : OwnsItem(u) => u # t
    BY <1>1 DEF Receive, OwnsItem
  <2>2. \A u \in Thread \ {t} : OwnsItem(u) => OwnsItem(u)' /\ item'[u] = item[u]
    BY <1>0, <1>1 DEF Receive, OwnsItem, IsWrite, Refused, Copied
  <2>3. CASE r.op \in Writes
    <3>1. PICK a \in Item : /\ heap[a] = NULL
                           /\ heap' = [heap EXCEPT ![a] = r.val]
                           /\ item' = [item EXCEPT ![t] = a]
      BY <1>1, <2>3 DEF Receive, Free
    <3>2. OwnsItem(t)' /\ item'[t] = a
      BY <1>0, <1>1, <2>3, <3>1 DEF Receive, OwnsItem, IsWrite, Refused, Copied
    <3>3. Owned(a)'
      BY <3>2 DEF Owned
    <3>4. table' = table /\ lost' = lost
      BY <1>1 DEF Receive
    <3> QED
      BY <1>g, <2>1, <2>2, <3>1, <3>3, <3>4
  <2>4. CASE r.op \notin Writes
    <3>1. table' = table /\ heap' = heap /\ lost' = lost
      BY <1>1, <2>4 DEF Receive
    <3> QED
      BY <1>b, <2>1, <2>2, <3>1
  <2> QED
    BY <2>3, <2>4
<1>2. ASSUME NEW t \in Thread, RdLock(t) PROVE OnlyFailuresLeak'
  BY <1>0, <1>b, <1>2 DEF RdLock, OwnsItem, IsWrite, Refused, Copied
<1>3. ASSUME NEW t \in Thread, WrLock(t) PROVE OnlyFailuresLeak'
  BY <1>0, <1>b, <1>3 DEF WrLock, OwnsItem, IsWrite, Refused, Copied
<1>4. ASSUME NEW t \in Thread, Search(t) PROVE OnlyFailuresLeak'
  BY <1>0, <1>b, <1>4 DEF Search, OwnsItem, IsWrite, Refused, Copied
<1>5. ASSUME NEW t \in Thread, ReadItem(t) PROVE OnlyFailuresLeak'
  <2>1. \A u \in Thread : OwnsItem(u) => u # t
    BY <1>5 DEF ReadItem, OwnsItem, IsWrite, Writes, Refused, Copied
  <2>2. \A u \in Thread \ {t} : OwnsItem(u) => OwnsItem(u)' /\ item'[u] = item[u]
    BY <1>0, <1>5 DEF ReadItem, OwnsItem, IsWrite, Refused, Copied
  <2>3. PICK a \in Item : /\ heap[a] = NULL
                         /\ heap' = [heap EXCEPT ![a] = heap[ItemFound(t)]]
                         /\ item' = [item EXCEPT ![t] = a]
    BY <1>5 DEF ReadItem, Free
  <2>4. OwnsItem(t)' /\ item'[t] = a
    BY <1>0, <1>5, <2>3 DEF ReadItem, OwnsItem, Copied, Found, NotFound
  <2>5. Owned(a)'
    BY <2>4 DEF Owned
  <2>6. table' = table /\ lost' = lost
    BY <1>5 DEF ReadItem
  <2> QED
    BY <1>g, <2>1, <2>2, <2>3, <2>5, <2>6
<1>6. ASSUME NEW t \in Thread, InsertNew(t) PROVE OnlyFailuresLeak'
  <2> SUFFICES ASSUME NEW b \in Bucket, b = BucketOf(t) PROVE OnlyFailuresLeak'
    BY <1>6, Serving DEF InsertNew
  <2>1. /\ table[b] \in Seq(Entry)
        /\ Len(table'[b]) = Len(table[b]) + 1
        /\ \A n \in 1 .. Len(table[b]) : table'[b][n] = table[b][n]
        /\ table'[b][Len(table[b]) + 1] = [key |-> req[t].key, item |-> item[t]]
        /\ \A c \in Bucket \ {b} : table'[c] = table[c]
    BY <1>6, Inserted
  <2>2. \A n \in 1 .. Len(table[b]) + 1 : n \in 1 .. Len(table'[b])
    BY <2>1
  <2>3. Len(table[b]) + 1 \in 1 .. Len(table[b]) + 1
    BY <2>1
  <2>4. \A n \in 1 .. Len(table[b]) : n \in 1 .. Len(table[b]) + 1
    BY <2>1
  <2>5. InTable(item[t])'
    BY <1>6, <2>1, <2>2, <2>3 DEF InTable, InsertNew
  <2>6. \A a \in Item : InTable(a) => InTable(a)'
    BY <2>1, <2>2, <2>4 DEF InTable
  <2>7. heap' = heap
    BY <1>6 DEF InsertNew
  <2>8. \A u \in Thread : u # t /\ OwnsItem(u) => OwnsItem(u)' /\ item'[u] = item[u]
    BY <1>0, <1>6 DEF InsertNew, OwnsItem, IsWrite, Refused, Copied
  <2>9. item'[t] = item[t]
    BY <1>6 DEF InsertNew
  <2>10. lost \subseteq lost'
    BY <1>6 DEF InsertNew
  <2> QED
    BY <2>5, <2>6, <2>7, <2>8, <2>9, <2>10, StillOwned
<1>7. ASSUME NEW t \in Thread, Overwrite(t) PROVE OnlyFailuresLeak'
  <2> SUFFICES ASSUME NEW b \in Bucket, b = BucketOf(t) PROVE OnlyFailuresLeak'
    BY <1>7, Serving DEF Overwrite
  <2>1. /\ cursor[t] \in 1 .. Len(table[b])
        /\ Len(table'[b]) = Len(table[b])
        /\ \A n \in 1 .. Len(table[b]) : n # cursor[t] => table'[b][n] = table[b][n]
        /\ table'[b][cursor[t]] = [key |-> req[t].key, item |-> item[t]]
        /\ \A c \in Bucket \ {b} : table'[c] = table[c]
    BY <1>7, Overwritten
  <2>2. /\ ItemFound(t) = table[b][cursor[t]].item
        /\ ItemFound(t) \in Item
        /\ heap' = [heap EXCEPT ![ItemFound(t)] = NULL]
    BY <1>7, Finding DEF Overwrite
  <2>3. \A a \in Item : heap'[a] # NULL => heap[a] # NULL /\ a # ItemFound(t)
    BY <1>0, <2>2
  <2>4. InTable(item[t])'
    BY <1>7, <2>1 DEF InTable, Overwrite
  <2>5. \A a \in Item : heap'[a] # NULL /\ InTable(a) => InTable(a)'
    BY <2>1, <2>2, <2>3 DEF InTable
  <2>6. \A u \in Thread : u # t /\ OwnsItem(u) => OwnsItem(u)' /\ item'[u] = item[u]
    BY <1>0, <1>7 DEF Overwrite, OwnsItem, IsWrite, Refused, Copied
  <2>7. item'[t] = item[t]
    BY <1>7 DEF Overwrite
  <2>10. lost \subseteq lost'
    BY <1>7 DEF Overwrite
  <2> QED
    BY <2>3, <2>4, <2>5, <2>6, <2>7, <2>10, StillOwned
<1>8. ASSUME NEW t \in Thread, InsertExists(t) PROVE OnlyFailuresLeak'
  BY <1>0, <1>b, <1>8 DEF InsertExists, OwnsItem, IsWrite, Refused, Copied
<1>9. ASSUME NEW t \in Thread, DeleteItem(t) PROVE OnlyFailuresLeak'
  <2> SUFFICES ASSUME NEW b \in Bucket, b = BucketOf(t) PROVE OnlyFailuresLeak'
    BY <1>9, Serving DEF DeleteItem
  <2>1. /\ cursor[t] \in 1 .. Len(table[b])
        /\ Len(table[b]) \in Nat
        /\ Len(table'[b]) = Len(table[b]) - 1
        /\ \A n \in 1 .. Len(table[b]) - 1 :
             table'[b][n] = IF n < cursor[t] THEN table[b][n] ELSE table[b][n + 1]
        /\ \A c \in Bucket \ {b} : table'[c] = table[c]
    BY <1>9, Unlinked
  <2>2. /\ ItemFound(t) = table[b][cursor[t]].item
        /\ ItemFound(t) \in Item
        /\ heap' = [heap EXCEPT ![ItemFound(t)] = NULL]
    BY <1>9, Finding DEF DeleteItem
  <2>3. \A a \in Item : heap'[a] # NULL => heap[a] # NULL /\ a # ItemFound(t)
    BY <1>0, <2>2
  <2>4. ASSUME NEW m \in 1 .. Len(table[b]), m # cursor[t]
        PROVE  \E n \in 1 .. Len(table'[b]) : table'[b][n] = table[b][m]
    <3>1. CASE m < cursor[t]
      BY <2>1, <3>1
    <3>2. CASE ~(m < cursor[t])
      <4>1. /\ m - 1 \in 1 .. Len(table'[b])
            /\ ~(m - 1 < cursor[t])
            /\ (m - 1) + 1 = m
        BY <2>1, <2>4, <3>2
      <4> QED
        BY <2>1, <4>1
    <3> QED
      BY <3>1, <3>2
  <2>5. ASSUME NEW a \in Item, heap'[a] # NULL, InTable(a) PROVE InTable(a)'
    <3>1. PICK c \in Bucket : \E m \in 1 .. Len(table[c]) : table[c][m].item = a
      BY <2>5 DEF InTable
    <3>2. PICK m \in 1 .. Len(table[c]) : table[c][m].item = a
      BY <3>1
    <3>3. \E n \in 1 .. Len(table'[c]) : table'[c][n] = table[c][m]
      <4>1. CASE c = b
        <5>1. m # cursor[t]
          BY <2>2, <2>3, <2>5, <3>2, <4>1
        <5> QED
          BY <2>4, <4>1, <5>1
      <4>2. CASE c # b
        BY <2>1, <4>2
      <4> QED
        BY <4>1, <4>2
    <3> QED
      BY <3>2, <3>3 DEF InTable
  <2>6. \A u \in Thread : OwnsItem(u) => OwnsItem(u)' /\ item'[u] = item[u]
    BY <1>0, <1>9 DEF DeleteItem, OwnsItem, IsWrite, Writes, Refused, Copied
  <2>10. lost \subseteq lost'
    BY <1>9 DEF DeleteItem
  <2> QED
    BY <2>3, <2>5, <2>6, <2>10, StillOwned
<1>10. ASSUME NEW t \in Thread, DeleteMissing(t) PROVE OnlyFailuresLeak'
  BY <1>0, <1>b, <1>10 DEF DeleteMissing, OwnsItem, IsWrite, Writes, Refused, Copied
<1>11. ASSUME NEW t \in Thread, LogLock(t) PROVE OnlyFailuresLeak'
  BY <1>0, <1>b, <1>11 DEF LogLock, OwnsItem, IsWrite, Refused, Copied
<1>12. ASSUME NEW t \in Thread, Unlock(t) PROVE OnlyFailuresLeak'
  <2>1. Refused(t) \/ Copied(t) => logger[BucketOf(t)] # t
    <3>1. BucketOf(t) \in Bucket /\ pc[t] = "unlock"
      BY <1>12, Serving DEF Unlock
    <3>2. logger[BucketOf(t)] = t => HoldsLog(t)
      BY <3>1 DEF IInv, LocksKept
    <3>3. HoldsLog(t) => Changed(t) /\ req[t].op # "READ_REQ"
      BY <1>0, <3>1 DEF HoldsLog, RequestsKept
    <3> QED
      BY <1>a, <3>2, <3>3 DEF Changed, Refused, Copied
  <2>2. \A u \in Thread : OwnsItem(u) => OwnsItem(u)' /\ item'[u] = item[u]
    BY <1>0, <1>12, <2>1 DEF Unlock, OwnsItem, IsWrite, Refused, Copied
  <2> QED
    BY <1>b, <1>12, <2>2 DEF Unlock
<1>13. ASSUME NEW t \in Thread, AppendLog(t) PROVE OnlyFailuresLeak'
  BY <1>0, <1>b, <1>13 DEF AppendLog, OwnsItem, IsWrite, Refused, Copied
<1>14. ASSUME NEW t \in Thread, LogUnlock(t) PROVE OnlyFailuresLeak'
  BY <1>0, <1>b, <1>14 DEF LogUnlock, OwnsItem, IsWrite, Refused, Copied
<1>15. ASSUME NEW t \in Thread, Send(t) \/ SendFails(t) PROVE OnlyFailuresLeak'
  <2>1. /\ Finish(t)
        /\ lost \subseteq lost'
        /\ \/ OwnsItem(t) /\ heap' = [heap EXCEPT ![item[t]] = NULL]
           \/ heap' = heap /\ (OwnsItem(t) => item[t] \in lost')
    BY <1>15, Finished
  <2>2. table' = table
    BY <2>1 DEF Finish
  <2>3. \A u \in Thread : u # t /\ OwnsItem(u) => OwnsItem(u)' /\ item'[u] = item[u]
    BY <1>0, <2>1 DEF Finish, OwnsItem, IsWrite, Refused, Copied
  <2>4. CASE OwnsItem(t) /\ heap' = [heap EXCEPT ![item[t]] = NULL]
    <3>1. heap'[item[t]] = NULL
      BY <2>4, Release
    <3>2. \A a \in Item : heap'[a] # NULL => heap[a] # NULL
      BY <1>0, <2>4
    <3> QED
      BY <2>1, <2>2, <2>3, <3>1, <3>2, StillOwned DEF InTable
  <2>5. CASE heap' = heap /\ (OwnsItem(t) => item[t] \in lost')
    BY <2>1, <2>2, <2>3, <2>5, StillOwned DEF InTable
  <2> QED
    BY <2>1, <2>4, <2>5
<1>16. CASE UNCHANGED vars
  BY <1>0, <1>b, <1>16 DEF vars, OwnsItem, IsWrite, Refused, Copied
<1>17. ASSUME NEW t \in Thread, ReadMissing(t) PROVE OnlyFailuresLeak'
  BY <1>0, <1>b, <1>17 DEF ReadMissing, OwnsItem, IsWrite, Writes, Refused, Copied
<1>18. ASSUME NEW t \in Thread, ReceiveFails(t) PROVE OnlyFailuresLeak'
  <2>1. PICK a \in Item : /\ heap[a] = NULL
                         /\ heap' = [heap EXCEPT ![a] = Garbage]
                         /\ lost' = lost \cup {a}
    BY <1>18 DEF ReceiveFails, Free
  <2>2. /\ table' = table
        /\ \A u \in Thread : OwnsItem(u) => OwnsItem(u)' /\ item'[u] = item[u]
    BY <1>18 DEF ReceiveFails, OwnsItem, IsWrite, Refused, Copied
  <2> QED
    BY <1>g, <2>1, <2>2
<1> QED
  BY <1>1, <1>2, <1>3, <1>4, <1>5, <1>6, <1>7, <1>8, <1>9, <1>10, <1>11,
     <1>12, <1>13, <1>14, <1>15, <1>16, <1>17, <1>18 DEF Next, Step

(* Nobody loses an item but the handlers whose connection fails: malloc    *)
(* gives it to a thread, insert_item to the table or back, and it is freed *)
(* by the one who holds it last.                                           *)
THEOREM LeaksFromFailures == Spec => []OnlyFailuresLeak
<1>1. Init => OnlyFailuresLeak
  BY DEF Init, OnlyFailuresLeak
<1> QED
  BY <1>1, LeakStep, Invariance, PTL DEF Spec

-----------------------------------------------------------------------------
(* The refinement of KVStore.                                              *)

KVNext == [KV!Next]_(KV!vars)

(* The store begins as an empty map.                                       *)
LEMMA InitRefines == Init => KV!Init
<1> SUFFICES ASSUME Init PROVE KV!Init
  OBVIOUS
<1>1. \A k \in Key : Content(k) = NULL
  BY BucketOfKey DEF Init, Content, Has, Chain
<1>2. \A t \in Thread : Phase(t) = "idle"
  BY DEF Init, Phase
<1> QED
  BY <1>1, <1>2 DEF Init, KV!Init

(* Steps that clients do not see: the ones between the locks and the log.  *)
LEMMA Unseen ==
  ASSUME IInv, NEW t \in Thread, NEW label \in Label,
         pc' = [pc EXCEPT ![t] = label], Phase(t)' = Phase(t),
         UNCHANGED <<table, heap, req, reply>>
  PROVE  KVNext
<1>1. \A k \in Key : Content(k)' = Content(k)
  BY SameContent
<1>2. \A u \in Thread : Phase(u)' = Phase(u)
  BY DEF Phase, IInv, TypeOK
<1> QED
  BY <1>1, <1>2 DEF KVNext, KV!vars

(* The step on which a request takes effect: t answers as the map would    *)
(* and leaves what the map would leave.                                    *)
LEMMA TakesEffect ==
  ASSUME IInv, NEW t \in Thread, pc[t] = "act",
         NEW label \in {"log_lock", "unlock"}, pc' = [pc EXCEPT ![t] = label],
         reply' = [reply EXCEPT ![t] = KV!Answer(req[t])], req' = req,
         [k \in Key |-> Content(k)]' = KV!Outcome(req[t])
  PROVE  KVNext
<1>1. Phase(t) = "called" /\ Phase(t)' = "done"
  BY DEF Phase, IInv, TypeOK
<1>2. \A u \in Thread \ {t} : Phase(u)' = Phase(u)
  BY DEF Phase, IInv, TypeOK
<1>3. [u \in Thread |-> Phase(u)]' = [[u \in Thread |-> Phase(u)] EXCEPT ![t] = "done"]
  BY <1>1, <1>2
<1>4. KV!TakeEffect(t)
  BY <1>1, <1>3 DEF KV!TakeEffect
<1> QED
  BY <1>4 DEF KVNext, KV!Next

(* Until insert_item takes it, an item holds what the client wrote.        *)
ItemsFilled ==
  \A t \in Thread :
    pc[t] \in {"lock", "search", "act"} /\ IsWrite(t) => heap[item[t]] = req[t].val

(* A step of t leaves the items of other threads alone.                    *)
LEMMA OthersFilled ==
  ASSUME IInv, ItemsFilled, NEW t \in Thread, NEW label \in Label,
         pc' = [pc EXCEPT ![t] = label],
         label \in {"lock", "search", "act"} => UNCHANGED heap,
         \A u \in Thread \ {t} : req'[u] = req[u] /\ item'[u] = item[u],
         label \in {"lock", "search", "act"} =>
           /\ pc[t] \in {"lock", "search", "act"}
           /\ req'[t] = req[t] /\ item'[t] = item[t],
         \A u \in Thread \ {t} : OwnsItem(u) => heap'[item[u]] = heap[item[u]]
  PROVE  ItemsFilled'
<1> SUFFICES ASSUME NEW u \in Thread, pc'[u] \in {"lock", "search", "act"}, IsWrite(u)'
             PROVE  heap'[item'[u]] = req'[u].val
  BY DEF ItemsFilled
<1>1. CASE u = t
  BY <1>1 DEF ItemsFilled, IInv, TypeOK, IsWrite
<1>2. CASE u # t
  BY <1>2 DEF ItemsFilled, IInv, TypeOK, IsWrite, OwnsItem
<1> QED
  BY <1>1, <1>2

LEMMA FilledStep == IInv /\ ItemsFilled /\ [Next]_vars => ItemsFilled'
<1> SUFFICES ASSUME IInv, ItemsFilled, [Next]_vars PROVE ItemsFilled'
  OBVIOUS
<1>0. TypeOK
  BY DEF IInv
<1> USE DEF Goto, lockVars, tableVars, requestVars, Label
<1>1. ASSUME NEW t \in Thread, NEW r \in Request, Receive(t, r) PROVE ItemsFilled'
  <2> SUFFICES ASSUME NEW u \in Thread, pc'[u] \in {"lock", "search", "act"}, IsWrite(u)'
               PROVE  heap'[item'[u]] = req'[u].val
    BY DEF ItemsFilled
  <2>1. CASE u = t
    <3>1. r.op \in Writes
      BY <1>0, <1>1, <2>1 DEF Receive, TypeOK, IsWrite
    <3>2. PICK a \in Free : /\ heap' = [heap EXCEPT ![a] = r.val]
                           /\ item' = [item EXCEPT ![t] = a]
      BY <1>1, <3>1 DEF Receive
    <3>3. heap'[a] = r.val /\ item'[t] = a
      BY <1>0, <3>2 DEF TypeOK, Free
    <3>4. req'[t] = r
      BY <1>0, <1>1 DEF Receive, TypeOK
    <3> QED
      BY <2>1, <3>3, <3>4
  <2>2. CASE u # t
    <3>1. pc[u] \in {"lock", "search", "act"} /\ IsWrite(u) /\ req'[u] = req[u]
      BY <1>0, <1>1, <2>2 DEF Receive, TypeOK, IsWrite
    <3>2. item'[u] = item[u]
      BY <1>0, <1>1, <2>2 DEF Receive, TypeOK
    <3>3. item[u] \in Item /\ heap[item[u]] # NULL
      BY <3>1 DEF IInv, NoDanglingItem, OwnsItem
    <3>4. heap'[item[u]] = heap[item[u]]
      BY <1>0, <1>1, <3>3 DEF Receive, TypeOK, Free
    <3> QED
      BY <3>1, <3>2, <3>4 DEF ItemsFilled
  <2> QED
    BY <2>1, <2>2
<1>2. ASSUME NEW t \in Thread, RdLock(t) PROVE ItemsFilled'
  BY <1>2, OthersFilled DEF RdLock
<1>3. ASSUME NEW t \in Thread, WrLock(t) PROVE ItemsFilled'
  BY <1>3, OthersFilled DEF WrLock
<1>4. ASSUME NEW t \in Thread, Search(t) PROVE ItemsFilled'
  BY <1>4, OthersFilled DEF Search
<1>5. ASSUME NEW t \in Thread, ReadItem(t) PROVE ItemsFilled'
  <2>1. PICK a \in Item : /\ heap[a] = NULL
                         /\ heap' = [heap EXCEPT ![a] = heap[ItemFound(t)]]
    BY <1>5 DEF ReadItem, Free
  <2>2. \A u \in Thread : OwnsItem(u) =>
          item[u] # a /\ heap'[item[u]] = heap[item[u]]
    BY <2>1, Allocation
  <2>3. /\ pc' = [pc EXCEPT ![t] = "unlock"]
        /\ \A u \in Thread \ {t} : req'[u] = req[u] /\ item'[u] = item[u]
    BY <1>0, <1>5 DEF ReadItem, TypeOK
  <2> QED
    BY <2>2, <2>3, OthersFilled
<1>6. ASSUME NEW t \in Thread, InsertNew(t) PROVE ItemsFilled'
  BY <1>6, OthersFilled DEF InsertNew
<1>7. ASSUME NEW t \in Thread, Overwrite(t) \/ DeleteItem(t) PROVE ItemsFilled'
  <2>1. /\ pc[t] = "act" /\ ~Missed(t)
        /\ heap' = [heap EXCEPT ![ItemFound(t)] = NULL]
    BY <1>7 DEF Overwrite, DeleteItem
  <2>2. /\ BucketOf(t) \in Bucket /\ cursor[t] \in 1 .. Len(table[BucketOf(t)])
        /\ ItemFound(t) = table[BucketOf(t)][cursor[t]].item
    BY <2>1, Serving, Finding
  <2>3. \A u \in Thread \ {t} : OwnsItem(u) => item[u] # ItemFound(t) /\ item[u] \in Item
    BY <2>2 DEF IInv, NoSharedItem, NoDanglingItem
  <2>4. \A u \in Thread \ {t} : OwnsItem(u) => heap'[item[u]] = heap[item[u]]
    BY <1>0, <2>1, <2>3 DEF TypeOK
  <2> QED
    BY <1>7, <2>4, OthersFilled DEF Overwrite, DeleteItem
<1>8. ASSUME NEW t \in Thread, InsertExists(t) PROVE ItemsFilled'
  BY <1>8, OthersFilled DEF InsertExists
<1>9. ASSUME NEW t \in Thread, DeleteMissing(t) PROVE ItemsFilled'
  BY <1>9, OthersFilled DEF DeleteMissing
<1>10. ASSUME NEW t \in Thread, LogLock(t) PROVE ItemsFilled'
  BY <1>10, OthersFilled DEF LogLock
<1>11. ASSUME NEW t \in Thread, Unlock(t) PROVE ItemsFilled'
  <2> DEFINE label == IF logger[BucketOf(t)] = t THEN "log" ELSE "send"
  <2>1. label \in {"log", "send"} /\ pc' = [pc EXCEPT ![t] = label]
    BY <1>11 DEF Unlock
  <2> HIDE DEF label
  <2> QED
    BY <1>11, <2>1, OthersFilled DEF Unlock
<1>12. ASSUME NEW t \in Thread, AppendLog(t) PROVE ItemsFilled'
  BY <1>12, OthersFilled DEF AppendLog
<1>13. ASSUME NEW t \in Thread, LogUnlock(t) PROVE ItemsFilled'
  BY <1>13, OthersFilled DEF LogUnlock
<1>14. ASSUME NEW t \in Thread, Send(t) \/ SendFails(t) PROVE ItemsFilled'
  <2>1. /\ Finish(t)
        /\ \A u \in Thread \ {t} : OwnsItem(u) => heap'[item[u]] = heap[item[u]]
    BY <1>14, Finished
  <2>2. /\ pc' = [pc EXCEPT ![t] = "recv"]
        /\ \A u \in Thread \ {t} : req'[u] = req[u] /\ item'[u] = item[u]
    BY <1>0, <2>1 DEF Finish, TypeOK
  <2> QED
    BY <2>1, <2>2, OthersFilled
<1>15. CASE UNCHANGED vars
  BY <1>15 DEF vars, ItemsFilled, IsWrite
<1>17. ASSUME NEW t \in Thread, ReadMissing(t) PROVE ItemsFilled'
  BY <1>17, OthersFilled DEF ReadMissing
<1>18. ASSUME NEW t \in Thread, ReceiveFails(t) PROVE ItemsFilled'
  <2>1. PICK a \in Item : heap[a] = NULL /\ heap' = [heap EXCEPT ![a] = Garbage]
    BY <1>18 DEF ReceiveFails, Free
  <2>2. \A u \in Thread : OwnsItem(u) =>
          item[u] # a /\ heap'[item[u]] = heap[item[u]]
    BY <2>1, Allocation
  <2>3. pc' = pc /\ req' = req /\ item' = item
    BY <1>18 DEF ReceiveFails
  <2> QED
    BY <2>2, <2>3 DEF ItemsFilled, OwnsItem, IsWrite
<1> QED
  BY <1>1, <1>2, <1>3, <1>4, <1>5, <1>6, <1>7, <1>8, <1>9, <1>10, <1>11,
     <1>12, <1>13, <1>14, <1>15, <1>17, <1>18 DEF Next, Step

(* What the search of t found is what the map holds under its key.         *)
LEMMA SearchIsRight ==
  ASSUME IInv, NEW t \in Thread, pc[t] = "act"
  PROVE  /\ req[t] \in KV!Request /\ req[t].key \in Key
         /\ Missed(t) => Content(req[t].key) = NULL
         /\ ~Missed(t) => /\ Content(req[t].key) = heap[ItemFound(t)]
                          /\ Content(req[t].key) # NULL
<1> DEFINE k == req[t].key
<1>1. req[t] \in KV!Request /\ k \in Key /\ Chain(k) = table[BucketOf(t)]
  BY Serving DEF Request, KV!Request, Writes, KV!Writes
<1>2. CASE Missed(t)
  BY <1>1, <1>2 DEF IInv, CursorsKept, Content
<1>3. CASE ~Missed(t)
  <2>1. /\ cursor[t] \in 1 .. Len(Chain(k))
        /\ Chain(k)[cursor[t]].key = k
        /\ heap[ItemFound(t)] \in Bytes
    BY <1>1, <1>3, Finding
  <2>2. Has(k) /\ At(k) = cursor[t]
    BY <1>1, <2>1, SearchStops DEF IInv
  <2>3. Content(k) = heap[ItemFound(t)]
    BY <2>2 DEF Content, ItemAt, ItemFound
  <2> QED
    BY <1>1, <1>3, <2>1, <2>3, NullAssumption DEF Bytes
<1> QED
  BY <1>1, <1>2, <1>3

(* A change of one entry under the key of t is one of the map.             *)
LEMMA ContentChanges ==
  ASSUME NEW k \in Key, NEW v, Content(k)' = v,
         \A j \in Key \ {k} : Content(j)' = Content(j)
  PROVE  [j \in Key |-> Content(j)]' = [[j \in Key |-> Content(j)] EXCEPT ![k] = v]
  OBVIOUS

LEMMA ReceiveRefines ==
  ASSUME IInv, NEW t \in Thread, NEW r \in Request, Receive(t, r)
  PROVE  KVNext
<1>0. TypeOK
  BY DEF IInv
<1>1. \A x \in Item : heap[x] # NULL => heap'[x] = heap[x]
  BY <1>0 DEF Receive, TypeOK, Free
<1>2. \A b \in Bucket : \A n \in 1 .. Len(table[b]) :
        heap'[table[b][n].item] = heap[table[b][n].item]
  <2> SUFFICES ASSUME NEW b \in Bucket, NEW n \in 1 .. Len(table[b])
               PROVE  heap'[table[b][n].item] = heap[table[b][n].item]
    OBVIOUS
  <2>1. table[b][n] \in Entry
    BY <1>0 DEF TypeOK
  <2>2. heap[table[b][n].item] # NULL
    BY DEF IInv, NoDanglingItem
  <2> QED
    BY <1>1, <2>1, <2>2 DEF Entry
<1>3. \A k \in Key : Content(k)' = Content(k)
  BY <1>2, SameContent DEF Receive
<1>4. Phase(t) = "idle" /\ Phase(t)' = "called"
  BY <1>0 DEF Receive, Goto, Phase, TypeOK
<1>5. \A u \in Thread \ {t} : Phase(u)' = Phase(u)
  BY <1>0 DEF Receive, Goto, Phase, TypeOK
<1>6. [u \in Thread |-> Phase(u)]' = [[u \in Thread |-> Phase(u)] EXCEPT ![t] = "called"]
  BY <1>4, <1>5
<1>7. KV!Call(t, r)
  BY <1>3, <1>4, <1>6 DEF Receive, KV!Call
<1>8. r \in KV!Request
  BY DEF Request, KV!Request, Writes, KV!Writes
<1> QED
  BY <1>7, <1>8 DEF KVNext, KV!Next

LEMMA SendRefines ==
  ASSUME IInv, NEW t \in Thread, Send(t) \/ SendFails(t)
  PROVE  KVNext
<1>0. TypeOK
  BY DEF IInv
<1>1. /\ Finish(t)
      /\ \A b \in Bucket : \A n \in 1 .. Len(table[b]) :
           heap'[table[b][n].item] = heap[table[b][n].item]
  BY Finished
<1>2. \A k \in Key : Content(k)' = Content(k)
  BY <1>1, SameContent DEF Finish
<1>3. Phase(t) = "done" /\ Phase(t)' = "idle"
  BY <1>0, <1>1 DEF Finish, Goto, Phase, TypeOK
<1>4. \A u \in Thread \ {t} : Phase(u)' = Phase(u)
  BY <1>0, <1>1 DEF Finish, Goto, Phase, TypeOK
<1>5. [u \in Thread |-> Phase(u)]' = [[u \in Thread |-> Phase(u)] EXCEPT ![t] = "idle"]
  BY <1>3, <1>4
<1>6. KV!Return(t)
  BY <1>1, <1>2, <1>3, <1>5 DEF Finish, KV!Return
<1> QED
  BY <1>6 DEF KVNext, KV!Next

(* A request that changes nothing.                                         *)
LEMMA AnswerOnly ==
  ASSUME IInv, NEW t \in Thread, pc[t] = "act",
         pc' = [pc EXCEPT ![t] = "unlock"], UNCHANGED <<table, heap, req>>,
         reply' = [reply EXCEPT ![t] = KV!Answer(req[t])],
         KV!Outcome(req[t]) = [k \in Key |-> Content(k)]
  PROVE  KVNext
<1>1. \A k \in Key : Content(k)' = Content(k)
  BY SameContent
<1>2. [k \in Key |-> Content(k)]' = KV!Outcome(req[t])
  BY <1>1
<1> QED
  BY <1>2, TakesEffect

LEMMA ReadRefines == ASSUME IInv, NEW t \in Thread, ReadItem(t) PROVE KVNext
<1>1. /\ pc[t] = "act" /\ req[t].op = "READ_REQ" /\ req' = req
      /\ pc' = [pc EXCEPT ![t] = "unlock"]
  BY DEF ReadItem, Goto
<1>2. KV!Outcome(req[t]) = [k \in Key |-> Content(k)]
  BY <1>1 DEF KV!Outcome
<1>3. reply' = [reply EXCEPT ![t] = KV!Answer(req[t])]
  BY <1>1, SearchIsRight DEF ReadItem, KV!Answer, Found, KV!Found
<1>4. PICK a \in Item : /\ heap[a] = NULL
                       /\ heap' = [heap EXCEPT ![a] = heap[ItemFound(t)]]
  BY DEF ReadItem, Free
<1>5. \A b \in Bucket : \A n \in 1 .. Len(table[b]) :
        /\ table[b][n].item # a
        /\ heap'[table[b][n].item] = heap[table[b][n].item]
  BY <1>4, Allocation
<1>6. \A k \in Key : Content(k)' = Content(k)
  BY <1>5, SameContent DEF ReadItem
<1>7. [k \in Key |-> Content(k)]' = KV!Outcome(req[t])
  BY <1>2, <1>6
<1> QED
  BY <1>1, <1>3, <1>7, TakesEffect

LEMMA NothingRefines == ASSUME IInv, NEW t \in Thread, ReadMissing(t) PROVE KVNext
<1>1. pc[t] = "act" /\ req[t].op = "READ_REQ"
  BY DEF ReadMissing
<1>2. KV!Outcome(req[t]) = [k \in Key |-> Content(k)]
  BY <1>1 DEF KV!Outcome
<1>3. reply' = [reply EXCEPT ![t] = KV!Answer(req[t])]
  BY <1>1, SearchIsRight DEF ReadMissing, KV!Answer, NotFound, KV!NotFound
<1> QED
  BY <1>1, <1>2, <1>3, AnswerOnly DEF ReadMissing, Goto, tableVars, requestVars

(* The buffer that a failing connection leaves is none of the map's.       *)
LEMMA FailureRefines ==
  ASSUME IInv, NEW t \in Thread, ReceiveFails(t)
  PROVE  KVNext
<1>1. PICK a \in Item : heap[a] = NULL /\ heap' = [heap EXCEPT ![a] = Garbage]
  BY DEF ReceiveFails, Free
<1>2. \A b \in Bucket : \A n \in 1 .. Len(table[b]) :
        /\ table[b][n].item # a
        /\ heap'[table[b][n].item] = heap[table[b][n].item]
  BY <1>1, Allocation
<1>3. \A k \in Key : Content(k)' = Content(k)
  BY <1>2, SameContent DEF ReceiveFails
<1>4. \A u \in Thread : Phase(u)' = Phase(u)
  BY DEF ReceiveFails, Phase
<1> QED
  BY <1>3, <1>4 DEF ReceiveFails, KVNext, KV!vars

LEMMA ExistsRefines == ASSUME IInv, NEW t \in Thread, InsertExists(t) PROVE KVNext
<1>1. pc[t] = "act" /\ req[t].op = "WRITE_REQ" /\ Content(req[t].key) # NULL
  BY SearchIsRight DEF InsertExists
<1>2. req[t].key \in Key
  BY <1>1, SearchIsRight
<1>3. KV!Outcome(req[t]) = [k \in Key |-> Content(k)]
  BY <1>1, <1>2 DEF KV!Outcome
<1>4. reply' = [reply EXCEPT ![t] = KV!Answer(req[t])]
  BY <1>1, <1>2, ZenonT(40) DEF InsertExists, KV!Answer, Written, KV!Written
<1> QED
  BY <1>1, <1>3, <1>4, AnswerOnly DEF InsertExists, Goto, tableVars, requestVars

LEMMA MissingRefines == ASSUME IInv, NEW t \in Thread, DeleteMissing(t) PROVE KVNext
<1>1. pc[t] = "act" /\ req[t].op = "DELETE_REQ" /\ Content(req[t].key) = NULL
  BY SearchIsRight DEF DeleteMissing
<1>2. req[t].key \in Key /\ req[t].val = NULL
  BY <1>1, SearchIsRight DEF KV!Request, KV!Writes
<1>3. KV!Outcome(req[t]) = [k \in Key |-> Content(k)]
  BY <1>1, <1>2 DEF KV!Outcome
<1>4. reply' = [reply EXCEPT ![t] = KV!Answer(req[t])]
  BY <1>1, <1>2 DEF DeleteMissing, KV!Answer, Deleted, KV!Deleted
<1> QED
  BY <1>1, <1>3, <1>4, AnswerOnly DEF DeleteMissing, Goto, tableVars, requestVars

(* The facts about chains in the next state.                               *)
LEMMA NextContent == IInv /\ [Next]_vars => ContentFacts'
<1>1. IInv' => TypeOK' /\ ChainsWellFormed'
  BY DEF IInv
<1>2. TypeOK' /\ ChainsWellFormed' => ContentFacts'
  BY ContentOf, PTL
<1> QED
  BY <1>1, <1>2, NextInvariant

(* The entry of a key after a write: the map holds what was written.       *)
LEMMA WriteRefines ==
  ASSUME IInv, ItemsFilled, [Next]_vars, NEW t \in Thread,
         InsertNew(t) \/ Overwrite(t)
  PROVE  KVNext
<1> SUFFICES ASSUME NEW k, k = req[t].key, NEW v, v = req[t].val PROVE KVNext
  OBVIOUS
<1>0. TypeOK /\ TypeOK' /\ ChainsWellFormed' /\ ContentFacts /\ ContentFacts'
  BY ContentOf, NextContent, NextInvariant DEF IInv
<1>1. /\ pc[t] = "act" /\ IsWrite(t)
      /\ pc' = [pc EXCEPT ![t] = "log_lock"]
      /\ item' = item /\ req' = req
      /\ reply' = [reply EXCEPT ![t] = Written(0)]
  BY DEF InsertNew, Overwrite, requestVars, Goto, IsWrite, Writes
<1>2. /\ k \in Key /\ item[t] \in Item /\ heap[item[t]] = v
      /\ req[t].op \in {"WRITE_REQ", "WRITE_REQ_OW"}
  BY <1>1, Serving DEF ItemsFilled, IsWrite, Writes
<1>3. /\ Linked(k, item[t])'
      /\ \A j \in Key \ {k} : \A a : Linked(j, a)' <=> Linked(j, a)
  <2>1. /\ Linked(req[t].key, item[t])'
        /\ \A j \in Key \ {req[t].key} : \A a : Linked(j, a)' <=> Linked(j, a)
    BY InsertEffect, OverwriteEffect
  <2> QED
    BY <1>1, <2>1 DEF Linked, Chain
<1>4. heap'[item[t]] = v
  <2>1. CASE InsertNew(t)
    BY <1>2, <2>1 DEF InsertNew
  <2>2. CASE Overwrite(t)
    <3>1. /\ BucketOf(t) \in Bucket /\ cursor[t] \in 1 .. Len(table[BucketOf(t)])
          /\ ItemFound(t) = table[BucketOf(t)][cursor[t]].item
      BY <2>2, <1>1, Serving, Finding DEF Overwrite
    <3>2. OwnsItem(t)
      BY <1>1 DEF OwnsItem
    <3>3. item[t] # ItemFound(t)
      BY <3>1, <3>2 DEF IInv, NoSharedItem
    <3> QED
      BY <1>0, <1>2, <2>2, <3>3 DEF Overwrite, TypeOK
  <2> QED
    BY <2>1, <2>2
<1>5. Content(k)' = v
  BY <1>0, <1>1, <1>2, <1>3, <1>4 DEF ContentFacts
<1>6. ASSUME NEW j \in Key \ {k} PROVE Content(j)' = Content(j)
  <2>1. \A a : Linked(j, a)' <=> Linked(j, a)
    BY <1>3
  <2>2. CASE InsertNew(t)
    <3>1. heap' = heap
      BY <2>2 DEF InsertNew
    <3>2. \A a \in Item : Linked(j, a) => Content(j) = heap[a] /\ Content(j)' = heap[a]
      BY <1>0, <2>1, <3>1 DEF ContentFacts
    <3>3. (\A a \in Item : ~Linked(j, a)) => Content(j) = NULL /\ Content(j)' = NULL
      BY <1>0, <2>1 DEF ContentFacts
    <3> QED
      BY <3>2, <3>3
  <2>3. CASE Overwrite(t)
    BY <1>0, <1>1, <2>1, <2>3, OthersKeep DEF Overwrite
  <2> QED
    BY <2>2, <2>3
<1>7. [j \in Key |-> Content(j)]' = [[j \in Key |-> Content(j)] EXCEPT ![k] = v]
  BY <1>2, <1>5, <1>6, ContentChanges
<1>8. req[t].op = "WRITE_REQ" => Content(k) = NULL
  BY <1>1, SearchIsRight DEF InsertNew, Overwrite
<1>9. /\ KV!Outcome(req[t]) = [[j \in Key |-> Content(j)] EXCEPT ![k] = v]
      /\ KV!Answer(req[t]) = Written(0)
  BY <1>2, <1>8 DEF KV!Outcome, KV!Answer, Written, KV!Written
<1> QED
  BY <1>1, <1>7, <1>9, TakesEffect

LEMMA DeleteRefines ==
  ASSUME IInv, [Next]_vars, NEW t \in Thread, DeleteItem(t) PROVE KVNext
<1> SUFFICES ASSUME NEW k, k = req[t].key PROVE KVNext
  OBVIOUS
<1>0. TypeOK /\ TypeOK' /\ ChainsWellFormed' /\ ContentFacts /\ ContentFacts'
  BY ContentOf, NextContent, NextInvariant DEF IInv
<1>1. /\ pc[t] = "act" /\ ~Missed(t) /\ req[t].op = "DELETE_REQ"
      /\ pc' = [pc EXCEPT ![t] = "log_lock"] /\ req' = req
      /\ reply' = [reply EXCEPT ![t] = Deleted(1)]
      /\ heap' = [heap EXCEPT ![ItemFound(t)] = NULL]
  BY DEF DeleteItem, requestVars, Goto
<1>2. k \in Key /\ Content(k) # NULL /\ req[t].val = NULL
  BY <1>1, SearchIsRight DEF KV!Request, KV!Writes
<1>3. /\ ~Has(k)'
      /\ \A j \in Key \ {k} : \A a : Linked(j, a)' <=> Linked(j, a)
  BY <1>1, DeleteEffect
<1>4. Content(k)' = NULL
  BY <1>0, <1>2, <1>3 DEF ContentFacts
<1>5. ASSUME NEW j \in Key \ {k} PROVE Content(j)' = Content(j)
  <2>1. \A a : Linked(j, a)' <=> Linked(j, a)
    BY <1>3
  <2> QED
    BY <1>0, <1>1, <2>1, OthersKeep
<1>6. [j \in Key |-> Content(j)]' = [[j \in Key |-> Content(j)] EXCEPT ![k] = NULL]
  BY <1>2, <1>4, <1>5, ContentChanges
<1>7. /\ KV!Outcome(req[t]) = [[j \in Key |-> Content(j)] EXCEPT ![k] = NULL]
      /\ KV!Answer(req[t]) = Deleted(1)
  BY <1>1, <1>2 DEF KV!Outcome, KV!Answer, Deleted, KV!Deleted
<1> QED
  BY <1>1, <1>6, <1>7, TakesEffect

(* Every step of the store is one of the map, or unseen.                   *)
LEMMA NextRefines == IInv /\ ItemsFilled /\ [Next]_vars => KVNext
<1> SUFFICES ASSUME IInv, ItemsFilled, [Next]_vars PROVE KVNext
  OBVIOUS
<1>0. TypeOK
  BY DEF IInv
<1>1. ASSUME NEW t \in Thread, RdLock(t) \/ WrLock(t) \/ Search(t) PROVE KVNext
  <2>1. PICK label \in {"search", "act"} : pc' = [pc EXCEPT ![t] = label]
    BY <1>1 DEF RdLock, WrLock, Search, Goto
  <2>2. pc[t] \in {"lock", "search"} /\ UNCHANGED <<table, heap, req, reply>>
    BY <1>1 DEF RdLock, WrLock, Search, tableVars, requestVars
  <2>3. Phase(t)' = Phase(t)
    BY <1>0, <2>1, <2>2 DEF Phase, TypeOK
  <2> QED
    BY <2>1, <2>2, <2>3, Unseen DEF Label
<1>2. ASSUME NEW t \in Thread, LogLock(t) \/ Unlock(t) \/ AppendLog(t) \/ LogUnlock(t)
      PROVE  KVNext
  <2>1. PICK label \in {"unlock", "log", "log_unlock", "send"} :
          pc' = [pc EXCEPT ![t] = label]
    BY <1>2 DEF LogLock, Unlock, AppendLog, LogUnlock, Goto
  <2>2. /\ pc[t] \in {"log_lock", "unlock", "log", "log_unlock"}
        /\ UNCHANGED <<table, heap, req, reply>>
    BY <1>2 DEF LogLock, Unlock, AppendLog, LogUnlock, tableVars, requestVars
  <2>3. Phase(t)' = Phase(t)
    BY <1>0, <2>1, <2>2 DEF Phase, TypeOK
  <2> QED
    BY <2>1, <2>2, <2>3, Unseen DEF Label
<1>3. CASE UNCHANGED vars
  <2>1. \A k \in Key : Content(k)' = Content(k)
    BY <1>3, SameContent DEF vars
  <2>2. \A t \in Thread : Phase(t)' = Phase(t)
    BY <1>3 DEF vars, Phase
  <2> QED
    BY <1>3, <2>1, <2>2 DEF vars, KVNext, KV!vars
<1> QED
  BY <1>1, <1>2, <1>3, ReceiveRefines, FailureRefines, ReadRefines, NothingRefines,
     WriteRefines, ExistsRefines, DeleteRefines, MissingRefines, SendRefines
     DEF Next, Step

(* With any number of threads on any number of keys, the hash table under  *)
(* its locks answers as one map would that serves the requests one at a    *)
(* time: the safety part of ImplementsKVStore.                             *)
THEOREM Refines == Spec => KV!Init /\ [][KV!Next]_(KV!vars)
<1>1. Init => ItemsFilled
  BY DEF Init, ItemsFilled
<1>2. Spec => []ItemsFilled
  BY <1>1, FilledStep, Invariance, PTL DEF Spec
<1>3. IInv /\ ItemsFilled /\ [Next]_vars => [KV!Next]_(KV!vars)
  BY NextRefines DEF KVNext
<1> QED
  BY <1>2, <1>3, InitRefines, Invariance, PTL DEF Spec

=============================================================================
