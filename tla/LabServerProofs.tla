-------------------------- MODULE LabServerProofs --------------------------
(***************************************************************************)
(* Lab 7&8 loses nothing by SIGINT that was answered before, and a kill    *)
(* takes it back to a state it was in, but for a key that the log ends in: *)
(* for any threads, keys and values, any number of buckets, and wherever   *)
(* the blocks end that the stream of the log writes.                       *)
(***************************************************************************)
EXTENDS LabServer, SequenceTheorems, WellFoundedInduction, TLAPS

Content == Values \cup {None, Junk}

(* What is read at the next start.                                         *)
Base == create_hash_from_backup
Records == IF log = NoLog THEN << >> ELSE log
File == Records \o tail
InBucket(b) == {k \in Keys : Bucket(k) = b}

(* The types of the variables that TypeOK leaves out; the log is open      *)
(* while the process runs, and ends in a record whose rest is in memory;   *)
(* who is down or starting has no threads.                                 *)
TypeInv ==
  /\ TypeOK
  /\ due \in [Keys -> SUBSET Content]
  /\ past \in [Buckets -> SUBSET UNION {[K -> Content] : K \in SUBSET Keys}]
  /\ kills \in Nat
  /\ proc # "down" => log # NoLog
  /\ torn => buffer # << >>
  /\ proc = "loaded" => tail # Fatal
  /\ proc \in {"down"} \cup Starting => buffer = << >> /\ \A t \in Threads : Idle(t)

(* The lock of a bucket, and the mutex of its records, have one owner.     *)
Exclusive ==
  \A t, u \in Threads, b \in Buckets, what \in {"lock", "log"} :
    Holds(t, what, b) /\ Holds(u, what, b) => t = u

(* Without a kill, and without requests during SIGINT: what is read at the *)
(* next start is what the keys are due.                                    *)
Orderly ==
  kills = 0 /\ ~busy =>
    /\ proc # "stuck"
    /\ proc = "down" => log = NoLog /\ tail = << >>
    /\ proc \in Starting => log = << >> /\ tail = << >>
    /\ proc = "loaded" => table = Base
    /\ proc \in Starting \cup {"down"} => \A k \in Keys : Base[k] \in due[k]
    /\ proc \in {"serving"} \cup Leaving => \A k \in Keys : table[k] \in due[k]
    /\ proc = "saving" => \A k \in Keys : Bucket(k) < unsaved => temp[k] = table[k]
    /\ proc \in {"removed", "renamed", "deleted"} => temp = table

(* No thread has a request when the process leaves, unless it is busy; and *)
(* then the new backup has its name.                                       *)
Left ==
  /\ proc \in Leaving \cup {"stuck"} /\ ~busy => proc # "stuck" /\ \A t \in Threads : Idle(t)
  /\ proc \in {"renamed", "deleted"} =>
       /\ backup = temp
       /\ ~busy /\ ~spoiled => \A b \in Buckets : Part(temp, b) \in past[b]

-----------------------------------------------------------------------------
(* A process that was not killed before, and serves.                       *)

(* The records so far, and what they make of the backup.                   *)
Stream == log \o buffer
Logs == Replayed(Base, Stream)

(* The record that t is to write.                                          *)
RecordOf(t) ==
  IF req[t].op = "DELETE_REQ" THEN [type |-> "D", key |-> req[t].key, value |-> None]
  ELSE [type |-> "I", key |-> req[t].key, value |-> req[t].value]

(* The same once the thread that has the mutex of bucket b wrote its own.  *)
Written(b) ==
  IF \E t \in Threads : Holds(t, "log", b)
  THEN {Replay(Logs, RecordOf(t)) : t \in {u \in Threads : Holds(u, "log", b)}}
  ELSE {Logs}

(* The bucket is that, and what the thread that has its lock is to write.  *)
Follows(b) ==
  \E W \in Written(b) :
    /\ Part(W, b) \in past[b]
    /\ IF \E t \in Threads : Holds(t, "lock", b)
       THEN \A t \in Threads :
              Holds(t, "lock", b) => Part(Replay(W, RecordOf(t)), b) = Part(table, b)
       ELSE Part(W, b) = Part(table, b)

(* However much of the stream is lost, the rest makes every bucket one of  *)
(* its states.                                                             *)
Prefixes ==
  \A n \in 0 .. Len(Stream), b \in Buckets :
    Part(Replayed(Base, SubSeq(Stream, 1, n)), b) \in past[b]

InTime == Prefixes /\ \A b \in Buckets : Part(table, b) \in past[b] /\ Follows(b)

Serves == proc = "serving" /\ kills = 0 /\ ~busy /\ ~spoiled => InTime

(* f is one of the states of bucket b, but for the key that is misread.    *)
Near(f, b) ==
  \E g \in [Keys -> Content] :
    Part(g, b) \in past[b] /\ \A k \in InBucket(b) \ Misread : f[k] = g[k]

(* What is read at the next start is, bucket by bucket, one of its states. *)
Recovers ==
  kills <= 1 /\ ~busy /\ ~spoiled /\ tail # Fatal =>
    /\ proc \in {"down"} \cup Starting => \A b \in Buckets : Near(Replayed(Base, File), b)
    /\ proc = "loaded" => table = Replayed(Base, File)

IInv == TypeInv /\ Exclusive /\ Orderly /\ Left /\ Serves /\ Recovers

-----------------------------------------------------------------------------
(* What a log that is replayed makes of a table.                           *)

(* h[n] is the table after n records.                                      *)
Replays(h, f, L, m) ==
  h = [n \in 0 .. m |-> IF n = 0 THEN f ELSE Replay(h[n - 1], L[n])]

LEMMA LeastNatural ==
  ASSUME NEW T, T \subseteq Nat, T # {}
  PROVE  \E n \in T : \A m \in T : n <= m
<1>1. PICK n \in T : \A m \in T : <<m, n>> \notin OpToRel(<, Nat)
  BY NatLessThanWellFounded, WFMin, Zenon
<1>2. \A m \in T : ~(m < n)
  BY <1>1, Zenon DEF OpToRel
<1> QED
  BY <1>2

LEMMA ReplaysSteps ==
  ASSUME NEW h, NEW f, NEW L, NEW m \in Nat, Replays(h, f, L, m)
  PROVE  /\ h[0] = f
         /\ \A n \in 1 .. m : h[n] = Replay(h[n - 1], L[n])
<1> DEFINE g == [n \in 0 .. m |-> IF n = 0 THEN f ELSE Replay(h[n - 1], L[n])]
<1>1. h = g
  BY DEF Replays
<1>2. g[0] = f /\ \A n \in 1 .. m : g[n] = Replay(h[n - 1], L[n])
  OBVIOUS
<1> QED
  BY <1>1, <1>2

LEMMA ReplaysExtends ==
  ASSUME NEW h, NEW f, NEW L, NEW M, NEW m \in Nat, Replays(h, f, L, m),
         \A n \in 1 .. m : M[n] = L[n]
  PROVE  Replays([n \in 0 .. m + 1 |-> IF n <= m THEN h[n] ELSE Replay(h[m], M[m + 1])],
                 f, M, m + 1)
<1> DEFINE g == [n \in 0 .. m + 1 |-> IF n <= m THEN h[n] ELSE Replay(h[m], M[m + 1])]
<1>1. h[0] = f /\ \A n \in 1 .. m : h[n] = Replay(h[n - 1], L[n])
  BY ReplaysSteps
<1>2. ASSUME NEW n \in 0 .. m + 1
      PROVE  g[n] = IF n = 0 THEN f ELSE Replay(g[n - 1], M[n])
  <2>1. CASE n = 0
    BY <1>1, <2>1
  <2>2. CASE n \in 1 .. m
    <3>1. g[n] = h[n] /\ g[n - 1] = h[n - 1] /\ M[n] = L[n]
      BY <2>2
    <3> QED
      BY <1>1, <2>2, <3>1
  <2>3. CASE n = m + 1
    <3>1. g[n] = Replay(h[m], M[m + 1]) /\ g[n - 1] = h[m] /\ n # 0
      BY <2>3
    <3> QED
      BY <2>3, <3>1
  <2> QED
    BY <2>1, <2>2, <2>3
<1>3. g = [n \in 0 .. m + 1 |-> IF n = 0 THEN f ELSE Replay(g[n - 1], M[n])]
  <2>1. g = [n \in 0 .. m + 1 |-> g[n]]
    OBVIOUS
  <2> HIDE DEF g
  <2> QED
    BY <1>2, <2>1
<1> QED
  BY <1>3 DEF Replays

(* The function that Replayed defines by recursion exists.                 *)
LEMMA ReplaysExists ==
  ASSUME NEW f, NEW L, NEW m \in Nat
  PROVE  \E h : Replays(h, f, L, m)
<1> DEFINE T == {n \in Nat : ~ \E h : Replays(h, f, L, n)}
<1>1. ASSUME T # {} PROVE FALSE
  <2>1. PICK n \in T : \A i \in T : n <= i
    <3>1. T \subseteq Nat
      OBVIOUS
    <3> HIDE DEF T
    <3> QED
      BY <1>1, <3>1, LeastNatural
  <2>2. CASE n = 0
    <3>1. Replays([i \in 0 .. 0 |-> f], f, L, 0)
      BY DEF Replays
    <3> QED
      BY <2>1, <2>2, <3>1
  <2>3. CASE n # 0
    <3>1. n - 1 \in Nat /\ n - 1 \notin T /\ (n - 1) + 1 = n
      BY <2>1, <2>3
    <3>2. PICK h : Replays(h, f, L, n - 1)
      BY <3>1
    <3>3. \E g : Replays(g, f, L, (n - 1) + 1)
      BY <3>1, <3>2, ReplaysExtends
    <3> QED
      BY <2>1, <3>1, <3>3
  <2> QED
    BY <2>2, <2>3
<1> QED
  BY <1>1

(* ... and there is one only.                                              *)
LEMMA ReplaysUnique ==
  ASSUME NEW g, NEW h, NEW f, NEW L, NEW M, NEW m \in Nat, NEW k \in Nat,
         Replays(g, f, L, m), Replays(h, f, M, k),
         m <= k, \A n \in 1 .. m : M[n] = L[n], NEW j \in 0 .. m
  PROVE  g[j] = h[j]
<1> DEFINE T == {n \in Nat : n <= m /\ g[n] # h[n]}
<1>1. g[0] = f /\ \A n \in 1 .. m : g[n] = Replay(g[n - 1], L[n])
  BY ReplaysSteps
<1>2. h[0] = f /\ \A n \in 1 .. k : h[n] = Replay(h[n - 1], M[n])
  BY ReplaysSteps
<1>3. ASSUME T # {} PROVE FALSE
  <2>1. PICK n \in T : \A i \in T : n <= i
    <3>1. T \subseteq Nat
      OBVIOUS
    <3> HIDE DEF T
    <3> QED
      BY <1>3, <3>1, LeastNatural
  <2>2. n \in Nat /\ n <= m /\ g[n] # h[n]
    BY <2>1
  <2>3. n # 0
    BY <1>1, <1>2, <2>2
  <2>4. n \in 1 .. m /\ n \in 1 .. k /\ n - 1 \in Nat /\ n - 1 <= m /\ n - 1 < n
    BY <2>2, <2>3
  <2>5. n - 1 \notin T
    BY <2>1, <2>4
  <2>6. g[n - 1] = h[n - 1]
    BY <2>4, <2>5
  <2> QED
    BY <1>1, <1>2, <2>2, <2>4, <2>6
<1>4. j \notin T
  BY <1>3
<1> QED
  BY <1>4

LEMMA ReplayedIs ==
  ASSUME NEW f, NEW L, Len(L) \in Nat
  PROVE  \E h : Replays(h, f, L, Len(L)) /\ Replayed(f, L) = h[Len(L)]
<1> DEFINE h == CHOOSE h : Replays(h, f, L, Len(L))
<1>1. Replays(h, f, L, Len(L))
  BY ReplaysExists
<1>2. Replayed(f, L) = h[Len(L)]
  BY Zenon DEF Replayed, Replays
<1> QED
  BY <1>1, <1>2

LEMMA ReplayedEmpty == \A f : Replayed(f, << >>) = f
<1> SUFFICES ASSUME NEW f PROVE Replayed(f, << >>) = f
  OBVIOUS
<1>1. Len(<< >>) = 0
  OBVIOUS
<1>2. PICK h : Replays(h, f, << >>, 0) /\ Replayed(f, << >>) = h[0]
  BY <1>1, ReplayedIs
<1> QED
  BY <1>2, ReplaysSteps

(* One more record.                                                        *)
LEMMA ReplayedAppend ==
  ASSUME NEW f, NEW L \in Seq(Record), NEW r \in Record
  PROVE  Replayed(f, Append(L, r)) = Replay(Replayed(f, L), r)
<1> DEFINE M == Append(L, r)
           m == Len(L)
<1>1. /\ M \in Seq(Record) /\ Len(M) = m + 1 /\ m \in Nat
      /\ M[m + 1] = r /\ \A n \in 1 .. m : M[n] = L[n]
  OBVIOUS
<1> HIDE DEF M, m
<1>2. PICK g : Replays(g, f, L, m) /\ Replayed(f, L) = g[m]
  BY <1>1, ReplayedIs DEF m
<1>3. PICK h : Replays(h, f, M, m + 1) /\ Replayed(f, M) = h[m + 1]
  BY <1>1, ReplayedIs
<1>4. g[m] = h[m]
  BY <1>1, <1>2, <1>3, ReplaysUnique
<1>5. h[m + 1] = Replay(h[m], r)
  <2>1. m + 1 \in 1 .. m + 1 /\ (m + 1) - 1 = m /\ m + 1 \in Nat
    BY <1>1
  <2>2. h[m + 1] = Replay(h[(m + 1) - 1], M[m + 1])
    BY <1>3, <2>1, ReplaysSteps
  <2> QED
    BY <1>1, <2>1, <2>2
<1> QED
  BY <1>2, <1>3, <1>4, <1>5 DEF M

(* What a record does to the keys.                                         *)
LEMMA ReplayIs ==
  ASSUME NEW f \in [Keys -> Content], NEW r \in Record
  PROVE  /\ Replay(f, r) \in [Keys -> Content]
         /\ \A k \in Keys :
              Replay(f, r)[k] = IF k # r.key THEN f[k]
                                ELSE IF r.type = "D" THEN None
                                ELSE IF f[k] = None THEN r.value ELSE f[k]
BY DEF Replay, Record, Content

LEMMA ReplayedType ==
  ASSUME NEW f \in [Keys -> Content], NEW L \in Seq(Record)
  PROVE  Replayed(f, L) \in [Keys -> Content]
<1> DEFINE m == Len(L)
           T == {n \in Nat : n <= m /\ Replayed(f, SubSeq(L, 1, n)) \notin [Keys -> Content]}
<1>1. m \in Nat /\ m <= m /\ L = SubSeq(L, 1, m)
  OBVIOUS
<1>2. ASSUME T # {} PROVE FALSE
  <2>1. PICK n \in T : \A i \in T : n <= i
    <3>1. T \subseteq Nat
      OBVIOUS
    <3> HIDE DEF T
    <3> QED
      BY <1>2, <3>1, LeastNatural
  <2>2. n \in Nat /\ n <= m /\ Replayed(f, SubSeq(L, 1, n)) \notin [Keys -> Content]
    BY <2>1
  <2>3. n # 0
    <3>1. SubSeq(L, 1, 0) = << >>
      OBVIOUS
    <3> QED
      BY <2>2, <3>1, ReplayedEmpty
  <2>4. n - 1 \in Nat /\ n - 1 <= m /\ ~(n <= n - 1) /\ n \in 1 .. Len(L)
    BY <2>2, <2>3
  <2>5. Replayed(f, SubSeq(L, 1, n - 1)) \in [Keys -> Content]
    BY <2>1, <2>4
  <2>6. SubSeq(L, 1, n - 1) \in Seq(Record) /\ L[n] \in Record
        /\ SubSeq(L, 1, n) = Append(SubSeq(L, 1, n - 1), L[n])
    BY <2>4
  <2>7. Replayed(f, SubSeq(L, 1, n)) = Replay(Replayed(f, SubSeq(L, 1, n - 1)), L[n])
    BY <2>6, ReplayedAppend
  <2> QED
    BY <2>2, <2>5, <2>6, <2>7, ReplayIs
<1>3. ~(m <= m /\ Replayed(f, SubSeq(L, 1, m)) \notin [Keys -> Content])
  <2>1. m \notin T
    BY <1>2
  <2> HIDE DEF m
  <2> QED
    BY <1>1, <2>1
<1> QED
  BY <1>1, <1>3, Zenon

LEMMA PartIs ==
  ASSUME NEW f, NEW g, NEW b
  PROVE  /\ (\A k \in InBucket(b) : f[k] = g[k]) => Part(f, b) = Part(g, b)
         /\ Part(f, b) = Part(g, b) => \A k \in InBucket(b) : f[k] = g[k]
<1>1. (\A k \in InBucket(b) : f[k] = g[k]) => Part(f, b) = Part(g, b)
  BY DEF Part, InBucket
<1>2. ASSUME Part(f, b) = Part(g, b), NEW k \in InBucket(b) PROVE f[k] = g[k]
  <2>1. Part(f, b)[k] = f[k] /\ Part(g, b)[k] = g[k]
    BY DEF Part, InBucket
  <2> QED
    BY <1>2, <2>1
<1> QED
  BY <1>1, <1>2

LEMMA BucketIs == \A k \in Keys : Bucket(k) \in Buckets
<1> SUFFICES ASSUME NEW k \in Keys PROVE k % Size \in 0 .. Size - 1
  BY DEF Bucket, Buckets
<1>1. k \in Nat
  BY LabAssumption
<1>2. Size \in Nat /\ Size # 0
  BY LabAssumption
<1> QED
  BY <1>1, <1>2

-----------------------------------------------------------------------------
(* Types.                                                                  *)

PartContent == UNION {[K -> Content] : K \in SUBSET Keys}

LEMMA PartType ==
  ASSUME NEW f \in [Keys -> Content], NEW b
  PROVE  Part(f, b) \in PartContent
<1>1. InBucket(b) \in SUBSET Keys
  BY DEF InBucket
<1>2. Part(f, b) \in [InBucket(b) -> Content]
  BY DEF Part, InBucket
<1> QED
  BY <1>1, <1>2 DEF PartContent

LEMMA Sizes == Size \in Nat /\ 0 < Size
<1>1. Size \in Nat /\ Size # 0
  BY LabAssumption
<1> QED
  BY <1>1

LEMMA NoRequestType == NoRequest \in Request
<1>1. Keys # {} /\ Values # {}
  BY LabAssumption
<1>2. (CHOOSE k \in Keys : TRUE) \in Keys /\ (CHOOSE v \in Values : TRUE) \in Values
  BY <1>1
<1> QED
  BY <1>2 DEF NoRequest, Request, Op

LEMMA LogIsNoFile == NoLog \notin Seq(Record) /\ << >> \in Seq(Record) /\ << >> # NoLog
<1>1. NoLog[1].type = "no file" /\ Len(NoLog) = 1
  BY DEF NoLog
<1>2. ASSUME NoLog \in Seq(Record) PROVE FALSE
  <2>1. NoLog[1] \in Record
    <3>1. 1 \in 1 .. Len(NoLog)
      <4>1. 1 \in 1 .. 1
        OBVIOUS
      <4> QED
        BY <1>1, <4>1, Zenon
    <3> QED
      BY <1>2, <3>1, ElementOfSeq
  <2> QED
    BY <1>1, <2>1 DEF Record
<1>3. << >> \in Seq(Record) /\ Len(<< >>) = 0
  OBVIOUS
<1>4. << >> # NoLog
  <2>1. 0 # 1
    OBVIOUS
  <2> QED
    BY <1>1, <1>3, <2>1, Zenon
<1> QED
  BY <1>2, <1>3, <1>4

LEMMA EmptyType == Empty \in [Keys -> Content]
BY DEF Empty, Content

LEMMA FatalIs == Fatal # << >> /\ << >> \in Tails /\ Fatal \in Tails
<1>1. Len(Fatal) = 1 /\ Len(<< >>) = 0
  BY DEF Fatal
<1> QED
  BY <1>1 DEF Tails

LEMMA BaseType ==
  ASSUME TypeInv
  PROVE  Base \in [Keys -> Content] /\ Records \in Seq(Record)
BY EmptyType DEF TypeInv, TypeOK, Base, create_hash_from_backup, Records, Content

LEMMA FileType ==
  ASSUME TypeInv, tail # Fatal
  PROVE  /\ File \in Seq(Record)
         /\ tail = << >> \/ \E r \in Record : tail = <<r>>
<1>1. tail = << >> \/ \E r \in Record : tail = <<r>>
  BY Zenon DEF TypeInv, TypeOK, Tails
<1>2. tail \in Seq(Record)
  <2>1. << >> \in Seq(Record) /\ \A r \in Record : <<r>> \in Seq(Record)
    OBVIOUS
  <2> QED
    BY <1>1, <2>1
<1> QED
  BY <1>1, <1>2, BaseType DEF File

(* What a log that ends in r may be taken for.                             *)
LEMMA CutType ==
  ASSUME NEW r \in Record
  PROVE  Cut(r) \subseteq Tails
<1>1. ASSUME NEW j \in Keys PROVE <<[r EXCEPT !.key = j]>> \in Tails
  <2>1. [r EXCEPT !.key = j] \in Record
    BY DEF Record
  <2> QED
    BY <2>1, Zenon DEF Tails
<1>2. <<[r EXCEPT !.value = Junk]>> \in Tails
  <2>1. [r EXCEPT !.value = Junk] \in Record
    BY DEF Record
  <2> QED
    BY <2>1, Zenon DEF Tails
<1>3. ASSUME NEW c \in Cut(r) PROVE c \in Tails
  <2>1. \/ c \in {<< >>, Fatal, <<[r EXCEPT !.value = Junk]>>}
        \/ \E j \in Keys : c = <<[r EXCEPT !.key = j]>>
    BY <1>3, Zenon DEF Cut
  <2> QED
    BY <1>1, <1>2, <2>1, FatalIs
<1> QED
  BY <1>3

LEMMA RememberType ==
  ASSUME NEW d \in [Keys -> SUBSET Content], NEW p \in [Buckets -> SUBSET PartContent],
         Remember(d, p)
  PROVE  /\ due' \in [Keys -> SUBSET Content]
         /\ past' \in [Buckets -> SUBSET PartContent]
BY DEF Remember

LEMMA InitType == Init => TypeInv
<1> SUFFICES ASSUME Init PROVE TypeInv
  OBVIOUS
<1>1. \A b \in Buckets : Part(Empty, b) \in PartContent
  BY EmptyType, PartType
<1>2. past \in [Buckets -> SUBSET PartContent]
  BY <1>1 DEF Init
<1>3. due \in [Keys -> SUBSET Content]
  BY DEF Init, Content
<1>4. req \in [Threads -> Request]
  BY NoRequestType DEF Init
<1>6. unsaved \in 0 .. Size /\ buffer \in Seq(Record) /\ tail \in Tails /\ torn = FALSE
  BY Sizes, FatalIs DEF Init
<1> QED
  BY <1>2, <1>3, <1>4, <1>6, EmptyType DEF Init, TypeInv, TypeOK, PartContent, Content, Idle

(* A change of the table.                                                  *)
LEMMA BecomesType ==
  ASSUME TypeInv, NEW t \in Threads, NEW k \in Keys, NEW v \in Values \cup {None},
         Becomes(t, k, v), proc \in Serving,
         UNCHANGED <<proc, buffer, files, req, saving, bounds>>
  PROVE  TypeInv'
<1>1. table' \in [Keys -> Content] /\ freed' \in [Threads -> BOOLEAN]
  BY DEF Becomes, TypeInv, TypeOK, Content
<1>2. [due EXCEPT ![k] = @ \cup {v}] \in [Keys -> SUBSET Content]
  BY DEF TypeInv, Content
<1>3. /\ due' \in [Keys -> SUBSET Content]
      /\ past' \in [Buckets -> SUBSET PartContent]
  <2>1. Part(table', Bucket(k)) \in PartContent
    BY <1>1, PartType
  <2>2. past \in [Buckets -> SUBSET PartContent]
    BY DEF TypeInv, PartContent
  <2>3. [past EXCEPT ![Bucket(k)] = @ \cup {Part(table', Bucket(k))}]
          \in [Buckets -> SUBSET PartContent]
    BY <2>1, <2>2
  <2> QED
    BY <1>2, <2>3, RememberType DEF Becomes
<1>4. pc' \in [Threads -> {"idle", "change", "lock", "log", "send"}] /\ spoiled' \in BOOLEAN
      /\ busy' = busy
  BY DEF Becomes, Goto, TypeInv, TypeOK
<1> QED
  BY <1>1, <1>2, <1>3, <1>4
     DEF TypeInv, TypeOK, files, saving, bounds, Serving, Starting, PartContent, Content

LEMMA LoggedType ==
  ASSUME TypeInv, NEW t \in Threads
  PROVE  Logged(t) \subseteq Record /\ RecordOf(t) \in Record
<1>1. req[t].key \in Keys /\ req[t].value \in Values
  BY DEF TypeInv, TypeOK, Request
<1> QED
  BY <1>1 DEF Logged, Record, RecordOf

LEMMA AppendLogType ==
  ASSUME TypeInv, NEW t \in Threads, AppendLog(t)
  PROVE  TypeInv'
<1>1. PICK r \in Logged(t) :
        /\ spoiled' = (spoiled \/ r.value = Junk)
        /\ \/ buffer' = Append(buffer, r) /\ UNCHANGED <<log, torn>>
           \/ buffer' = <<r>> /\ log' = log \o buffer /\ torn' = TRUE
           \/ buffer' = << >> /\ log' = log \o Append(buffer, r) /\ torn' = FALSE
  BY DEF AppendLog
<1>2. /\ proc \in Serving /\ proc' = proc
      /\ pc' \in [Threads -> {"idle", "change", "lock", "log", "send"}]
      /\ UNCHANGED <<table, tail, backup, req, freed, saving, busy, bounds>>
  BY DEF AppendLog, Runs, Goto, TypeInv, TypeOK
<1>3. r \in Record /\ log \in Seq(Record) /\ buffer \in Seq(Record) /\ torn \in BOOLEAN
  BY <1>2, LoggedType DEF TypeInv, TypeOK, Serving
<1>4. /\ Append(buffer, r) \in Seq(Record) /\ log \o Append(buffer, r) \in Seq(Record)
      /\ log \o buffer \in Seq(Record) /\ <<r>> \in Seq(Record) /\ << >> \in Seq(Record)
      /\ Append(buffer, r) # << >> /\ <<r>> # << >>
  BY <1>3
<1>5. buffer' \in Seq(Record) /\ torn' \in BOOLEAN /\ (torn' => buffer' # << >>)
  BY <1>1, <1>3, <1>4
<1>6. log' \in Seq(Record) /\ log' # NoLog
  BY <1>1, <1>3, <1>4, LogIsNoFile
<1>7. spoiled' \in BOOLEAN
  BY <1>1 DEF TypeInv, TypeOK
<1>8. due' \in [Keys -> SUBSET Content] /\ past' \in [Buckets -> SUBSET PartContent]
  BY RememberType DEF AppendLog, TypeInv, PartContent
<1> QED
  BY <1>2, <1>5, <1>6, <1>7, <1>8
     DEF TypeInv, TypeOK, saving, bounds, Serving, Starting, PartContent

LEMMA EndType ==
  ASSUME TypeInv, End, log' \in {log, NoLog}, tail' \in Tails, kills' \in Nat
  PROVE  TypeInv'
<1>1. req' \in [Threads -> Request]
  BY NoRequestType DEF End
<1>2. << >> \in Seq(Record) /\ 0 \in 0 .. Size
  BY Sizes
<1> QED
  BY <1>1, <1>2, EmptyType DEF TypeInv, TypeOK, End, history, Idle, Content

LEMMA BreakTail ==
  ASSUME TypeInv, Break
  PROVE  tail' \in Tails
<1>1. CASE torn
  <2>1. buffer \in Seq(Record) /\ buffer # << >>
    BY <1>1 DEF TypeInv, TypeOK
  <2>2. Head(buffer) \in Record
    BY <2>1
  <2> QED
    BY <1>1, <2>2, CutType DEF Break
<1>2. CASE ~torn
  BY <1>2 DEF Break, TypeInv, TypeOK
<1> QED
  BY <1>1, <1>2

LEMMA ServeType ==
  ASSUME TypeInv, NEW t \in Threads, Receive(t) \/ answer_call(t)
  PROVE  TypeInv'
<1>1. proc \in Serving
  BY DEF Receive, answer_call, insert_item, delete_item, read_item, LogLock, AppendLog, Send,
         AtTable, Runs
<1>2. req[t].key \in Keys /\ req[t].value \in Values
  BY DEF TypeInv, TypeOK, Request
<1>3. CASE Receive(t)
  <2>1. due' \in [Keys -> SUBSET Content] /\ past' \in [Buckets -> SUBSET PartContent]
    BY <1>3, RememberType DEF Receive, TypeInv, PartContent
  <2> QED
    BY <1>1, <1>3, <2>1
       DEF Receive, Goto, TypeInv, TypeOK, files, saving, Serving, Starting, PartContent
<1>4. CASE insert_item(t) \/ delete_item(t) \/ read_item(t)
  <2>1. UNCHANGED <<proc, buffer, files, req, saving, bounds>>
    BY <1>4 DEF insert_item, delete_item, read_item
  <2>2. CASE NoChange(t)
    BY <1>1, <2>1, <2>2
       DEF NoChange, Goto, TypeInv, TypeOK, files, saving, bounds, history, Serving, Starting
  <2>3. CASE \E k \in Keys, v \in Values \cup {None} : Becomes(t, k, v)
    BY <1>1, <2>1, <2>3, BecomesType
  <2> QED
    BY <1>2, <1>4, <2>2, <2>3 DEF insert_item, delete_item, read_item
<1>5. CASE LogLock(t)
  BY <1>1, <1>5
     DEF LogLock, Goto, TypeInv, TypeOK, files, saving, bounds, history, Serving, Starting
<1>6. CASE AppendLog(t)
  BY <1>6, AppendLogType
<1>7. CASE Send(t)
  <2>1. due' \in [Keys -> SUBSET Content] /\ past' \in [Buckets -> SUBSET PartContent]
    <3> DEFINE d == IF Changes(req[t], table[req[t].key])
                    THEN [due EXCEPT ![req[t].key] = {table[req[t].key]}] ELSE due
    <3>1. table[req[t].key] \in Content
      BY <1>2 DEF TypeInv, TypeOK, Content
    <3>2. d \in [Keys -> SUBSET Content] /\ past \in [Buckets -> SUBSET PartContent]
      BY <3>1 DEF TypeInv, PartContent
    <3>3. Remember(d, past)
      BY <1>7 DEF Send
    <3> HIDE DEF d
    <3> QED
      BY <3>2, <3>3, RememberType
  <2>2. req' \in [Threads -> Request]
    BY <1>7, NoRequestType DEF Send, TypeInv, TypeOK
  <2> QED
    BY <1>1, <1>7, <2>1, <2>2
       DEF Send, Goto, TypeInv, TypeOK, files, saving, bounds, Serving, Starting, PartContent
<1> QED
  BY <1>3, <1>4, <1>5, <1>6, <1>7 DEF answer_call

LEMMA StartType ==
  ASSUME TypeInv, CreateHash \/ Recover \/ RecoverCrashes \/ RenameLog
  PROVE  TypeInv'
<1>1. CASE CreateHash
  BY <1>1, LogIsNoFile, EmptyType
     DEF CreateHash, TypeInv, TypeOK, thread, saving, history, Starting, Idle, Content
<1>2. CASE Recover
  <2>1. log \o tail \in Seq(Record)
    BY <1>2, FileType DEF Recover, File, Records, TypeInv
  <2>2. table' \in [Keys -> Content]
    BY <1>2, <2>1, BaseType, ReplayedType DEF Recover, process_hash_log, Base
  <2> QED
    BY <1>2, <2>2 DEF Recover, TypeInv, TypeOK, files, thread, saving, history, bounds,
                      Starting, Idle, Content
<1>3. CASE RenameLog
  <2>1. [k \in Keys |-> {table[k]}] \in [Keys -> SUBSET Content]
    BY DEF TypeInv, TypeOK, Content
  <2>2. due' \in [Keys -> SUBSET Content] /\ past' \in [Buckets -> SUBSET PartContent]
    BY <1>3, <2>1, RememberType DEF RenameLog, TypeInv, PartContent
  <2> QED
    BY <1>3, <2>2, LogIsNoFile, FatalIs
       DEF RenameLog, TypeInv, TypeOK, thread, saving, bounds, Starting, Idle, PartContent
<1>4. CASE RecoverCrashes
  BY <1>4, EndType, BreakTail DEF RecoverCrashes, Break, TypeInv
<1> QED
  BY <1>1, <1>2, <1>3, <1>4

LEMMA CleanUpType ==
  ASSUME TypeInv, (\E h \in Threads \cup {"main"} : Signal(h)) \/ CleanUp \/ UseAfterDelete \/ Kill
  PROVE  TypeInv'
<1>1. ASSUME NEW h \in Threads \cup {"main"}, Signal(h) PROVE TypeInv'
  <2>1. 0 \in 0 .. Size
    BY Sizes
  <2>2. due' \in [Keys -> SUBSET Content] /\ past' \in [Buckets -> SUBSET PartContent]
    BY <1>1, RememberType DEF Signal, TypeInv, PartContent
  <2> QED
    BY <1>1, <2>1, <2>2, EmptyType
       DEF Signal, TypeInv, TypeOK, files, thread, bounds, Starting, Leaving, Content, PartContent
<1>2. CASE SaveBucket
  <2>1. temp' \in [Keys -> Content]
    BY <1>2 DEF SaveBucket, TypeInv, TypeOK, Content
  <2>2. unsaved' \in 0 .. Size
    BY <1>2, Sizes DEF SaveBucket, TypeInv, TypeOK
  <2> QED
    BY <1>2, <2>1, <2>2
       DEF SaveBucket, TypeInv, TypeOK, files, thread, history, bounds, Starting, Content
<1>3. CASE RemoveBackup \/ DeleteHash
  BY <1>3 DEF RemoveBackup, DeleteHash, TypeInv, TypeOK, files, thread, saving, history, bounds,
              Starting, Leaving
<1>4. CASE RenameBackup
  <2>1. due' \in [Keys -> SUBSET Content] /\ past' \in [Buckets -> SUBSET PartContent]
    <3>1. \A b \in Buckets : Part(temp, b) \in PartContent
      BY PartType DEF TypeInv, TypeOK, Content
    <3>2. [b \in Buckets |-> {Part(temp, b)}] \in [Buckets -> SUBSET PartContent]
      BY <3>1
    <3> QED
      BY <1>4, <3>2, RememberType DEF RenameBackup, TypeInv
  <2> QED
    BY <1>4, <2>1 DEF RenameBackup, TypeInv, TypeOK, thread, saving, bounds, Starting, Leaving,
                      PartContent
<1>5. CASE DeleteLog \/ UseAfterDelete \/ Kill
  BY <1>5, EndType, BreakTail, FatalIs DEF DeleteLog, UseAfterDelete, Kill, Break, TypeInv
<1> QED
  BY <1>1, <1>2, <1>3, <1>4, <1>5 DEF CleanUp

LEMMA NextType == TypeInv /\ [Next]_vars => TypeInv'
<1> SUFFICES ASSUME TypeInv, [Next]_vars PROVE TypeInv'
  OBVIOUS
<1>1. CASE UNCHANGED vars
  BY <1>1 DEF vars, files, thread, saving, history, bounds, TypeInv, TypeOK, Idle
<1> QED
  BY <1>1, ServeType, StartType, CleanUpType DEF Next

-----------------------------------------------------------------------------
(* Locks.                                                                  *)

(* What a step of one thread does to what threads hold.                    *)
LEMMA OneThread ==
  ASSUME TypeInv, NEW t \in Threads, Receive(t) \/ answer_call(t)
  PROVE  /\ \A u \in Threads \ {t} : pc'[u] = pc[u] /\ req'[u] = req[u]
         /\ Runs(t) /\ proc' = proc /\ backup' = backup /\ kills' = kills
         /\ pc'[t] \in {"lock", "log"} => req'[t] = req[t]
         /\ pc'[t] = "lock" => AtTable(t)
         /\ pc'[t] = "log" =>
              pc[t] = "lock" /\ ~ \E u \in Threads : Holds(u, "log", Bucket(req[t].key))
<1> USE DEF TypeInv, TypeOK
<1>1. CASE Receive(t)
  BY <1>1 DEF Receive, Goto, files
<1>2. CASE insert_item(t) \/ delete_item(t) \/ read_item(t)
  <2>1. AtTable(t) /\ proc' = proc /\ UNCHANGED <<req, files, bounds>>
    BY <1>2 DEF insert_item, delete_item, read_item
  <2>2. Goto(t, "lock") \/ Goto(t, "send")
    BY <1>2 DEF insert_item, delete_item, read_item, Becomes, NoChange
  <2> QED
    BY <2>1, <2>2 DEF Goto, AtTable, files, bounds
<1>3. CASE LogLock(t)
  BY <1>3 DEF LogLock, Goto, files, bounds
<1>4. CASE AppendLog(t)
  BY <1>4 DEF AppendLog, Goto, bounds
<1>5. CASE Send(t)
  BY <1>5 DEF Send, Goto, files, bounds
<1> QED
  BY <1>1, <1>2, <1>3, <1>4, <1>5 DEF answer_call

LEMMA InitExclusive == Init => Exclusive
BY DEF Init, Exclusive, Holds

LEMMA ThreadExclusive ==
  ASSUME TypeInv, Exclusive, NEW t \in Threads, Receive(t) \/ answer_call(t)
  PROVE  Exclusive'
<1> SUFFICES ASSUME NEW u \in Threads, NEW v \in Threads, NEW b \in Buckets,
                    NEW what \in {"lock", "log"}, Holds(u, what, b)', Holds(v, what, b)'
             PROVE  u = v
  BY DEF Exclusive
<1>1. ASSUME NEW x \in Threads, x # t, Holds(x, what, b)' PROVE Holds(x, what, b)
  BY <1>1, OneThread DEF Holds
<1>2. ASSUME Holds(t, what, b)', NEW x \in Threads, x # t, Holds(x, what, b)' PROVE FALSE
  <2>1. Holds(x, what, b)
    BY <1>1, <1>2
  <2>2. pc'[t] = what /\ Bucket(req[t].key) = b
    BY <1>2, OneThread DEF Holds
  <2> QED
    BY <2>1, <2>2, OneThread DEF AtTable
<1>3. CASE u # t /\ v # t
  BY <1>1, <1>3 DEF Exclusive
<1> QED
  BY <1>2, <1>3

LEMMA NextExclusive == TypeInv /\ Exclusive /\ [Next]_vars => Exclusive'
<1> SUFFICES ASSUME TypeInv, Exclusive, [Next]_vars PROVE Exclusive'
  OBVIOUS
<1>1. ASSUME UNCHANGED <<pc, req>> PROVE Exclusive'
  BY <1>1 DEF Exclusive, Holds
<1>2. ASSUME End PROVE Exclusive'
  BY <1>2 DEF End, Exclusive, Holds
<1>3. ASSUME NEW t \in Threads, Receive(t) \/ answer_call(t) PROVE Exclusive'
  BY <1>3, ThreadExclusive
<1>4. CASE CreateHash \/ Recover \/ RecoverCrashes \/ RenameLog
  BY <1>1, <1>2, <1>4 DEF CreateHash, Recover, RecoverCrashes, Break, RenameLog, thread
<1>5. ASSUME NEW h \in Threads \cup {"main"}, Signal(h) PROVE Exclusive'
  BY <1>1, <1>5 DEF Signal, thread
<1>6. CASE CleanUp \/ UseAfterDelete \/ Kill
  BY <1>1, <1>2, <1>6 DEF CleanUp, SaveBucket, RemoveBackup, RenameBackup, DeleteHash, DeleteLog,
                          UseAfterDelete, Kill, Break, thread
<1>7. CASE UNCHANGED vars
  BY <1>1, <1>7 DEF vars, thread
<1> QED
  BY <1>3, <1>4, <1>5, <1>6, <1>7 DEF Next

-----------------------------------------------------------------------------
(* The process as it leaves, and without a kill.                           *)

(* A new backup is not taken for none.                                     *)
LEMMA BackupIsThere ==
  ASSUME TypeInv
  PROVE  temp # NoBackup
<1>1. PICK k \in Keys : TRUE
  BY LabAssumption
<1>2. temp[k] \in Content /\ NoBackup[k] = "no file"
  BY DEF TypeInv, TypeOK, NoBackup, Content
<1>3. "no file" \notin Content
  BY LabAssumption DEF Content, None, Junk
<1> QED
  BY <1>2, <1>3

LEMMA InitLeft == Init => Orderly /\ Left
BY EmptyType DEF Init, Orderly, Left, Base, create_hash_from_backup, Starting, Leaving, Empty

(* What the history becomes while it is kept.                              *)
LEMMA Remembered ==
  ASSUME NEW d, NEW p, Remember(d, p)
  PROVE  (~busy' => due' = d) /\ (~busy' /\ ~spoiled' => past' = p)
BY DEF Remember

LEMMA ThreadLeft ==
  ASSUME TypeInv, Orderly, Left, NEW t \in Threads, Receive(t) \/ answer_call(t)
  PROVE  Orderly' /\ Left'
<1>1. proc' = proc /\ backup' = backup /\ kills' = kills /\ proc \in Serving /\ temp' = temp
      /\ unsaved' = unsaved
  BY OneThread DEF Runs, Receive, answer_call, insert_item, delete_item, read_item, LogLock,
                   AppendLog, Send, saving
<1>2. CASE Receive(t)
  <2>1. /\ table' = table /\ spoiled' = spoiled /\ (~busy' => ~busy /\ proc = "serving")
        /\ ~busy' => due' = due
    BY <1>2, Remembered DEF Receive
  <2> QED
    BY <1>1, <2>1 DEF Orderly, Left, Serving, Starting, Leaving, Base, create_hash_from_backup
<1>3. CASE answer_call(t)
  <2>1. busy' = busy /\ pc[t] # "idle"
    BY <1>3 DEF answer_call, insert_item, delete_item, read_item, LogLock, AppendLog, Send,
                Becomes, NoChange, history, AtTable
  <2>2. ~busy /\ (\A k \in Keys : table[k] \in due[k]) => \A k \in Keys : table'[k] \in due'[k]
    <3> SUFFICES ASSUME ~busy', \A k \in Keys : table[k] \in due[k]
                 PROVE  \A k \in Keys : table'[k] \in due'[k]
      BY <2>1
    <3>1. CASE table' = table /\ due' = due
      BY <3>1
    <3>2. CASE Send(t)
      <4>1. due' = IF Changes(req[t], table[req[t].key])
                   THEN [due EXCEPT ![req[t].key] = {table[req[t].key]}] ELSE due
        BY <3>2, Remembered DEF Send
      <4> QED
        BY <3>2, <4>1 DEF Send, TypeInv, TypeOK
    <3>3. ASSUME NEW k \in Keys, NEW v \in Values \cup {None}, Becomes(t, k, v)
          PROVE  \A x \in Keys : table'[x] \in due'[x]
      <4>1. due' = [due EXCEPT ![k] = @ \cup {v}] /\ table' = [table EXCEPT ![k] = v]
        BY <3>3, Remembered DEF Becomes
      <4> QED
        BY <4>1 DEF TypeInv, TypeOK
    <3>4. req[t].key \in Keys /\ req[t].value \in Values
      BY DEF TypeInv, TypeOK, Request
    <3>5. CASE AppendLog(t)
      BY <3>1, <3>5, Remembered DEF AppendLog
    <3> QED
      BY <1>3, <3>1, <3>2, <3>3, <3>4, <3>5
         DEF answer_call, insert_item, delete_item, read_item, LogLock, NoChange, history
  <2>4. proc \in Leaving => busy
    BY <2>1 DEF Left, Idle
  <2> QED
    BY <1>1, <2>1, <2>2, <2>4
       DEF Orderly, Left, Serving, Starting, Leaving, Base, create_hash_from_backup
<1> QED
  BY <1>2, <1>3

LEMMA StartLeft ==
  ASSUME TypeInv, Orderly, Left, CreateHash \/ Recover \/ RecoverCrashes \/ RenameLog
  PROVE  Orderly' /\ Left'
<1>1. CASE CreateHash
  BY <1>1 DEF CreateHash, Orderly, Left, Starting, Leaving, Base, create_hash_from_backup,
              thread, saving, history
<1>2. CASE Recover
  <2>1. kills = 0 /\ ~busy => table' = Base
    <3>1. << >> \o << >> = << >>
      OBVIOUS
    <3> QED
      BY <1>2, <3>1, ReplayedEmpty DEF Recover, Orderly, Starting, process_hash_log, Base
  <2> QED
    BY <1>2, <2>1 DEF Recover, Orderly, Left, Starting, Leaving, Base, create_hash_from_backup,
                      files, thread, saving, history, bounds
<1>3. CASE RenameLog
  <2>1. ~busy' => \A k \in Keys : table'[k] \in due'[k]
    BY <1>3, Remembered DEF RenameLog
  <2> QED
    BY <1>3, <2>1 DEF RenameLog, Orderly, Left, Starting, Leaving, thread, saving, bounds
<1>4. CASE RecoverCrashes
  <2>1. ~(kills = 0 /\ ~busy)
    BY <1>4, FatalIs DEF RecoverCrashes, Orderly, Starting
  <2>2. kills' = kills /\ busy' = busy /\ proc' = "down"
    BY <1>4 DEF RecoverCrashes, Break, End, history
  <2> QED
    BY <2>1, <2>2 DEF Orderly, Left, Leaving
<1> QED
  BY <1>1, <1>2, <1>3, <1>4

LEMMA SaveLeft ==
  ASSUME TypeInv, Orderly, Left,
         (\E h \in Threads \cup {"main"} : Signal(h)) \/ CleanUp \/ UseAfterDelete \/ Kill
  PROVE  Orderly' /\ Left'
<1>1. ASSUME NEW h \in Threads \cup {"main"}, Signal(h) PROVE Orderly' /\ Left'
  <2>1. ~busy' => proc' = "saving" /\ \A t \in Threads : Idle(t)'
    BY <1>1 DEF Signal, Idle, thread
  <2>2. \A k \in Keys : ~(Bucket(k) < 0)
    BY BucketIs, Sizes DEF Buckets
  <2>3. proc = "serving" /\ proc' \in {"saving", "stuck"} /\ unsaved' = 0 /\ table' = table
        /\ (~busy' => due' = due) /\ kills' = kills /\ (~busy' => ~busy)
    BY <1>1, Remembered DEF Signal, bounds
  <2> QED
    BY <2>1, <2>2, <2>3 DEF Orderly, Left, Starting, Leaving
<1>2. CASE SaveBucket
  <2>1. \A k \in Keys : Bucket(k) < unsaved' =>
          (Bucket(k) < unsaved \/ Bucket(k) = unsaved) /\ Bucket(k) \in Nat
    BY <1>2, BucketIs, Sizes DEF SaveBucket, TypeInv, TypeOK, Buckets
  <2>2. \A k \in Keys : temp'[k] = IF Bucket(k) = unsaved THEN table[k] ELSE temp[k]
    BY <1>2 DEF SaveBucket
  <2> QED
    BY <1>2, <2>1, <2>2 DEF SaveBucket, Orderly, Left, Starting, Leaving, Idle,
                            files, thread, history, bounds
<1>3. CASE RemoveBackup
  <2>1. \A k \in Keys : Bucket(k) < Size
    BY BucketIs, Sizes DEF Buckets
  <2>2. kills = 0 /\ ~busy => temp = table
    BY <1>3, <2>1 DEF RemoveBackup, Orderly, TypeInv, TypeOK
  <2> QED
    BY <1>3, <2>2 DEF RemoveBackup, Orderly, Left, Starting, Leaving, Idle, thread, saving,
                      history, bounds
<1>4. CASE RenameBackup
  <2>1. /\ ~busy' => due' = due
        /\ ~busy' /\ ~spoiled' => past' = [b \in Buckets |-> {Part(temp, b)}]
    BY <1>4, Remembered DEF RenameBackup
  <2>2. ~busy' /\ ~spoiled' => \A b \in Buckets : Part(temp', b) \in past'[b]
    BY <1>4, <2>1 DEF RenameBackup, saving, Part
  <2> QED
    BY <1>4, <2>1, <2>2
       DEF RenameBackup, Orderly, Left, Starting, Leaving, Idle, thread, saving, bounds
<1>5. CASE DeleteHash
  BY <1>5 DEF DeleteHash, Orderly, Left, Starting, Leaving, Idle, files, thread, saving, history,
              bounds
<1>6. CASE DeleteLog
  <2>1. backup' = temp /\ Base' = temp /\ due' = due /\ proc' = "down" /\ log' = NoLog
        /\ tail' = << >> /\ busy' = busy /\ kills' = kills
    BY <1>6, BackupIsThere DEF DeleteLog, End, Left, Base, create_hash_from_backup, history
  <2> QED
    BY <1>6, <2>1 DEF DeleteLog, Orderly, Left, Starting, Leaving
<1>7. CASE UseAfterDelete
  <2>1. busy /\ busy' /\ proc' = "down"
    BY <1>7 DEF UseAfterDelete, Break, End, Left, Leaving, history
  <2> QED
    BY <2>1 DEF Orderly, Left, Leaving
<1>8. CASE Kill
  <2>1. kills' # 0 /\ proc' = "down"
    BY <1>8 DEF Kill, Break, End, TypeInv
  <2> QED
    BY <2>1 DEF Orderly, Left, Leaving
<1> QED
  BY <1>1, <1>2, <1>3, <1>4, <1>5, <1>6, <1>7, <1>8 DEF CleanUp

LEMMA NextLeft == TypeInv /\ Orderly /\ Left /\ [Next]_vars => Orderly' /\ Left'
<1> SUFFICES ASSUME TypeInv, Orderly, Left, [Next]_vars PROVE Orderly' /\ Left'
  OBVIOUS
<1>1. CASE UNCHANGED vars
  BY <1>1 DEF vars, files, thread, saving, history, bounds, Orderly, Left, Idle, Base,
              create_hash_from_backup
<1> QED
  BY <1>1, ThreadLeft, StartLeft, SaveLeft DEF Next

-----------------------------------------------------------------------------
(* A process that was not killed before, and serves.                       *)

LEMMA StreamType ==
  ASSUME TypeInv, proc # "down"
  PROVE  /\ Stream \in Seq(Record) /\ log \in Seq(Record)
         /\ Logs \in [Keys -> Content]
         /\ \A b : Written(b) \subseteq [Keys -> Content]
<1>1. log \in Seq(Record) /\ buffer \in Seq(Record)
  BY DEF TypeInv, TypeOK
<1>2. Stream \in Seq(Record)
  BY <1>1 DEF Stream
<1>3. Logs \in [Keys -> Content]
  BY <1>2, BaseType, ReplayedType DEF Logs
<1>4. \A t \in Threads : Replay(Logs, RecordOf(t)) \in [Keys -> Content]
  BY <1>3, LoggedType, ReplayIs
<1> QED
  BY <1>1, <1>2, <1>3, <1>4 DEF Written

(* A record changes a bucket as it would another with the same items.      *)
LEMMA ReplayAgrees ==
  ASSUME NEW f \in [Keys -> Content], NEW g \in [Keys -> Content], NEW r \in Record, NEW b,
         Part(f, b) = Part(g, b)
  PROVE  Part(Replay(f, r), b) = Part(Replay(g, r), b)
<1>1. \A k \in InBucket(b) : f[k] = g[k]
  BY PartIs
<1>2. \A k \in InBucket(b) : Replay(f, r)[k] = Replay(g, r)[k]
  BY <1>1, ReplayIs DEF InBucket
<1> QED
  BY <1>2, PartIs

LEMMA OtherBucket ==
  ASSUME NEW f \in [Keys -> Content], NEW r \in Record, NEW b, Bucket(r.key) # b
  PROVE  Part(Replay(f, r), b) = Part(f, b)
<1>1. \A k \in InBucket(b) : Replay(f, r)[k] = f[k]
  BY ReplayIs DEF InBucket
<1> QED
  BY <1>1, PartIs

(* Nothing is changed in bucket b, nor what its threads hold.              *)
LEMMA SameWritten ==
  ASSUME NEW b, Logs' = Logs,
         \A t \in Threads : Holds(t, "log", b)' <=> Holds(t, "log", b),
         \A t \in Threads : Holds(t, "log", b) => req'[t] = req[t]
  PROVE  Written(b)' = Written(b)
<1>1. \A t \in Threads : Holds(t, "log", b) => RecordOf(t)' = RecordOf(t)
  BY DEF RecordOf
<1> QED
  BY <1>1 DEF Written

LEMMA SameFollows ==
  ASSUME NEW b, Follows(b), Written(b)' = Written(b),
         \A t \in Threads : Holds(t, "lock", b)' <=> Holds(t, "lock", b),
         \A t \in Threads : Holds(t, "lock", b) => req'[t] = req[t],
         past[b] \subseteq past'[b], Part(table, b)' = Part(table, b)
  PROVE  Follows(b)'
<1>1. \A t \in Threads : Holds(t, "lock", b) => RecordOf(t)' = RecordOf(t)
  BY DEF RecordOf
<1>2. PICK W \in Written(b) :
        /\ Part(W, b) \in past[b]
        /\ IF \E t \in Threads : Holds(t, "lock", b)
           THEN \A t \in Threads :
                  Holds(t, "lock", b) => Part(Replay(W, RecordOf(t)), b) = Part(table, b)
           ELSE Part(W, b) = Part(table, b)
  BY DEF Follows
<1>3. Part(W, b) \in past'[b]
  BY <1>2
<1>4. IF \E t \in Threads : Holds(t, "lock", b)'
      THEN \A t \in Threads :
             Holds(t, "lock", b)' => Part(Replay(W, RecordOf(t)'), b) = Part(table, b)'
      ELSE Part(W, b) = Part(table, b)'
  BY <1>1, <1>2
<1> QED
  BY <1>3, <1>4 DEF Follows

LEMMA SameLogs ==
  ASSUME UNCHANGED <<log, buffer, backup>>
  PROVE  Base' = Base /\ Stream' = Stream /\ Logs' = Logs
BY DEF Base, create_hash_from_backup, Stream, Logs

LEMMA SamePrefixes ==
  ASSUME TypeInv, Prefixes, UNCHANGED <<log, buffer, backup>>,
         \A b \in Buckets : past[b] \subseteq past'[b]
  PROVE  Prefixes'
BY SameLogs DEF Prefixes

(* A step that moves neither records nor items.                            *)
LEMMA IdleInTime ==
  ASSUME TypeInv, InTime, UNCHANGED <<log, buffer, backup, table, past>>,
         \A t \in Threads, b \in Buckets, what \in {"lock", "log"} :
           /\ Holds(t, what, b)' <=> Holds(t, what, b)
           /\ Holds(t, what, b) => req'[t] = req[t]
  PROVE  InTime'
<1>1. Prefixes'
  BY SamePrefixes DEF InTime
<1>2. ASSUME NEW b \in Buckets PROVE Part(table, b)' \in past'[b] /\ Follows(b)'
  <2>1. Written(b)' = Written(b)
    BY SameLogs, SameWritten
  <2>2. Part(table, b)' = Part(table, b)
    BY DEF Part
  <2> QED
    BY <2>1, <2>2, SameFollows DEF InTime
<1> QED
  BY <1>1, <1>2 DEF InTime

(* A bucket without a thread at its lock is what was written.              *)
LEMMA FollowsUnlocked ==
  ASSUME NEW b, Follows(b), ~ \E t \in Threads : Holds(t, "lock", b)
  PROVE  \E W \in Written(b) : Part(W, b) \in past[b] /\ Part(W, b) = Part(table, b)
BY DEF Follows

LEMMA FollowsLocked ==
  ASSUME NEW b, Follows(b), NEW t \in Threads, Holds(t, "lock", b)
  PROVE  \E W \in Written(b) :
           Part(W, b) \in past[b] /\ Part(Replay(W, RecordOf(t)), b) = Part(table, b)
BY DEF Follows

(* An item was changed in a bucket.                                        *)
LEMMA BecomesInTime ==
  ASSUME TypeInv, InTime, NEW t \in Threads, NEW v \in Values \cup {None}, AtTable(t),
         Becomes(t, req[t].key, v), UNCHANGED <<proc, buffer, files, req, saving, bounds>>,
         ~spoiled', ~busy',
         IF req[t].op = "DELETE_REQ" THEN v = None ELSE v = req[t].value
  PROVE  InTime'
<1> SUFFICES ASSUME NEW k \in Keys, k = req[t].key, NEW c \in Buckets, c = Bucket(k)
             PROVE  InTime'
  BY BucketIs DEF TypeInv, TypeOK, Request
<1>1. /\ req[t] \in Request /\ k \in Keys /\ c \in Buckets /\ proc # "down"
      /\ pc[t] = "change" /\ ~ \E u \in Threads : Holds(u, "lock", c)
  BY BucketIs DEF AtTable, Runs, Serving, TypeInv, TypeOK, Request
<1>2. /\ table' = [table EXCEPT ![k] = v] /\ pc' = [pc EXCEPT ![t] = "lock"]
      /\ past' = [past EXCEPT ![c] = @ \cup {Part(table', c)}]
      /\ v # None => table[k] = None
      /\ UNCHANGED <<log, buffer, backup, req>>
  BY Remembered DEF Becomes, Goto, files
<1>3. table \in [Keys -> Content] /\ table' \in [Keys -> Content] /\ pc \in [Threads -> {"idle", "change", "lock", "log", "send"}]
      /\ past \in [Buckets -> SUBSET PartContent]
  <2>1. table \in [Keys -> Content] /\ pc \in [Threads -> {"idle", "change", "lock", "log", "send"}]
    BY DEF TypeInv, TypeOK, Content
  <2> QED
    BY <1>1, <1>2, <2>1 DEF Content, TypeInv, PartContent
<1>4. \A b \in Buckets : past[b] \subseteq past'[b]
  BY <1>2, <1>3
<1>5. Prefixes'
  BY <1>2, <1>4, SamePrefixes DEF InTime
<1>6. \A u \in Threads, b \in Buckets : Holds(u, "log", b)' <=> Holds(u, "log", b)
  BY <1>1, <1>2, <1>3 DEF Holds
<1>7. \A b \in Buckets : Written(b)' = Written(b)
  BY <1>2, <1>6, SameLogs, SameWritten
<1>8. \A u \in Threads, b \in Buckets : u # t \/ b # c => (Holds(u, "lock", b)' <=> Holds(u, "lock", b))
  BY <1>1, <1>2, <1>3 DEF Holds
<1>9. Holds(t, "lock", c)'
  BY <1>2, <1>3 DEF Holds
<1>10. ASSUME NEW b \in Buckets, b # c
       PROVE  Part(table, b)' \in past'[b] /\ Follows(b)'
  <2>1. Part(table, b)' = Part(table, b)
    <3>1. \A x \in InBucket(b) : table'[x] = table[x]
      BY <1>2, <1>3, <1>10 DEF InBucket
    <3> QED
      BY <3>1, PartIs DEF Part
  <2>2. Follows(b) /\ Part(table, b) \in past[b]
    BY DEF InTime
  <2> QED
    BY <1>2, <1>4, <1>7, <1>8, <1>10, <2>1, <2>2, SameFollows
<1>11. Part(table, c)' \in past'[c]
  <2>1. Part(table, c)' = Part(table', c)
    BY DEF Part
  <2> QED
    BY <1>1, <1>2, <1>3, <2>1
<1>12. Follows(c)'
  <2>1. PICK W \in Written(c) : Part(W, c) \in past[c] /\ Part(W, c) = Part(table, c)
    BY <1>1, FollowsUnlocked DEF InTime
  <2>2. W \in [Keys -> Content]
    BY <1>1, <2>1, StreamType
  <2>3. Part(Replay(W, RecordOf(t)), c) = Part(table', c)
    <3>1. \A x \in InBucket(c) : W[x] = table[x]
      BY <2>1, PartIs
    <3>2. k \in InBucket(c)
      BY <1>1 DEF InBucket
    <3>3. RecordOf(t) \in Record /\ RecordOf(t).key = k
          /\ (RecordOf(t).type = "D" <=> req[t].op = "DELETE_REQ")
          /\ (req[t].op # "DELETE_REQ" => RecordOf(t).value = req[t].value)
      BY LoggedType DEF RecordOf
    <3>4. ASSUME NEW x \in InBucket(c), x # k PROVE Replay(W, RecordOf(t))[x] = table'[x]
      <4>1. x \in Keys
        BY DEF InBucket
      <4> QED
        BY <1>2, <1>3, <2>2, <3>1, <3>3, <3>4, <4>1, ReplayIs
    <3>5. Replay(W, RecordOf(t))[k] = table'[k]
      <4>1. table'[k] = v
        BY <1>1, <1>2, <1>3
      <4>2. CASE req[t].op = "DELETE_REQ"
        BY <1>1, <2>2, <3>3, <4>1, <4>2, ReplayIs
      <4>3. CASE req[t].op # "DELETE_REQ"
        <5>1. v = req[t].value /\ v \in Values /\ v # None
          BY <1>1, <4>3, LabAssumption DEF Request
        <5>2. W[k] = None
          BY <1>2, <3>1, <3>2, <5>1
        <5> QED
          BY <1>1, <2>2, <3>3, <4>1, <4>3, <5>1, <5>2, ReplayIs
      <4> QED
        BY <4>2, <4>3
    <3> QED
      BY <3>4, <3>5, PartIs
  <2>4. Part(table, c)' = Part(table', c)
    BY DEF Part
  <2>5. \A u \in Threads : Holds(u, "lock", c)' => u = t
    BY <1>1, <1>8
  <2>6. RecordOf(t)' = RecordOf(t)
    BY <1>2 DEF RecordOf
  <2>7. W \in Written(c)' /\ Part(W, c) \in past'[c]
    BY <1>1, <1>4, <1>7, <2>1
  <2>8. \A u \in Threads :
          Holds(u, "lock", c)' => Part(Replay(W, RecordOf(u)'), c) = Part(table, c)'
    BY <2>3, <2>4, <2>5, <2>6
  <2> QED
    BY <1>9, <2>7, <2>8 DEF Follows
<1> QED
  BY <1>5, <1>10, <1>11, <1>12 DEF InTime

(* The bucket's lock is exchanged for the mutex of its records.            *)
LEMMA LogLockInTime ==
  ASSUME TypeInv, Exclusive, InTime, NEW t \in Threads, LogLock(t)
  PROVE  InTime'
<1> SUFFICES ASSUME NEW c \in Buckets, c = Bucket(req[t].key) PROVE InTime'
  BY BucketIs DEF TypeInv, TypeOK, Request
<1>1. /\ pc[t] = "lock" /\ ~ \E u \in Threads : Holds(u, "log", c)
      /\ pc' = [pc EXCEPT ![t] = "log"] /\ proc # "down"
      /\ UNCHANGED <<log, buffer, backup, table, past, req>>
  BY DEF LogLock, Runs, Serving, Goto, files, history
<1>2. \A u \in Threads : pc'[u] = IF u = t THEN "log" ELSE pc[u]
  BY <1>1 DEF TypeInv, TypeOK
<1>3. Prefixes'
  BY <1>1, SamePrefixes DEF InTime
<1>4. \A b \in Buckets : Part(table, b)' = Part(table, b)
  BY <1>1 DEF Part
<1>5. ASSUME NEW b \in Buckets, b # c PROVE Follows(b)'
  <2>1. \A u \in Threads, what \in {"lock", "log"} :
          Holds(u, what, b)' <=> Holds(u, what, b)
    BY <1>1, <1>2, <1>5 DEF Holds
  <2>2. Written(b)' = Written(b)
    BY <1>1, <2>1, SameLogs, SameWritten
  <2> QED
    BY <1>1, <1>4, <2>1, <2>2, SameFollows DEF InTime
<1>6. Follows(c)'
  <2>1. Holds(t, "lock", c) /\ Holds(t, "log", c)'
    BY <1>1, <1>2 DEF Holds
  <2>2. Written(c) = {Logs}
    BY <1>1 DEF Written
  <2>3. Part(Replay(Logs, RecordOf(t)), c) = Part(table, c)
    BY <2>1, <2>2, FollowsLocked DEF InTime
  <2>4. \A u \in Threads : Holds(u, "log", c)' <=> u = t
    BY <1>1, <1>2, <2>1 DEF Holds
  <2>5. ~ \E u \in Threads : Holds(u, "lock", c)'
    BY <1>1, <1>2, <2>1 DEF Holds, Exclusive
  <2>6. RecordOf(t)' = RecordOf(t) /\ Logs' = Logs
    BY <1>1, SameLogs DEF RecordOf
  <2>7. Replay(Logs, RecordOf(t)) \in Written(c)'
    BY <2>1, <2>6 DEF Written
  <2>8. Part(Replay(Logs, RecordOf(t)), c) \in past'[c]
    BY <1>1, <2>3 DEF InTime
  <2> QED
    BY <1>4, <2>3, <2>5, <2>7, <2>8 DEF Follows
<1> QED
  BY <1>1, <1>3, <1>4, <1>5, <1>6 DEF InTime

(* A record is written to the stream.                                      *)
LEMMA StreamGrows ==
  ASSUME TypeInv, proc # "down", NEW t \in Threads, AppendLog(t), ~spoiled'
  PROVE  /\ RecordOf(t) \in Record /\ Stream' = Append(Stream, RecordOf(t))
         /\ Base' = Base /\ Logs' = Replay(Logs, RecordOf(t))
<1>1. PICK r \in Logged(t) :
        /\ ~(r.value = Junk)
        /\ \/ buffer' = Append(buffer, r) /\ log' = log
           \/ buffer' = <<r>> /\ log' = log \o buffer
           \/ buffer' = << >> /\ log' = log \o Append(buffer, r)
  BY DEF AppendLog
<1>2. r = RecordOf(t) /\ r \in Record
  BY <1>1, LoggedType DEF Logged, RecordOf
<1>3. log \in Seq(Record) /\ buffer \in Seq(Record)
  BY StreamType DEF TypeInv, TypeOK
<1>4. Stream' = Append(Stream, r)
  <2>1. log \o Append(buffer, r) = Append(log \o buffer, r)
    BY <1>2, <1>3
  <2>2. (log \o Append(buffer, r)) \o << >> = log \o Append(buffer, r)
    BY <1>2, <1>3
  <2>3. (log \o buffer) \o <<r>> = Append(log \o buffer, r)
    BY <1>2, <1>3
  <2> QED
    BY <1>1, <2>1, <2>2, <2>3 DEF Stream
<1>5. Base' = Base
  BY DEF AppendLog, Base, create_hash_from_backup
<1>6. Logs' = Replay(Logs, r)
  BY <1>2, <1>4, <1>5, StreamType, ReplayedAppend DEF Logs
<1> QED
  BY <1>2, <1>4, <1>5, <1>6

LEMMA AppendLogInTime ==
  ASSUME TypeInv, Exclusive, InTime, NEW t \in Threads, AppendLog(t), ~spoiled', ~busy'
  PROVE  InTime'
<1> SUFFICES ASSUME NEW c \in Buckets, c = Bucket(req[t].key) PROVE InTime'
  BY BucketIs DEF TypeInv, TypeOK, Request
<1>1. /\ pc[t] = "log" /\ pc' = [pc EXCEPT ![t] = "send"] /\ proc # "down"
      /\ UNCHANGED <<backup, table, past, req>>
  BY Remembered DEF AppendLog, Runs, Serving, Goto
<1>2. \A u \in Threads : pc'[u] = IF u = t THEN "send" ELSE pc[u]
  BY <1>1 DEF TypeInv, TypeOK
<1>3. /\ RecordOf(t) \in Record /\ Stream' = Append(Stream, RecordOf(t))
      /\ Base' = Base /\ Logs' = Replay(Logs, RecordOf(t))
      /\ Stream \in Seq(Record) /\ Logs \in [Keys -> Content]
  BY <1>1, StreamGrows, StreamType
<1>4. \A b \in Buckets : Part(table, b)' = Part(table, b)
  BY <1>1 DEF Part
<1>5. \A u \in Threads : RecordOf(u)' = RecordOf(u)
  BY <1>1 DEF RecordOf
<1>6. \A u \in Threads, b \in Buckets : Holds(u, "lock", b)' <=> Holds(u, "lock", b)
  BY <1>1, <1>2 DEF Holds
<1>7. Holds(t, "log", c) /\ Bucket(RecordOf(t).key) = c
  BY <1>1 DEF Holds, RecordOf
(* The records make of bucket b what one of its states is.                 *)
<1>8. ASSUME NEW b \in Buckets, b # c
      PROVE  Follows(b)' /\ Part(Logs', b) = Part(Logs, b)
  <2>1. \A u \in Threads : Holds(u, "log", b)' <=> Holds(u, "log", b)
    BY <1>1, <1>2, <1>8 DEF Holds
  <2>2. Part(Logs', b) = Part(Logs, b)
    BY <1>3, <1>7, <1>8, OtherBucket
  <2>3. PICK W \in Written(b) :
          /\ Part(W, b) \in past[b]
          /\ IF \E u \in Threads : Holds(u, "lock", b)
             THEN \A u \in Threads :
                    Holds(u, "lock", b) => Part(Replay(W, RecordOf(u)), b) = Part(table, b)
             ELSE Part(W, b) = Part(table, b)
    BY DEF InTime, Follows
  <2>4. \E V \in Written(b)' : V \in [Keys -> Content] /\ Part(V, b) = Part(W, b)
    <3>1. CASE ~ \E u \in Threads : Holds(u, "log", b)
      <4>1. Written(b) = {Logs}
        BY <3>1 DEF Written
      <4>2. Written(b)' = {Logs'}
        BY <2>1, <3>1 DEF Written
      <4> QED
        BY <1>3, <2>2, <2>3, <4>1, <4>2, ReplayIs
    <3>2. CASE \E u \in Threads : Holds(u, "log", b)
      <4>1. PICK u \in Threads : Holds(u, "log", b) /\ W = Replay(Logs, RecordOf(u))
        BY <2>3, <3>2 DEF Written
      <4>2. Replay(Logs', RecordOf(u)) \in Written(b)'
        BY <1>5, <2>1, <4>1 DEF Written
      <4>3. Logs' \in [Keys -> Content] /\ RecordOf(u) \in Record
        BY <1>3, ReplayIs, LoggedType
      <4>4. Part(Replay(Logs', RecordOf(u)), b) = Part(W, b)
        BY <1>3, <2>2, <4>1, <4>3, ReplayAgrees
      <4>5. Replay(Logs', RecordOf(u)) \in [Keys -> Content]
        BY <4>3, ReplayIs
      <4> QED
        BY <4>2, <4>4, <4>5
    <3> QED
      BY <3>1, <3>2
  <2>5. PICK V \in Written(b)' : V \in [Keys -> Content] /\ Part(V, b) = Part(W, b)
    BY <2>4
  <2>6. W \in [Keys -> Content] /\ \A u \in Threads : RecordOf(u) \in Record
    BY <1>1, <2>3, StreamType, LoggedType
  <2>7. \A u \in Threads : Part(Replay(V, RecordOf(u)), b) = Part(Replay(W, RecordOf(u)), b)
    BY <2>5, <2>6, ReplayAgrees
  <2>8. IF \E u \in Threads : Holds(u, "lock", b)'
        THEN \A u \in Threads :
               Holds(u, "lock", b)' => Part(Replay(V, RecordOf(u)'), b) = Part(table, b)'
        ELSE Part(V, b) = Part(table, b)'
    BY <1>4, <1>5, <1>6, <2>3, <2>5, <2>7
  <2>9. Follows(b)'
    BY <1>1, <2>3, <2>5, <2>8 DEF Follows
  <2> QED
    BY <2>2, <2>9
<1>9. Follows(c)' /\ Part(Logs', c) \in past[c]
  <2>1. Written(c) = {Logs'}
    <3>1. {u \in Threads : Holds(u, "log", c)} = {t}
      BY <1>7 DEF Exclusive
    <3> QED
      BY <1>3, <1>7, <3>1 DEF Written
  <2>2. ~ \E u \in Threads : Holds(u, "log", c)'
    BY <1>1, <1>2, <1>7 DEF Holds, Exclusive
  <2>3. Written(c)' = {Logs'}
    BY <2>2 DEF Written
  <2>4. Written(c)' = Written(c)
    BY <2>1, <2>3
  <2>5. Follows(c)'
    BY <1>1, <1>4, <1>6, <2>4, SameFollows DEF InTime
  <2> QED
    BY <2>1, <2>5 DEF InTime, Follows
<1>10. Prefixes'
  <2>1. ASSUME NEW n \in 0 .. Len(Stream'), NEW b \in Buckets
        PROVE  Part(Replayed(Base', SubSeq(Stream', 1, n)), b) \in past'[b]
    <3>1. Len(Stream') = Len(Stream) + 1 /\ Len(Stream) \in Nat
      BY <1>3
    <3>2. CASE n \in 0 .. Len(Stream)
      <4>1. SubSeq(Stream', 1, n) = SubSeq(Stream, 1, n)
        BY <1>3, <3>2
      <4> QED
        BY <1>1, <1>3, <3>2, <4>1 DEF InTime, Prefixes
    <3>3. CASE n = Len(Stream')
      <4>1. SubSeq(Stream', 1, n) = Stream'
        BY <1>3, <3>3
      <4>2. Part(Logs', b) \in past[b]
        <5>1. CASE b = c
          BY <1>9, <5>1
        <5>2. CASE b # c
          <6>1. Part(Replayed(Base, SubSeq(Stream, 1, Len(Stream))), b) \in past[b]
            BY <3>1 DEF InTime, Prefixes
          <6>2. SubSeq(Stream, 1, Len(Stream)) = Stream
            BY <1>3
          <6> QED
            BY <1>8, <5>2, <6>1, <6>2 DEF Logs
        <5> QED
          BY <5>1, <5>2
      <4> QED
        BY <1>1, <4>1, <4>2 DEF Logs
    <3> QED
      BY <3>1, <3>2, <3>3
  <2> QED
    BY <2>1 DEF Prefixes
<1> QED
  BY <1>1, <1>4, <1>8, <1>9, <1>10 DEF InTime

LEMMA ThreadServes ==
  ASSUME TypeInv, Exclusive, Serves, NEW t \in Threads, Receive(t) \/ answer_call(t)
  PROVE  Serves'
<1> SUFFICES ASSUME proc' = "serving", kills' = 0, ~busy', ~spoiled' PROVE InTime'
  BY DEF Serves
<1>1. req[t].key \in Keys /\ req[t].value \in Values /\ req[t].op \in Op
  BY DEF TypeInv, TypeOK, Request
<1>2. InTime /\ proc # "down"
  <2>1. proc = "serving" /\ kills = 0
    BY OneThread
  <2>2. ~busy /\ ~spoiled
    <3>1. CASE Receive(t)
      BY <3>1 DEF Receive
    <3>2. CASE insert_item(t) \/ delete_item(t) \/ read_item(t)
      <4>1. (\E k \in Keys, v \in Values \cup {None} : Becomes(t, k, v)) \/ NoChange(t)
        BY <3>2, <1>1 DEF insert_item, delete_item, read_item
      <4>2. ASSUME NEW k, NEW v, Becomes(t, k, v) PROVE ~busy /\ ~spoiled
        <5>1. spoiled' = (spoiled \/ None \notin {table[k], v}) /\ busy' = busy
          BY <4>2 DEF Becomes
        <5> QED
          BY <5>1
      <4>3. CASE NoChange(t)
        BY <4>3 DEF NoChange, history
      <4> QED
        BY <4>1, <4>2, <4>3
    <3>3. CASE LogLock(t)
      BY <3>3 DEF LogLock, history
    <3>4. CASE AppendLog(t)
      BY <3>4 DEF AppendLog
    <3>5. CASE Send(t)
      BY <3>5 DEF Send
    <3> QED
      BY <3>1, <3>2, <3>3, <3>4, <3>5 DEF answer_call
  <2> QED
    BY <2>1, <2>2 DEF Serves
<1>3. ASSUME pc[t] \notin {"lock", "log"}, pc'[t] \notin {"lock", "log"},
             UNCHANGED <<log, buffer, backup, table, past>>
      PROVE  InTime'
  <2>1. ASSUME NEW u \in Threads, NEW b \in Buckets, NEW what \in {"lock", "log"}
        PROVE  /\ Holds(u, what, b)' <=> Holds(u, what, b)
               /\ Holds(u, what, b) => req'[u] = req[u]
    BY <1>3, OneThread DEF Holds
  <2> QED
    BY <1>2, <1>3, <2>1, IdleInTime
<1>4. CASE Receive(t)
  <2>1. pc[t] = "idle" /\ pc'[t] = "change" /\ UNCHANGED <<log, buffer, backup, table, past>>
    BY <1>4, Remembered DEF Receive, Idle, Goto, files, TypeInv, TypeOK
  <2> QED
    BY <1>3, <2>1
<1>5. CASE Send(t)
  <2>1. pc[t] = "send" /\ pc'[t] = "idle" /\ UNCHANGED <<log, buffer, backup, table, past>>
    BY <1>5, Remembered DEF Send, Goto, files, TypeInv, TypeOK
  <2> QED
    BY <1>3, <2>1
<1>6. CASE AtTable(t) /\ NoChange(t) /\ UNCHANGED <<buffer, files>>
  <2>1. pc[t] = "change" /\ pc'[t] = "send" /\ UNCHANGED <<log, buffer, backup, table, past>>
    BY <1>6 DEF AtTable, NoChange, Goto, files, history, TypeInv, TypeOK
  <2> QED
    BY <1>3, <2>1
<1>7. CASE insert_item(t)
  <2>1. AtTable(t) /\ req[t].op # "DELETE_REQ"
        /\ UNCHANGED <<proc, buffer, files, req, saving, bounds>>
        /\ (Becomes(t, req[t].key, req[t].value) \/ NoChange(t))
    BY <1>7 DEF insert_item
  <2> QED
    BY <1>2, <1>1, <1>6, <2>1, BecomesInTime
<1>8. CASE delete_item(t)
  <2>1. AtTable(t) /\ req[t].op = "DELETE_REQ"
        /\ UNCHANGED <<proc, buffer, files, req, saving, bounds>>
        /\ (Becomes(t, req[t].key, None) \/ NoChange(t))
    BY <1>8 DEF delete_item
  <2> QED
    BY <1>2, <1>1, <1>6, <2>1, BecomesInTime
<1>9. CASE read_item(t)
  BY <1>6, <1>9 DEF read_item
<1>10. CASE LogLock(t)
  BY <1>2, <1>10, LogLockInTime
<1>11. CASE AppendLog(t)
  BY <1>2, <1>11, AppendLogInTime
<1> QED
  BY <1>4, <1>5, <1>7, <1>8, <1>9, <1>10, <1>11 DEF answer_call

(* A bucket is one of its states if nothing is misread, and near it else.  *)
LEMMA NearIs ==
  ASSUME NEW f \in [Keys -> Content], NEW b \in Buckets
  PROVE  /\ tail = << >> /\ Near(f, b) => Part(f, b) \in past[b]
         /\ \A g \in [Keys -> Content] :
              (\A k \in Keys \ Misread : g[k] = f[k]) /\ Part(f, b) \in past[b] => Near(g, b)
<1>1. ASSUME tail = << >>, Near(f, b) PROVE Part(f, b) \in past[b]
  <2>1. Misread = {}
    BY <1>1 DEF Misread
  <2>2. PICK g \in [Keys -> Content] :
          Part(g, b) \in past[b] /\ \A k \in InBucket(b) \ Misread : f[k] = g[k]
    BY <1>1 DEF Near
  <2>3. Part(f, b) = Part(g, b)
    BY <2>1, <2>2, PartIs
  <2> QED
    BY <2>2, <2>3
<1>2. ASSUME NEW g \in [Keys -> Content], \A k \in Keys \ Misread : g[k] = f[k],
             Part(f, b) \in past[b]
      PROVE  Near(g, b)
  BY <1>2 DEF Near, InBucket
<1> QED
  BY <1>1, <1>2

(* The server that starts to serve has an empty log.                       *)
LEMMA RenameLogServes ==
  ASSUME TypeInv, Orderly, Recovers, RenameLog
  PROVE  Serves'
<1> SUFFICES ASSUME kills' = 0, ~busy', ~spoiled' PROVE InTime'
  BY DEF Serves
<1>1. /\ proc = "loaded" /\ kills = 0 /\ ~busy /\ ~spoiled /\ log' = << >> /\ buffer' = << >>
      /\ buffer = << >> /\ UNCHANGED <<table, backup, pc, req, past>>
      /\ \A t \in Threads : Idle(t)
  BY Remembered DEF RenameLog, thread, bounds, TypeInv, Starting
<1>2. table = Base /\ log = << >> /\ tail = << >>
  BY <1>1 DEF Orderly, Starting
<1>3. ASSUME NEW b \in Buckets PROVE Part(table, b) \in past[b]
  <2>1. table = Replayed(Base, File) /\ Near(Replayed(Base, File), b)
    BY <1>1, <1>2, FatalIs DEF Recovers, Starting
  <2>2. table \in [Keys -> Content]
    BY DEF TypeInv, TypeOK, Content
  <2> QED
    BY <1>2, <2>1, <2>2, NearIs
<1>4. Base' = Base /\ Stream' = << >> /\ Logs' = Base
  <2>1. << >> \o << >> = << >>
    OBVIOUS
  <2>2. Base' = Base /\ Stream' = << >>
    BY <1>1, <2>1 DEF Base, create_hash_from_backup, Stream
  <2> QED
    BY <2>2, ReplayedEmpty DEF Logs
<1>5. Prefixes'
  <2>1. ASSUME NEW n \in 0 .. Len(Stream') PROVE Replayed(Base, SubSeq(Stream', 1, n)) = Base
    <3>1. SubSeq(Stream', 1, n) = << >>
      <4>1. n \in 0 .. Len(<< >>)
        BY <1>4
      <4>2. SubSeq(<< >>, 1, n) = << >>
        BY <4>1
      <4> QED
        BY <1>4, <4>2
    <3> QED
      BY <3>1, ReplayedEmpty
  <2> QED
    BY <1>1, <1>2, <1>3, <1>4, <2>1 DEF Prefixes
<1>6. ASSUME NEW b \in Buckets PROVE Part(table, b)' \in past'[b] /\ Follows(b)'
  <2>1. Part(table, b)' = Part(table, b)
    BY <1>1 DEF Part
  <2>2. \A t \in Threads, what \in {"lock", "log"} : ~Holds(t, what, b)'
    BY <1>1 DEF Holds, Idle
  <2>3. Written(b)' = {Base}
    BY <1>4, <2>2 DEF Written
  <2> QED
    BY <1>1, <1>2, <1>3, <2>1, <2>2, <2>3 DEF Follows
<1> QED
  BY <1>5, <1>6 DEF InTime

LEMMA NextServes ==
  TypeInv /\ Exclusive /\ Orderly /\ Serves /\ Recovers /\ [Next]_vars => Serves'
<1> SUFFICES ASSUME TypeInv, Exclusive, Orderly, Serves, Recovers, [Next]_vars PROVE Serves'
  OBVIOUS
<1>1. CASE CreateHash \/ Recover \/ RecoverCrashes
  BY <1>1 DEF CreateHash, Recover, RecoverCrashes, Break, End, Serves
<1>2. CASE (\E h \in Threads \cup {"main"} : Signal(h)) \/ CleanUp \/ UseAfterDelete \/ Kill
  <2>1. proc' # "serving"
    BY <1>2 DEF Signal, CleanUp, SaveBucket, RemoveBackup, RenameBackup, DeleteHash, DeleteLog,
                UseAfterDelete, Kill, Break, End
  <2> QED
    BY <2>1 DEF Serves
<1>3. CASE UNCHANGED vars
  <2>1. UNCHANGED <<proc, kills, busy, spoiled, log, buffer, backup, table, past, pc, req>>
    BY <1>3 DEF vars, files, thread, history, bounds
  <2>2. ASSUME NEW u \in Threads, NEW b \in Buckets, NEW what \in {"lock", "log"}
        PROVE  /\ Holds(u, what, b)' <=> Holds(u, what, b)
               /\ Holds(u, what, b) => req'[u] = req[u]
    BY <2>1 DEF Holds
  <2> QED
    BY <2>1, <2>2, IdleInTime DEF Serves
<1> QED
  BY <1>1, <1>2, <1>3, ThreadServes, RenameLogServes DEF Next

(* What the start finds.                                                   *)
(* What the log ends in changes the key that is misread.                   *)
LEMMA EndsIn ==
  ASSUME NEW f \in [Keys -> Content], NEW L \in Seq(Record), NEW T \in Tails, T # Fatal
  PROVE  \A k \in Keys \ {T[n].key : n \in DOMAIN T} : Replayed(f, L \o T)[k] = Replayed(f, L)[k]
<1>1. CASE T = << >>
  <2>1. L \o << >> = L
    OBVIOUS
  <2> QED
    BY <1>1, <2>1
<1>2. ASSUME NEW r \in Record, T = <<r>>
      PROVE  \A k \in Keys \ {T[n].key : n \in DOMAIN T} :
               Replayed(f, L \o T)[k] = Replayed(f, L)[k]
  <2>1. L \o T = Append(L, r)
    BY <1>2
  <2>2. Replayed(f, L \o T) = Replay(Replayed(f, L), r)
    BY <2>1, ReplayedAppend
  <2>3. r.key \in {T[n].key : n \in DOMAIN T}
    <3>1. 1 \in DOMAIN T /\ T[1] = r
      BY <1>2
    <3> QED
      BY <3>1
  <2>4. Replayed(f, L) \in [Keys -> Content]
    BY ReplayedType
  <2> QED
    BY <2>2, <2>3, <2>4, ReplayIs
<1>3. T = << >> \/ \E r \in Record : T = <<r>>
  BY Zenon DEF Tails
<1> QED
  BY <1>1, <1>2, <1>3

LEMMA KillRecovers ==
  ASSUME TypeInv, Serves, Recovers, Kill
  PROVE  Recovers'
<1> SUFFICES ASSUME kills' <= 1, ~busy', ~spoiled', tail' # Fatal, NEW b \in Buckets
             PROVE  Near(Replayed(Base, File), b)'
  BY DEF Kill, Break, End, Recovers
<1>1. /\ proc \in Starting \cup {"serving"} /\ kills = 0 /\ ~busy /\ ~spoiled
      /\ UNCHANGED <<log, backup, past>> /\ tail' \in Tails
  <2>1. tail' \in Tails
    BY BreakTail DEF Kill
  <2>2. kills \in Nat /\ kills' = kills + 1
    BY DEF Kill, TypeInv
  <2>3. /\ proc \in Starting \cup {"serving"}
        /\ UNCHANGED <<log, backup, past, busy, spoiled>>
    BY DEF Kill, Break, End, history
  <2> QED
    BY <2>1, <2>2, <2>3
<1>2. Base' = Base /\ Records' = Records /\ File' = Records \o tail'
  BY <1>1 DEF Base, create_hash_from_backup, Records, File
<1>3. CASE proc \in Starting
  <2>1. tail' = tail
    BY <1>3 DEF Kill, Break, TypeInv
  <2>2. Near(Replayed(Base, File), b)
    BY <1>1, <1>3, <2>1 DEF Recovers
  <2>3. Misread' = Misread /\ File' = File
    BY <1>2, <2>1 DEF Misread, File
  <2> QED
    BY <1>1, <1>2, <2>2, <2>3 DEF Near
<1>4. CASE proc = "serving"
  <2>1. Records = log /\ log \in Seq(Record) /\ buffer \in Seq(Record)
    BY <1>4 DEF Records, TypeInv, TypeOK
  <2>2. Len(log) \in 0 .. Len(Stream) /\ SubSeq(Stream, 1, Len(log)) = log
    <3>1. Stream = log \o buffer /\ Len(log) \in Nat /\ Len(buffer) \in Nat
      BY <2>1 DEF Stream
    <3>2. Len(Stream) = Len(log) + Len(buffer)
      BY <2>1, <3>1
    <3>3. SubSeq(log \o buffer, 1, Len(log)) = log
      BY <2>1
    <3> QED
      BY <3>1, <3>2, <3>3
  <2>3. Prefixes
    BY <1>1, <1>4 DEF Serves, InTime
  <2>4. Part(Replayed(Base, log), b) \in past'[b]
    BY <1>1, <2>2, <2>3 DEF Prefixes
  <2>5. Replayed(Base, log) \in [Keys -> Content] /\ Base \in [Keys -> Content]
    BY <2>1, BaseType, ReplayedType
  <2>6. \A k \in Keys \ Misread' : Replayed(Base', File')[k] = Replayed(Base, log)[k]
    BY <1>1, <1>2, <2>1, <2>5, EndsIn DEF Misread
  <2> QED
    BY <2>4, <2>5, <2>6 DEF Near, InBucket
<1> QED
  BY <1>1, <1>3, <1>4

LEMMA SameNear ==
  ASSUME UNCHANGED <<past, tail>>, Base' = Base, File' = File, NEW b \in Buckets
  PROVE  Near(Replayed(Base, File), b) => Near(Replayed(Base, File), b)'
BY DEF Near, Misread

LEMMA NextRecovers ==
  TypeInv /\ Left /\ Serves /\ Recovers /\ [Next]_vars => Recovers'
<1> SUFFICES ASSUME TypeInv, Left, Serves, Recovers, [Next]_vars PROVE Recovers'
  OBVIOUS
<1>1. CASE CreateHash
  <2>1. /\ proc = "down" /\ proc' = "created" /\ UNCHANGED <<backup, past, busy, spoiled, kills>>
        /\ log' = IF log = NoLog THEN << >> ELSE log
    BY <1>1 DEF CreateHash, history
  <2>2. Base' = Base /\ File' = File /\ tail' = tail
    BY <1>1, <2>1, LogIsNoFile DEF CreateHash, Base, create_hash_from_backup, Records, File
  <2> QED
    BY <2>1, <2>2, SameNear DEF Recovers
<1>2. CASE Recover
  <2>1. /\ proc = "created" /\ proc' = "loaded"
        /\ UNCHANGED <<log, tail, backup, past, busy, spoiled, kills>>
        /\ table' = Replayed(Base, log \o tail)
    BY <1>2 DEF Recover, files, history, bounds, process_hash_log, Base
  <2>2. File = log \o tail
    BY <2>1 DEF File, Records, TypeInv
  <2>3. Base' = Base /\ File' = File /\ tail' = tail
    BY <2>1 DEF Base, create_hash_from_backup, Records, File
  <2> QED
    BY <2>1, <2>2, <2>3, SameNear DEF Recovers, Starting
<1>3. CASE RenameLog \/ SaveBucket \/ RemoveBackup \/ RenameBackup \/ DeleteHash
           \/ \E h \in Threads \cup {"main"} : Signal(h)
  <2>1. proc' \notin {"down"} \cup Starting
    BY <1>3 DEF RenameLog, SaveBucket, RemoveBackup, RenameBackup, DeleteHash, Signal, Starting
  <2> QED
    BY <2>1 DEF Recovers, Starting
<1>4. ASSUME NEW t \in Threads, Receive(t) \/ answer_call(t) PROVE Recovers'
  <2>1. proc' \notin {"down"} \cup Starting
    BY <1>4, OneThread DEF Runs, Serving, Starting
  <2> QED
    BY <2>1 DEF Recovers, Starting
<1>5. CASE DeleteLog
  <2>1. /\ proc' = "down" /\ log' = NoLog /\ tail' = << >> /\ backup = temp
        /\ UNCHANGED <<backup, past, busy, spoiled>>
        /\ ~busy /\ ~spoiled => \A b \in Buckets : Part(temp, b) \in past[b]
    BY <1>5 DEF DeleteLog, End, history, Left
  <2>2. Base' = temp /\ File' = << >>
    <3>1. << >> \o << >> = << >>
      OBVIOUS
    <3> QED
      BY <2>1, <3>1, BackupIsThere DEF Base, create_hash_from_backup, Records, File
  <2>3. Replayed(Base', File') = temp /\ temp \in [Keys -> Content]
    BY <2>2, ReplayedEmpty DEF TypeInv, TypeOK, Content
  <2>4. ~busy /\ ~spoiled => \A b \in Buckets : Near(Replayed(Base, File), b)'
    BY <2>1, <2>3 DEF Near
  <2> QED
    BY <2>1, <2>4 DEF Recovers
<1>6. CASE UseAfterDelete
  <2>1. busy'
    BY <1>6 DEF UseAfterDelete, Break, End, Left, Leaving, history
  <2> QED
    BY <2>1 DEF Recovers
<1>7. CASE Kill
  BY <1>7, KillRecovers
<1>8. CASE UNCHANGED vars
  <2>1. Base' = Base /\ File' = File
        /\ UNCHANGED <<proc, table, tail, past, busy, spoiled, kills>>
    BY <1>8 DEF vars, files, history, bounds, Base, create_hash_from_backup, Records, File
  <2> QED
    BY <2>1, SameNear DEF Recovers
<1>9. CASE RecoverCrashes
  <2>1. tail' = Fatal
    BY <1>9 DEF RecoverCrashes, Break, TypeInv, Starting
  <2> QED
    BY <2>1 DEF Recovers
<1> QED
  BY <1>1, <1>2, <1>3, <1>4, <1>5, <1>6, <1>7, <1>8, <1>9 DEF Next, CleanUp

LEMMA InitIInv == Init => IInv
<1> SUFFICES ASSUME Init PROVE IInv
  OBVIOUS
<1>1. Serves
  BY DEF Init, Serves
<1>2. Recovers
  <2>1. Base = Empty /\ File = << >> /\ Replayed(Empty, << >>) = Empty
    <3>1. << >> \o << >> = << >>
      OBVIOUS
    <3> QED
      BY <3>1, ReplayedEmpty DEF Init, Base, create_hash_from_backup, Records, File
  <2>2. \A b \in Buckets : Near(Replayed(Base, File), b)
    BY <2>1, EmptyType DEF Init, Near
  <2> QED
    BY <2>2 DEF Init, Recovers
<1> QED
  BY <1>1, <1>2, InitType, InitExclusive, InitLeft DEF IInv

LEMMA NextIInv == IInv /\ [Next]_vars => IInv'
BY NextType, NextExclusive, NextLeft, NextServes, NextRecovers DEF IInv

-----------------------------------------------------------------------------
(* Results.                                                                *)

THEOREM Invariance == Spec => []IInv
BY InitIInv, NextIInv, PTL DEF Spec

(* Every variable has its type.                                            *)
THEOREM TypeCorrect == Spec => []TypeOK
<1>1. IInv => TypeOK
  BY DEF IInv, TypeInv
<1> QED
  BY <1>1, Invariance, PTL

(* SIGINT that comes when no request is handled, to a server that was not  *)
(* killed before, loses nothing that was answered: the next start reads    *)
(* for every key a value that its answers allow, though log_insert and     *)
(* log_delete do not flush the log, as clean_up saves the table itself.    *)
THEOREM AnswersSurvive == Spec => []AnsweredSurvive
<1>1. IInv => AnsweredSurvive
  BY DEF IInv, Orderly, AnsweredSurvive, Starting
<1> QED
  BY <1>1, Invariance, PTL

(* A server that is killed once recovers every bucket as it was at some    *)
(* time since the last backup, but for the key of the record that the last *)
(* block of the log cuts, if no item was overwritten: the mutex of a       *)
(* bucket's records is taken before its lock is given back, so the records *)
(* of a bucket are in the order of its changes, and any prefix of the log  *)
(* of all buckets makes of each bucket one of its states.  The block may   *)
(* end anywhere in a record; the recovery may end the process, too.        *)
THEOREM KilledRecoversThePast == Spec => []RecoversThePast
<1>1. IInv => RecoversThePast
  <2> SUFFICES ASSUME IInv, proc = "loaded", kills <= 1, ~busy, ~spoiled, NEW b \in Buckets
               PROVE  \E p \in past[b] : \A k \in DOMAIN p \ Misread : table[k] = p[k]
    BY DEF RecoversThePast
  <2>1. tail # Fatal /\ table = Replayed(Base, File) /\ Near(table, b)
    BY DEF IInv, TypeInv, Recovers, Starting
  <2>2. PICK g \in [Keys -> Content] :
          Part(g, b) \in past[b] /\ \A k \in InBucket(b) \ Misread : table[k] = g[k]
    BY <2>1 DEF Near
  <2>3. DOMAIN Part(g, b) = InBucket(b) /\ \A k \in InBucket(b) : Part(g, b)[k] = g[k]
    BY DEF Part, InBucket
  <2> QED
    BY <2>2, <2>3
<1> QED
  BY <1>1, Invariance, PTL

=============================================================================
