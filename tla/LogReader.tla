----------------------------- MODULE LogReader ------------------------------
(***************************************************************************)
(* process_hash_log: the log is read through a buffer of fixed size, one   *)
(* record at a time, after which what is left is moved to the front and    *)
(* the buffer filled up again.  A value that does not fit is read past     *)
(* the buffer.                                                             *)
(***************************************************************************)
EXTENDS Scan

CONSTANT BufSize   \* 100; at least as long as the longest header

VARIABLES
  records,   \* what was logged
  damage,    \* history: what has happened to the file since, "none" if nothing
  length,    \* history: its length when it was found
  rest,      \* the part of the file that was not read yet
  buf,       \* the bytes in the buffer; their number is buf_left
  table,     \* what was recovered
  status     \* "reading", or how it ended

(* log_insert and log_delete.                                              *)
Written(r) == IF r.type = "I" THEN <<I, Blank>> \o Pair(r) ELSE <<D, Blank>> \o r.key

(* The bytes of the records behind the n-th.                               *)
Rest(rs, n) == Behind([i \in 1 .. Len(rs) |-> Written(rs[i])])[n]
File(rs) == Rest(rs, 0)

(* What may be found of a file f when the server starts: it was killed     *)
(* between two writes of one record, or a record has a byte of another.    *)
Found(f, d) ==
  CASE d = "none"    -> {f}
    [] d = "cut"     -> {Take(f, n) : n \in 0 .. Len(f)}
    [] d = "garbled" -> IF f = << >> THEN {} ELSE {[f EXCEPT ![1] = Other]}

(* The file is opened and the buffer read.                                 *)
Open(rs, d) ==
  /\ records = rs /\ damage = d
  /\ \E f \in Found(File(rs), d) :
       /\ length = Len(f)
       /\ buf = Take(f, BufSize)
       /\ rest = From(f, BufSize + 1)
       /\ status = IF f = << >> THEN "done" ELSE "reading"

State(b, r, t, s) == [buf |-> b, rest |-> r, table |-> t, status |-> s]

(* The record was at the first n bytes of the buffer: move up what is left *)
(* and read more.  A negative buf_left is a huge size to memcpy.           *)
Refill(t, n) ==
  LET left == From(buf, n + 1)
      k == BufSize - Len(left)
      b == left \o Take(rest, k) IN
  IF n > Len(buf) THEN State(buf, rest, t, "crash")
  ELSE State(b, From(rest, k + 1), t, IF b = << >> THEN "done" ELSE "reading")

(* Fault: what was recovered so far is thrown away.                        *)
FailEmpty == State(buf, rest, Nothing, "error")

Fail == State(buf, rest, table, "error")

(* Fault: the terminating byte is counted as room.                         *)
InsertOneMore(key, size, h) ==
  LET room == BufSize - h
      beyond == size - room
      v == Memory(From(buf, h + 1), room) \o Memory(Take(rest, beyond), beyond)
      r == From(rest, beyond + 1) IN
  IF room + 1 >= size
  THEN Refill(Stored(table, key, Memory(From(buf, h + 1), size)), h + size)
  ELSE State(Take(r, BufSize), From(r, BufSize + 1), Stored(table, key, v),
             IF r = << >> THEN "done" ELSE "reading")

(* A value of the given size behind a header of h bytes.  Whether it is in *)
(* the buffer is told from the buffer's size.                              *)
Insert(key, size, h) ==
  LET room == BufSize - h
      beyond == size - room
      v == Memory(From(buf, h + 1), room) \o Memory(Take(rest, beyond), beyond)
      r == From(rest, beyond + 1) IN
  IF room >= size
  THEN Refill(Stored(table, key, Memory(From(buf, h + 1), size)), h + size)
  ELSE State(Take(r, BufSize), From(r, BufSize + 1), Stored(table, key, v),
             IF r = << >> THEN "done" ELSE "reading")

ReadInsert ==
  LET p == ScanPair(From(buf, 3)) IN
  IF p.ok /\ p.space = Blank THEN Insert(p.key, p.size, 2 + p.length) ELSE Fail

ReadDelete ==
  LET p == ScanU(From(buf, 3)) IN
  IF p.ok THEN Refill(Without(table, p.digits), 2 + p.length) ELSE Fail

(* One turn of the loop.  A type that is not known is reported, and then   *)
(* looked at again.                                                        *)
Turn ==
  IF Len(buf) < 2 \/ buf[2] # Blank THEN Fail
  ELSE CASE buf[1] = I -> ReadInsert
         [] buf[1] = D -> ReadDelete
         [] OTHER -> Refill(table, 0)

ReadRecord ==
  /\ status = "reading"
  /\ LET next == Turn IN
     buf' = next.buf /\ rest' = next.rest /\ table' = next.table /\ status' = next.status
  /\ UNCHANGED <<records, damage, length>>

-----------------------------------------------------------------------------
(* For the properties.                                                     *)

Named(n) == {records[i].key : i \in 1 .. n}
Last(k, n) == Max({i \in 1 .. n : records[i].key = k})

(* What the first n records mean to table t: of the records of one key     *)
(* only the last one counts, as process_hash_log asks insert_item to       *)
(* overwrite.                                                              *)
Replayed(t, n) ==
  [k \in {k \in DOMAIN t \cup Named(n) : k \in Named(n) => records[Last(k, n)].type = "I"} |->
     IF k \in Named(n) THEN records[Last(k, n)].value ELSE t[k]]

(* The records that the file holds to their end.                           *)
Start(n) == Len(File(records)) - Len(Rest(records, n))
Whole == Max({n \in 0 .. Len(records) : Start(n) <= length})

(* The file ends in the value of an insertion, or in front of it.          *)
CutInValue ==
  /\ damage = "cut" /\ Whole < Len(records)
  /\ LET r == records[Whole + 1] IN
     r.type = "I" /\ length >= Start(Whole + 1) - Len(r.value)

(* The buffer starts with a record, and what was recovered is what the     *)
(* records before it make of table t0.                                     *)
AtRecord(t0) ==
  \E n \in 0 .. Len(records) - 1 :
    /\ table = Replayed(t0, n)
    /\ buf \o rest = Rest(records, n)

(* The next turn is the last one, or takes something from the file.        *)
Advances ==
  LET next == Turn IN
  next.status = "reading" => Len(next.buf) + Len(next.rest) < Len(buf) + Len(rest)

=============================================================================
