---------------------------- MODULE BackupReader ----------------------------
(***************************************************************************)
(* create_hash_from_backup: the file that backup_hash wrote is read        *)
(* through two buffers.  A value that does not fit is read past the        *)
(* buffer, which is then filled anew; when no key and size can be scanned, *)
(* what is left is to be carried over to the other buffer.                 *)
(***************************************************************************)
EXTENDS Scan

CONSTANT BufSize   \* 1024; one more byte is there for the terminating zero

VARIABLES
  saved,     \* the entries in the order in which backup_hash came to them
  rest,      \* the part of the file that was not read yet
  buf,       \* buf[1] .. buf[BufSize + 1]
  buf2,
  aux,       \* offset of aux in buf
  table,
  status,    \* "reading" or "done"
  carried    \* history: something had to be carried over

(* s is written to b from offset i on.                                     *)
Over(b, i, s) == [j \in 1 .. BufSize + 1 |-> IF j \in i + 1 .. i + Len(s) THEN s[j - i] ELSE b[j]]

(* read(backup, buf, 1024); buf[k] = 0                                     *)
Loaded(b, file) == Over(b, 0, Take(file, BufSize) \o <<Zero>>)

(* The string that starts at offset i.                                     *)
TextFrom(b, i) ==
  LET s == From(b, i + 1) IN Take(s, Run(s, Int \ {Zero}))

(* The bytes of the entries behind the n-th.                               *)
Rest(es, n) == Behind([i \in 1 .. Len(es) |-> Pair(es[i])])[n]
File(es) == Rest(es, 0)
Distinct(es) == \A i, j \in 1 .. Len(es) : i # j => es[i].key # es[j].key

(* The file is opened and the first buffer read.                           *)
Open(es) ==
  /\ saved = es
  /\ buf = Loaded(Memory(<< >>, BufSize + 1), File(es))
  /\ rest = From(File(es), BufSize + 1)
  /\ buf2 = Memory(<< >>, BufSize + 1)
  /\ aux = 0
  /\ status = "reading"
  /\ carried = FALSE

State(b, b2, a, r, t, s) ==
  [buf |-> b, buf2 |-> b2, aux |-> a, rest |-> r, table |-> t, status |-> s]
Stop == State(buf, buf2, aux, rest, table, "done")

(* insert_item without overwrite.                                          *)
Inserted(key, value) == IF key \in DOMAIN table THEN table ELSE Stored(table, key, value)

(* Fault: aux stays behind when the buffer is filled anew.                 *)
ReadValueBehind(key, size, i) ==
  LET room == BufSize - i
      beyond == size - room
      v == SubSeq(buf, i + 1, BufSize) \o Memory(Take(rest, beyond), beyond)
      r == From(rest, beyond + 1) IN
  IF room >= size
  THEN State(buf, buf2, i + size, rest, Inserted(key, SubSeq(buf, i + 1, i + size)), "reading")
  ELSE State(Loaded(buf, r), buf2, i, From(r, BufSize + 1), Inserted(key, v), "reading")

(* The value of the given size at offset i.                                *)
ReadValue(key, size, i) ==
  LET room == BufSize - i
      beyond == size - room
      v == SubSeq(buf, i + 1, BufSize) \o Memory(Take(rest, beyond), beyond)
      r == From(rest, beyond + 1) IN
  IF room >= size
  THEN State(buf, buf2, i + size, rest, Inserted(key, SubSeq(buf, i + 1, i + size)), "reading")
  ELSE State(Loaded(buf, r), buf2, 0, From(r, BufSize + 1), Inserted(key, v), "reading")

(* Fault: the end of the file is not noticed.                              *)
CarryOverAlways ==
  LET l == aux
      b == Over(buf2, 0, Memory(From(buf, aux + 1), l))
      k == Len(Take(rest, BufSize - l)) IN
  IF aux = 0 THEN Stop
  ELSE State(Over(Over(b, l, Take(rest, k)), BufSize, <<Zero>>), buf, 0, From(rest, k + 1),
             table, "reading")

(* No key and size at aux.  aux - buf bytes are carried over, as many as   *)
(* were used, and not those that are left; what lies behind the buffer is  *)
(* anything.                                                               *)
CarryOver ==
  LET l == aux
      b == Over(buf2, 0, Memory(From(buf, aux + 1), l))
      k == Len(Take(rest, BufSize - l)) IN
  IF aux = 0 \/ k = 0 THEN Stop
  ELSE State(Over(Over(b, l, Take(rest, k)), BufSize, <<Zero>>), buf, 0, From(rest, k + 1),
             table, "reading")

(* One turn of the loops.                                                  *)
Turn ==
  LET p == ScanPair(TextFrom(buf, aux)) IN
  IF p.ok /\ p.space = Blank THEN ReadValue(p.key, p.size, aux + p.length) ELSE CarryOver

ReadEntry ==
  /\ status = "reading"
  /\ LET next == Turn IN
     /\ buf' = next.buf /\ buf2' = next.buf2 /\ aux' = next.aux
     /\ rest' = next.rest /\ table' = next.table /\ status' = next.status
     /\ carried' = (carried \/ (next.status = "done" /\ rest # << >>) \/ buf2' # buf2)
  /\ UNCHANGED saved

-----------------------------------------------------------------------------
(* For the properties.                                                     *)

(* The first n entries.                                                    *)
Saved(n) ==
  [k \in {saved[i].key : i \in 1 .. n} |->
     saved[CHOOSE i \in 1 .. n : saved[i].key = k].value]

(* Where in the buffer the entry behind the n-th starts, if the n were     *)
(* read: behind the n-th, or in front if its value went past the buffer.   *)
Offset(es) ==
  LET at[n \in 0 .. Len(es)] ==
        IF n = 0 THEN 0
        ELSE LET end == at[n - 1] + Len(Pair(es[n])) IN IF end <= BufSize THEN end ELSE 0
  IN  at

(* The entries before the first whose key and size do not lie whole in the *)
(* buffer.                                                                 *)
Fits(es, n) == Offset(es)[n] + Len(Pair(es[n + 1])) - Len(es[n + 1].value) <= BufSize
Reached == Min({n \in 0 .. Len(saved) : n < Len(saved) => ~Fits(saved, n)})

(* aux is at an entry, and what was recovered is what comes before it; m   *)
(* is the end of what was read into the buffer.                            *)
AtEntry ==
  \E n \in 0 .. Len(saved), m \in aux .. BufSize :
    /\ table = Saved(n)
    /\ buf[m + 1] = Zero /\ (m = BufSize \/ rest = << >>)
    /\ SubSeq(buf, aux + 1, m) \o rest = Rest(saved, n)

(* The next turn is the last one, or takes something from the buffer or    *)
(* from the file.                                                          *)
Advances ==
  LET next == Turn IN
  \/ next.status = "done"
  \/ Len(next.rest) < Len(rest)
  \/ Len(next.rest) = Len(rest) /\ next.aux > aux

=============================================================================
