-------------------------------- MODULE Scan --------------------------------
(***************************************************************************)
(* The bytes of the backup and of the log, and what sscanf makes of them.  *)
(* A digit is a byte that is its own value.                                *)
(***************************************************************************)
EXTENDS Integers, Sequences, FiniteSetsExt

Blank == 10
I == 11
D == 12
Other == 13
Junk == -1        \* a byte that was never written
Zero == -2        \* the byte that ends a string

Digit == 0 .. 9
Numeral == Seq(Digit) \ {<< >>}

(* The number of bytes at the start of s that are in S.                    *)
Run(s, S) == Max({n \in 0 .. Len(s) : \A i \in 1 .. n : s[i] \in S})

From(s, i) == SubSeq(s, i, Len(s))
Take(s, n) == SubSeq(s, 1, IF n < Len(s) THEN n ELSE Len(s))

Number(s) ==
  LET number[n \in 0 .. Len(s)] == IF n = 0 THEN 0 ELSE 10 * number[n - 1] + s[n]
  IN  number[Len(s)]

(* %u: what it took of s, blanks included, and the digits.                 *)
ScanU(s) ==
  LET b == Run(s, {Blank})
      d == Run(From(s, b + 1), Digit) IN
  [ok |-> d > 0, length |-> b + d, digits |-> SubSeq(s, b + 1, b + d)]

(* "%u %u%c%n": a key, a size and the byte after them.                     *)
ScanPair(s) ==
  LET k == ScanU(s)
      t == From(s, k.length + 1)
      n == ScanU(t)
      end == k.length + n.length + 1 IN
  [ok |-> k.ok /\ n.ok /\ end <= Len(s),
   key |-> k.digits, size |-> Number(n.digits),
   space |-> IF end <= Len(s) THEN s[end] ELSE Junk, length |-> end]

(* n bytes of memory of which the first are those of s.                    *)
Memory(s, n) == [i \in 1 .. n |-> IF i <= Len(s) THEN s[i] ELSE Junk]

(* The table: the value of every key; a key is the digits it is written    *)
(* with.                                                                   *)
Absent == <<Junk>>
Stored(table, key, value) ==
  [k \in DOMAIN table \cup {key} |-> IF k = key THEN value ELSE table[k]]
Without(table, key) == [k \in DOMAIN table \ {key} |-> table[k]]
Nothing == [k \in {} |-> Absent]

(* "%u %u " and the value, as backup_hash and log_insert write them.       *)
Pair(e) == e.key \o <<Blank>> \o e.size \o <<Blank>> \o e.value

(* What is written of a key, of a value and its length.                    *)
Item == [key : Numeral, size : Numeral, value : Seq(Int)]
Sized(e) == Number(e.size) = Len(e.value)

(* The bytes of the parts behind the n-th, for every n.                    *)
Behind(parts) ==
  LET bytes[n \in 0 .. Len(parts)] ==
        IF n = Len(parts) THEN << >> ELSE parts[n + 1] \o bytes[n + 1]
  IN  bytes

=============================================================================
