--------------------------- MODULE RecoveryProofs ---------------------------
(***************************************************************************)
(* setup_backup recovers what the two files hold: for any keys, values and *)
(* sizes of the buffers, as long as the headers fit.                       *)
(***************************************************************************)
EXTENDS Recovery, SequenceTheorems, FiniteSetTheorems, WellFoundedInduction, TLAPS

-----------------------------------------------------------------------------
(* Parts of sequences.                                                     *)

(* A set of naturals has a least one.                                      *)
LEMMA LeastNatural ==
  ASSUME NEW T, T \subseteq Nat, T # {}
  PROVE  \E n \in T : \A m \in T : n <= m
<1>1. PICK n \in T : \A m \in T : <<m, n>> \notin OpToRel(<, Nat)
  BY NatLessThanWellFounded, WFMin, Zenon
<1>2. \A m \in T : ~(m < n)
  BY <1>1, Zenon DEF OpToRel
<1> QED
  BY <1>2

(* The part from i on: its length and its bytes.                           *)
LEMMA FromIs ==
  ASSUME NEW s \in Seq(Int), NEW i \in Nat \ {0}
  PROVE  /\ From(s, i) \in Seq(Int)
         /\ Len(From(s, i)) = IF i <= Len(s) THEN Len(s) - i + 1 ELSE 0
         /\ \A j \in 1 .. Len(From(s, i)) : From(s, i)[j] = s[i + j - 1]
<1>1. Len(s) \in Nat
  OBVIOUS
<1>2. SubSeq(s, i, Len(s)) = [j \in 1 .. (1 + Len(s) - i) |-> s[i + j - 1]]
  OBVIOUS
<1>3. \A j \in 1 .. (1 + Len(s) - i) : s[i + j - 1] \in Int
  <2>1. ASSUME NEW j \in 1 .. (1 + Len(s) - i) PROVE i + j - 1 \in 1 .. Len(s)
    BY <1>1
  <2> QED
    BY <2>1, ElementOfSeq
<1> DEFINE m == IF i <= Len(s) THEN Len(s) - i + 1 ELSE 0
<1>4. m \in Nat /\ 1 .. (1 + Len(s) - i) = 1 .. m
  BY <1>1
<1> HIDE DEF m
<1>5. From(s, i) = [j \in 1 .. m |-> s[i + j - 1]] /\ \A j \in 1 .. m : s[i + j - 1] \in Int
  BY <1>2, <1>3, <1>4 DEF From
<1>6. From(s, i) \in Seq(Int) /\ Len(From(s, i)) = m
      /\ \A j \in 1 .. m : From(s, i)[j] = s[i + j - 1]
  BY <1>4, <1>5
<1> QED
  BY <1>6 DEF m

(* The first n bytes, or all if there are fewer.                           *)
LEMMA TakeIs ==
  ASSUME NEW s \in Seq(Int), NEW n \in Nat
  PROVE  /\ Take(s, n) \in Seq(Int)
         /\ Len(Take(s, n)) = IF n < Len(s) THEN n ELSE Len(s)
         /\ \A j \in 1 .. Len(Take(s, n)) : Take(s, n)[j] = s[j]
<1>1. Len(s) \in Nat
  OBVIOUS
<1>2. SubSeq(s, 1, n) = [j \in 1 .. n |-> s[j]] /\ SubSeq(s, 1, Len(s)) = s
  OBVIOUS
<1>3. CASE n < Len(s)
  <2>1. \A j \in 1 .. n : s[j] \in Int
    BY <1>1, <1>3, ElementOfSeq
  <2> QED
    BY <1>1, <1>2, <1>3, <2>1 DEF Take
<1>4. CASE ~(n < Len(s))
  BY <1>1, <1>2, <1>4 DEF Take
<1> QED
  BY <1>3, <1>4

(* The number of bytes at the start of s that are in S.                    *)
LEMMA RunIs ==
  ASSUME NEW s \in Seq(Int), NEW S, NEW d \in 0 .. Len(s), \A i \in 1 .. d : s[i] \in S,
         d = Len(s) \/ s[d + 1] \notin S
  PROVE  Run(s, S) = d
<1> DEFINE T == {n \in 0 .. Len(s) : \A i \in 1 .. n : s[i] \in S}
<1>1. d \in T
  OBVIOUS
<1>2. \A n \in T : d >= n
  <2> SUFFICES ASSUME NEW n \in T, ~(d >= n) PROVE FALSE
    OBVIOUS
  <2>1. Len(s) \in Nat
    OBVIOUS
  <2>2. d + 1 \in 1 .. n /\ d # Len(s)
    BY <2>1
  <2> QED
    BY <2>2
<1>3. T \subseteq Int
  OBVIOUS
<1> HIDE DEF T
<1>4. Max(T) = d
  <2>1. \A x \in T : (\A y \in T : x >= y) => x = d
    BY <1>1, <1>2, <1>3
  <2>2. \E x \in T : \A y \in T : x >= y
    BY <1>1, <1>2
  <2> QED
    BY <2>1, <2>2, Zenon DEF Max
<1> QED
  BY <1>4 DEF Run, T

(* A run ends behind bytes of S, before the first that is not one.         *)
LEMMA RunEnds ==
  ASSUME NEW s \in Seq(Int), NEW S
  PROVE  /\ Run(s, S) \in 0 .. Len(s) /\ \A i \in 1 .. Run(s, S) : s[i] \in S
         /\ Run(s, S) = Len(s) \/ s[Run(s, S) + 1] \notin S
<1> DEFINE T == {n \in Nat : n <= Len(s) /\ (n = Len(s) \/ s[n + 1] \notin S)}
<1>1. Len(s) \in T /\ T \subseteq Nat /\ Len(s) \in Nat
  OBVIOUS
<1>2. PICK d \in T : \A m \in T : d <= m
  <2> HIDE DEF T
  <2> QED
    BY <1>1, LeastNatural
<1>3. d \in 0 .. Len(s) /\ (d = Len(s) \/ s[d + 1] \notin S)
  BY <1>2
<1>4. ASSUME NEW i \in 1 .. d PROVE s[i] \in S
  <2>1. i - 1 \in Nat /\ i - 1 <= Len(s) /\ i - 1 # Len(s) /\ ~(d <= i - 1) /\ (i - 1) + 1 = i
    BY <1>1, <1>3
  <2>2. i - 1 \notin T
    BY <1>2, <2>1
  <2> QED
    BY <2>1, <2>2
<1>5. Run(s, S) = d
  BY <1>3, <1>4, RunIs
<1> QED
  BY <1>3, <1>4, <1>5

(* Parts put together and taken apart again.                               *)
Bytes == Seq(Int)

(* Two sequences one behind the other.                                     *)
LEMMA Joined ==
  ASSUME NEW a \in Bytes, NEW b \in Bytes
  PROVE  /\ a \o b \in Bytes /\ Len(a \o b) = Len(a) + Len(b)
         /\ Len(a) \in Nat /\ Len(b) \in Nat
         /\ \A i \in 1 .. Len(a) : (a \o b)[i] = a[i]
         /\ \A i \in 1 .. Len(b) : (a \o b)[Len(a) + i] = b[i]
  BY DEF Bytes

(* Three sequences are joined in either order.                             *)
LEMMA Associative ==
  \A a, b, c \in Bytes : (a \o b) \o c = a \o (b \o c)
<1> SUFFICES ASSUME NEW a \in Bytes, NEW b \in Bytes, NEW c \in Bytes
             PROVE  (a \o b) \o c = a \o (b \o c)
  OBVIOUS
<1> QED
  BY ConcatAssociative DEF Bytes

(* The empty sequence.                                                     *)
LEMMA Nothings ==
  /\ << >> \in Bytes /\ Len(<< >>) = 0
  /\ \A a \in Bytes : a \o << >> = a /\ << >> \o a = a /\ (a = << >> <=> Len(a) = 0)
  BY EmptySeq, ConcatEmptySeq DEF Bytes

(* Two sequences of one length and of the same bytes are one.              *)
LEMMA SameBytes ==
  ASSUME NEW a \in Bytes, NEW b \in Bytes, Len(a) = Len(b), \A i \in 1 .. Len(a) : a[i] = b[i]
  PROVE  a = b
  BY SeqEqual, Zenon DEF Bytes

(* What two sequences start with alike can be taken away.                  *)
LEMMA Cancel ==
  \A a, b, c \in Bytes : a \o b = a \o c => b = c
  BY ConcatSimplifications, Zenon DEF Bytes

(* The front of a sequence is taken back ...                               *)
LEMMA TakeOver ==
  ASSUME NEW a \in Bytes, NEW b \in Bytes
  PROVE  Take(a \o b, Len(a)) = a
<1> DEFINE s == a \o b
           t == Take(s, Len(a))
<1>1. s \in Bytes /\ Len(a) \in Nat /\ Len(a) <= Len(s) /\ \A i \in 1 .. Len(a) : s[i] = a[i]
  BY Joined
<1> HIDE DEF s
<1>2. t \in Bytes /\ Len(t) = (IF Len(a) < Len(s) THEN Len(a) ELSE Len(s))
      /\ \A j \in 1 .. Len(t) : t[j] = s[j]
  BY <1>1, TakeIs DEF Bytes
<1>3. Len(t) = Len(a)
  BY <1>1, <1>2
<1> HIDE DEF t
<1>4. t = a
  BY <1>1, <1>2, <1>3, SameBytes
<1> QED
  BY <1>4 DEF t, s

(* A sequence is its first n bytes and those behind them.                  *)
LEMMA Parted ==
  ASSUME NEW s \in Bytes, NEW n \in Nat
  PROVE  /\ Take(s, n) \in Bytes /\ From(s, n + 1) \in Bytes
         /\ s = Take(s, n) \o From(s, n + 1)
         /\ Len(Take(s, n)) = IF n < Len(s) THEN n ELSE Len(s)
         /\ Len(From(s, n + 1)) = IF n < Len(s) THEN Len(s) - n ELSE 0
<1> DEFINE a == Take(s, n)
           b == From(s, n + 1)
<1>1. a \in Bytes /\ Len(a) = (IF n < Len(s) THEN n ELSE Len(s))
      /\ \A j \in 1 .. Len(a) : a[j] = s[j]
  BY TakeIs DEF Bytes
<1>2. b \in Bytes /\ Len(b) = (IF n + 1 <= Len(s) THEN Len(s) - (n + 1) + 1 ELSE 0)
      /\ \A j \in 1 .. Len(b) : b[j] = s[(n + 1) + j - 1]
  BY FromIs DEF Bytes
<1>3. Len(s) \in Nat
  BY DEF Bytes
<1> HIDE DEF a, b
<1>4. Len(b) = IF n < Len(s) THEN Len(s) - n ELSE 0
  BY <1>2, <1>3
<1>5. s = a \o b
  <2> DEFINE c == a \o b
  <2>1. /\ c \in Bytes /\ Len(c) = Len(a) + Len(b)
        /\ \A i \in 1 .. Len(a) : c[i] = a[i]
        /\ \A i \in 1 .. Len(b) : c[Len(a) + i] = b[i]
    BY <1>1, <1>2, Joined
  <2> HIDE DEF c
  <2>2. Len(c) = Len(s)
    BY <1>1, <1>3, <1>4, <2>1
  <2>3. ASSUME NEW i \in 1 .. Len(c) PROVE c[i] = s[i]
    <3>1. CASE i <= Len(a)
      <4>1. i \in 1 .. Len(a)
        BY <1>1, <1>3, <3>1
      <4> QED
        BY <1>1, <2>1, <4>1
    <3>2. CASE ~(i <= Len(a))
      <4>1. Len(a) = n /\ i - n \in 1 .. Len(b) /\ Len(a) + (i - n) = i /\ (n + 1) + (i - n) - 1 = i
        BY <1>1, <1>3, <1>4, <2>2, <3>2
      <4> QED
        BY <1>2, <2>1, <4>1, ZenonT(60)
    <3> QED
      BY <3>1, <3>2
  <2>4. c = s
    BY <2>1, <2>2, <2>3, SameBytes
  <2> QED
    BY <2>4 DEF c
<1> QED
  BY <1>1, <1>2, <1>4, <1>5 DEF a, b

(* ... and what is behind it.                                              *)
LEMMA FromOver ==
  ASSUME NEW a \in Bytes, NEW b \in Bytes
  PROVE  From(a \o b, Len(a) + 1) = b
<1>1. a \o b \in Bytes /\ Len(a) \in Nat
  BY Joined
<1>2. a \o b = Take(a \o b, Len(a)) \o From(a \o b, Len(a) + 1) /\ From(a \o b, Len(a) + 1) \in Bytes
  BY <1>1, Parted
<1>3. a \o b = a \o From(a \o b, Len(a) + 1)
  BY <1>2, TakeOver
<1> QED
  BY <1>2, <1>3, Cancel

(* The middle of three sequences.                                          *)
LEMMA Middle ==
  ASSUME NEW a \in Bytes, NEW b \in Bytes, NEW c \in Bytes
  PROVE  SubSeq(a \o (b \o c), Len(a) + 1, Len(a) + Len(b)) = b
<1> DEFINE s == a \o (b \o c)
           n == Len(a) + Len(b)
<1>1. s = (a \o b) \o c /\ a \o b \in Bytes /\ Len(a \o b) = n /\ s \in Bytes
      /\ Len(a) \in Nat /\ Len(b) \in Nat /\ Len(c) \in Nat /\ Len(s) = n + Len(c)
  <2>1. s = (a \o b) \o c
    BY Associative
  <2>2. a \o b \in Bytes /\ Len(a \o b) = n
        /\ Len(a) \in Nat /\ Len(b) \in Nat /\ Len(c) \in Nat
    BY Joined, Nothings
  <2>3. (a \o b) \o c \in Bytes /\ Len((a \o b) \o c) = n + Len(c)
    BY <2>2, Joined
  <2> QED
    BY <2>1, <2>2, <2>3
<1>2. Take(s, n) = a \o b
  BY <1>1, TakeOver
<1>3. Take(s, Len(a)) = a
  <2>1. b \o c \in Bytes
    BY Joined
  <2> QED
    BY <2>1, TakeOver
<1>4. SubSeq(s, 1, n) = a \o b /\ SubSeq(s, 1, Len(a)) = a
  <2>1. SubSeq(s, 1, Len(s)) = s
    BY <1>1, SubSeqFull DEF Bytes
  <2>2. n <= Len(s) /\ Len(a) <= Len(s) /\ n \in Nat /\ Len(s) \in Nat
    BY <1>1
  <2> HIDE DEF s, n
  <2>3. Take(s, n) = SubSeq(s, 1, n)
    <3>1. CASE n < Len(s)
      BY <3>1 DEF Take
    <3>2. CASE ~(n < Len(s))
      <4>1. n = Len(s)
        BY <2>2, <3>2
      <4> QED
        BY <4>1 DEF Take
    <3> QED
      BY <3>1, <3>2
  <2>4. Take(s, Len(a)) = SubSeq(s, 1, Len(a))
    BY <1>1, <2>1, <2>2 DEF Take
  <2> QED
    BY <1>2, <1>3, <2>3, <2>4
<1>5. SubSeq(s, 1, Len(a)) \o SubSeq(s, Len(a) + 1, n) = SubSeq(s, 1, n)
  <2>1. 1 \in 1 .. Len(s) + 1 /\ Len(a) \in 1 - 1 .. Len(s) /\ n \in Len(a) .. Len(s)
    BY <1>1
  <2> HIDE DEF s, n
  <2> QED
    BY <1>1, <2>1, ConcatAdjacentSubSeq DEF Bytes
<1>6. SubSeq(s, Len(a) + 1, n) \in Bytes
  <2>1. s \in Seq(Int) /\ \A i \in 1 .. Len(s) : s[i] \in Int
    BY <1>1, ElementOfSeq DEF Bytes
  <2>2. Len(a) + 1 \in Int /\ n \in Int /\ \A i \in Len(a) + 1 .. n : i \in 1 .. Len(s)
    BY <1>1
  <2> HIDE DEF s, n
  <2> QED
    BY <2>1, <2>2, SubSeqProperties DEF Bytes
<1>7. a \o SubSeq(s, Len(a) + 1, n) = a \o b
  BY <1>4, <1>5
<1> QED
  BY <1>6, <1>7, Cancel

(* Of two ways to part the same bytes one comes first: p is r and z.       *)
Between(p, r) == From(p, Len(r) + 1)

After(p, q, r, s) ==
  /\ p \in Bytes /\ q \in Bytes /\ r \in Bytes /\ s \in Bytes
  /\ p \o q = r \o s /\ Len(r) <= Len(p)

(* A sequence that starts with another is that one and what is between.    *)
LEMMA Split ==
  ASSUME NEW p, NEW q, NEW r, NEW s, After(p, q, r, s)
  PROVE  /\ Between(p, r) \in Bytes /\ Len(Between(p, r)) = Len(p) - Len(r)
         /\ p = r \o Between(p, r) /\ s = Between(p, r) \o q
<1> USE DEF After
<1>1. Len(r) \in Nat /\ Len(p) \in Nat
  BY Joined
<1> DEFINE t == Take(p, Len(r))
           z == Between(p, r)
<1>2. t \in Bytes /\ z \in Bytes /\ p = t \o z /\ Len(t) = Len(r) /\ Len(z) = Len(p) - Len(r)
  BY <1>1, Parted DEF Between
<1> HIDE DEF t, z
<1>3. t \o (z \o q) = r \o s /\ z \o q \in Bytes
  <2>1. t \o (z \o q) = (t \o z) \o q
    BY <1>2, Associative, ZenonT(60)
  <2> QED
    BY <1>2, <2>1, Joined
<1>4. t = r
  <2>1. Take(t \o (z \o q), Len(t)) = t /\ Take(r \o s, Len(r)) = r
    BY <1>2, <1>3, TakeOver
  <2> QED
    BY <1>2, <1>3, <2>1
<1>5. s = z \o q
  BY <1>3, <1>4, Cancel
<1> QED
  BY <1>2, <1>4, <1>5 DEF z

-----------------------------------------------------------------------------
(* What is scanned.                                                        *)

AllIn(a, S) == \A i \in 1 .. Len(a) : a[i] \in S
StartsOut(b, S) == b = << >> \/ b[1] \notin S
Blanks == {Blank}
Space == <<Blank>>

(* Both parts of a text are text ...                                       *)
LEMMA PartIn ==
  ASSUME NEW a \in Bytes, NEW b \in Bytes, NEW S, AllIn(a \o b, S)
  PROVE  AllIn(a, S) /\ AllIn(b, S)
<1>1. /\ Len(a) \in Nat /\ Len(b) \in Nat /\ Len(a \o b) = Len(a) + Len(b)
      /\ \A i \in 1 .. Len(a) : (a \o b)[i] = a[i]
      /\ \A i \in 1 .. Len(b) : (a \o b)[Len(a) + i] = b[i]
  BY Joined
<1>2. ASSUME NEW i \in 1 .. Len(a) PROVE a[i] \in S
  <2>1. i \in 1 .. Len(a \o b)
    BY <1>1
  <2> QED
    BY <1>1, <2>1 DEF AllIn
<1>3. ASSUME NEW i \in 1 .. Len(b) PROVE b[i] \in S
  <2>1. Len(a) + i \in 1 .. Len(a \o b)
    BY <1>1
  <2> QED
    BY <1>1, <2>1 DEF AllIn
<1> QED
  BY <1>2, <1>3 DEF AllIn

(* The first byte of two sequences is that of the first, if it has any.    *)
LEMMA First ==
  ASSUME NEW a \in Bytes, NEW b \in Bytes, a # << >>
  PROVE  a \o b # << >> /\ (a \o b)[1] = a[1] /\ 1 \in 1 .. Len(a)
<1>1. Len(a) \in Nat /\ Len(a) # 0 /\ a \o b \in Bytes /\ Len(b) \in Nat
  BY Nothings, Joined
<1>2. Len(a \o b) = Len(a) + Len(b) /\ 1 \in 1 .. Len(a)
  BY <1>1, Joined
<1>3. Len(a \o b) # 0
  BY <1>1, <1>2
<1> QED
  BY <1>1, <1>2, <1>3, Joined, Nothings

(* A run ends where the bytes of S do.                                     *)
LEMMA RunOver ==
  ASSUME NEW a \in Bytes, NEW b \in Bytes, NEW S, AllIn(a, S), StartsOut(b, S)
  PROVE  Run(a \o b, S) = Len(a)
<1> DEFINE s == a \o b
<1>1. /\ s \in Bytes /\ Len(s) = Len(a) + Len(b) /\ Len(a) \in Nat /\ Len(b) \in Nat
      /\ \A i \in 1 .. Len(a) : s[i] = a[i]
      /\ \A i \in 1 .. Len(b) : s[Len(a) + i] = b[i]
  BY Joined
<1> HIDE DEF s
<1>2. Len(a) \in 0 .. Len(s)
  BY <1>1
<1>3. \A i \in 1 .. Len(a) : s[i] \in S
  BY <1>1 DEF AllIn
<1>4. Len(a) = Len(s) \/ s[Len(a) + 1] \notin S
  <2>1. CASE b = << >>
    BY <1>1, <2>1, Nothings
  <2>2. CASE b # << >>
    <3>1. 1 \in 1 .. Len(b)
      BY <1>1, <2>2, Nothings
    <3> QED
      BY <1>1, <2>2, <3>1 DEF StartsOut
  <2> QED
    BY <2>1, <2>2
<1>5. Run(s, S) = Len(a)
  BY <1>1, <1>2, <1>3, <1>4, RunIs DEF Bytes
<1> QED
  BY <1>5 DEF s

(* The digits k behind the blanks a, and what cannot be a digit.           *)
IsNumber(s, a, k, r) ==
  /\ a \in Bytes /\ k \in Bytes /\ r \in Bytes /\ s = a \o (k \o r)
  /\ AllIn(a, Blanks) /\ StartsOut(k \o r, Blanks) /\ AllIn(k, Digit) /\ StartsOut(r, Digit)
Scanned(s, k, n) ==
  ScanU(s).ok = (k # << >>) /\ ScanU(s).length = n /\ ScanU(s).digits = k

(* scanf("%u") of blanks, digits and a byte that is no digit.              *)
LEMMA ScanUIs ==
  ASSUME NEW s, NEW a, NEW k, NEW r, IsNumber(s, a, k, r)
  PROVE  Scanned(s, k, Len(a) + Len(k))
<1> USE DEF IsNumber
<1> DEFINE t == k \o r
<1>0. s = a \o t
  OBVIOUS
<1>1. t \in Bytes /\ s \in Bytes /\ Len(a) \in Nat /\ Len(k) \in Nat
  BY Joined
<1>2. Run(s, {Blank}) = Len(a)
  BY <1>1, RunOver DEF Blanks
<1>3. From(s, Len(a) + 1) = t
  BY <1>0, <1>1, FromOver
<1>4. Run(t, Digit) = Len(k)
  BY RunOver
<1>5. SubSeq(s, Len(a) + 1, Len(a) + Len(k)) = k
  BY <1>0, Middle
<1>6. (k # << >>) = (Len(k) > 0)
  BY <1>1, Nothings
<1> HIDE DEF t
<1>7. ScanU(s) = [ok |-> Len(k) > 0, length |-> Len(a) + Len(k), digits |-> k]
  BY <1>2, <1>3, <1>4, <1>5 DEF ScanU
<1>8. /\ ScanU(s).ok = (k # << >>)
      /\ ScanU(s).length = Len(a) + Len(k)
      /\ ScanU(s).digits = k
  BY <1>6, <1>7
<1> QED
  BY <1>8 DEF Scanned

(* A key or a size as it is written has digits only, and some.             *)
LEMMA NumeralIs ==
  ASSUME NEW k \in Numeral
  PROVE  k \in Bytes /\ k # << >> /\ AllIn(k, Digit)
<1>1. k \in Seq(Digit) /\ k # << >> /\ Digit \subseteq Int
  BY DEF Numeral, Digit
<1>2. k \in Bytes
  BY <1>1, SeqMonotonic DEF Bytes
<1>3. AllIn(k, Digit)
  BY <1>1, ElementOfSeq DEF AllIn
<1> QED
  BY <1>1, <1>2, <1>3

(* The blank is no digit.                                                  *)
LEMMA BlankIs ==
  /\ Space \in Bytes /\ Len(Space) = 1 /\ Space[1] = Blank /\ Space # << >>
  /\ AllIn(Space, Blanks) /\ Blank \notin Digit /\ StartsOut(<< >>, Digit)
  /\ \A r \in Bytes : StartsOut(Space \o r, Digit)
<1>1. /\ Space \in Bytes /\ Len(Space) = 1 /\ Space[1] = Blank /\ Space # << >>
      /\ Blank \notin Digit
  BY DEF Bytes, Blank, Digit, Space
<1>2. AllIn(Space, Blanks)
  BY <1>1 DEF AllIn, Blanks
<1>3. \A r \in Bytes : (Space \o r)[1] = Blank
  BY <1>1, First
<1> QED
  BY <1>1, <1>2, <1>3 DEF StartsOut

(* Digits do not start with a blank.                                       *)
LEMMA DigitsFirst ==
  ASSUME NEW k \in Bytes, NEW r \in Bytes, AllIn(k, Digit), k # << >> \/ StartsOut(r, Blanks)
  PROVE  StartsOut(k \o r, Blanks)
<1>1. CASE k # << >>
  <2>1. (k \o r)[1] = k[1] /\ 1 \in 1 .. Len(k)
    BY <1>1, First
  <2>2. (k \o r)[1] \in Digit
    BY <2>1 DEF AllIn
  <2> QED
    BY <2>2, BlankIs DEF StartsOut, Blanks
<1>2. CASE k = << >> /\ StartsOut(r, Blanks)
  BY <1>2, Nothings
<1> QED
  BY <1>1, <1>2

(* A key, and what may be the digits of a size, and what cannot.           *)
IsPair(s, key, k, r) ==
  /\ key \in Numeral /\ k \in Bytes /\ r \in Bytes /\ s = key \o (Space \o (k \o r))
  /\ AllIn(k, Digit) /\ StartsOut(r, Digit) /\ (k # << >> \/ r = << >>)

(* scanf("%u %u%c") of a key, a blank, digits and what follows.            *)
LEMMA ScanPairIs ==
  ASSUME NEW s, NEW key, NEW k, NEW r, IsPair(s, key, k, r)
  PROVE  /\ ScanPair(s).ok = (k # << >> /\ r # << >>)
         /\ ScanPair(s).key = key /\ ScanPair(s).size = Number(k)
         /\ r # << >> => ScanPair(s).space = r[1]
         /\ ScanPair(s).length = Len(key) + Len(k) + 2
<1> USE DEF IsPair
<1>1. key \in Bytes /\ key # << >> /\ AllIn(key, Digit) /\ Space \in Bytes
  BY NumeralIs, BlankIs
<1> SUFFICES ASSUME NEW t, t = Space \o (k \o r)
             PROVE  /\ ScanPair(s).ok = (k # << >> /\ r # << >>)
                    /\ ScanPair(s).key = key /\ ScanPair(s).size = Number(k)
                    /\ r # << >> => ScanPair(s).space = r[1]
                    /\ ScanPair(s).length = Len(key) + Len(k) + 2
  OBVIOUS
<1>2. s = key \o t
  OBVIOUS
<1>3. k \o r \in Bytes /\ t \in Bytes /\ StartsOut(t, Digit)
  BY <1>1, Joined, BlankIs
<1>4. ScanU(s).ok = TRUE /\ ScanU(s).length = Len(key) /\ ScanU(s).digits = key
  <2>1. StartsOut(key \o t, Blanks)
    BY <1>1, <1>3, DigitsFirst
  <2>2. AllIn(<< >>, Blanks) /\ << >> \in Bytes /\ Len(<< >>) = 0
    BY DEF AllIn, Bytes
  <2>3. << >> \o (key \o t) = s /\ s \in Bytes /\ Len(key) \in Nat
    BY <1>1, <1>2, <1>3, Joined, Nothings
  <2>4. Scanned(s, key, Len(<< >>) + Len(key))
    <3>1. IsNumber(s, << >>, key, t)
      BY <1>1, <1>3, <2>1, <2>2, <2>3 DEF IsNumber
    <3> QED
      BY <3>1, ScanUIs
  <2> QED
    <3>1. Len(<< >>) + Len(key) = Len(key)
      BY <2>2, <2>3
    <3> QED
      BY <1>1, <2>4, <3>1, Zenon DEF Scanned
<1>5. ScanU(t).ok = (k # << >>) /\ ScanU(t).length = 1 + Len(k) /\ ScanU(t).digits = k
  <2>1. StartsOut(k \o r, Blanks)
    <3>1. StartsOut(<< >>, Blanks)
      BY DEF StartsOut
    <3> QED
      BY <3>1, DigitsFirst
  <2>2. Scanned(t, k, Len(Space) + Len(k))
    <3>1. IsNumber(t, Space, k, r)
      BY <1>1, <2>1, BlankIs DEF IsNumber
    <3> QED
      BY <3>1, ScanUIs
  <2> QED
    BY <2>2, BlankIs DEF Scanned
<1>6. From(s, Len(key) + 1) = t
  BY <1>1, <1>2, <1>3, FromOver, ZenonT(60)
<1>7. /\ Len(key) \in Nat /\ Len(k) \in Nat /\ Len(r) \in Nat
      /\ Len(s) = Len(key) + 1 + Len(k) + Len(r)
      /\ r # << >> => s[Len(key) + Len(k) + 2] = r[1] /\ Len(r) # 0
      /\ r = << >> => Len(r) = 0
  <2> DEFINE v == Space \o k
             u == key \o v
  <2>1. v \in Bytes /\ Len(v) = 1 + Len(k) /\ Len(k) \in Nat
    <3>1. v \in Bytes /\ Len(v) = Len(Space) + Len(k) /\ Len(k) \in Nat
      BY <1>1, Joined
    <3> QED
      BY <3>1, BlankIs
  <2>2. u \in Bytes /\ Len(u) = Len(key) + (1 + Len(k)) /\ Len(key) \in Nat
    <3> HIDE DEF v
    <3>1. u \in Bytes /\ Len(u) = Len(key) + Len(v) /\ Len(key) \in Nat
      BY <1>1, <2>1, Joined
    <3> QED
      BY <2>1, <3>1
  <2>3. s = u \o r
    <3>1. t = v \o r
      BY <1>1, Associative
    <3> HIDE DEF v
    <3>2. key \o (v \o r) = (key \o v) \o r
      BY <1>1, <2>1, Associative, ZenonT(60)
    <3> QED
      BY <1>2, <3>1, <3>2
  <2> HIDE DEF u, v
  <2>4. /\ Len(s) = Len(u) + Len(r) /\ Len(r) \in Nat
        /\ \A i \in 1 .. Len(r) : s[Len(u) + i] = r[i]
    <3>1. /\ Len(u \o r) = Len(u) + Len(r) /\ Len(r) \in Nat
          /\ \A i \in 1 .. Len(r) : (u \o r)[Len(u) + i] = r[i]
      BY <2>2, Joined
    <3> QED
      BY <2>3, <3>1
  <2>5. r # << >> => Len(r) # 0 /\ 1 \in 1 .. Len(r)
    BY <2>4, Nothings
  <2>6. r # << >> => s[Len(u) + 1] = r[1]
    BY <2>4, <2>5
  <2>7. Len(u) + 1 = Len(key) + Len(k) + 2 /\ Len(u) + Len(r) = Len(key) + 1 + Len(k) + Len(r)
    BY <2>1, <2>2, <2>4
  <2> QED
    BY <2>1, <2>2, <2>4, <2>5, <2>6, <2>7, Nothings
<1> DEFINE end == Len(key) + (1 + Len(k)) + 1
<1>8. end = Len(key) + Len(k) + 2 /\ (end <= Len(s)) = (r # << >>)
  BY <1>7
<1> HIDE DEF end
<1>9. ScanPair(s) = [ok |-> TRUE /\ (k # << >>) /\ end <= Len(s), key |-> key, size |-> Number(k),
                     space |-> IF end <= Len(s) THEN s[end] ELSE Junk, length |-> end]
  BY <1>4, <1>5, <1>6 DEF ScanPair, end
<1> QED
  BY <1>7, <1>8, <1>9

(* What stands in front of a value.                                        *)
Header(key, size) == key \o (Space \o (size \o Space))

(* The length of a header.                                                 *)
LEMMA HeaderIs ==
  ASSUME NEW key \in Numeral, NEW size \in Numeral
  PROVE  /\ Header(key, size) \in Bytes /\ Len(Header(key, size)) = Len(key) + Len(size) + 2
         /\ Len(key) \in Nat /\ Len(size) \in Nat
<1>1. key \in Bytes /\ size \in Bytes /\ Space \in Bytes /\ Len(Space) = 1
  BY NumeralIs, BlankIs
<1> DEFINE a == size \o Space
           b == Space \o a
           c == key \o b
<1>2. a \in Bytes /\ Len(a) = Len(size) + 1 /\ Len(size) \in Nat
  <2>1. a \in Bytes /\ Len(a) = Len(size) + Len(Space) /\ Len(size) \in Nat
    BY <1>1, Joined
  <2> QED
    BY <1>1, <2>1
<1> HIDE DEF a
<1>3. b \in Bytes /\ Len(b) = 1 + Len(a)
  <2>1. b \in Bytes /\ Len(b) = Len(Space) + Len(a)
    BY <1>1, <1>2, Joined
  <2> QED
    BY <1>1, <2>1
<1> HIDE DEF b
<1>4. c \in Bytes /\ Len(c) = Len(key) + Len(b) /\ Len(key) \in Nat
  BY <1>1, <1>3, Joined
<1>5. c = Header(key, size)
  BY DEF Header, a, b
<1> HIDE DEF c
<1> QED
  BY <1>2, <1>3, <1>4, <1>5

(* ... and two texts together are one.                                     *)
LEMMA JoinedIn ==
  ASSUME NEW a \in Bytes, NEW b \in Bytes, NEW S, AllIn(a, S), AllIn(b, S)
  PROVE  AllIn(a \o b, S)
<1>1. /\ Len(a) \in Nat /\ Len(b) \in Nat /\ Len(a \o b) = Len(a) + Len(b)
      /\ \A i \in 1 .. Len(a) : (a \o b)[i] = a[i]
      /\ \A i \in 1 .. Len(b) : (a \o b)[Len(a) + i] = b[i]
  BY Joined
<1>2. ASSUME NEW i \in 1 .. Len(a \o b) PROVE (a \o b)[i] \in S
  <2>1. CASE i <= Len(a)
    <3>1. i \in 1 .. Len(a)
      BY <1>1, <2>1
    <3> QED
      BY <1>1, <3>1 DEF AllIn
  <2>2. CASE ~(i <= Len(a))
    <3>1. i - Len(a) \in 1 .. Len(b) /\ Len(a) + (i - Len(a)) = i
      BY <1>1, <2>2
    <3> QED
      BY <1>1, <3>1 DEF AllIn
  <2> QED
    BY <2>1, <2>2
<1> QED
  BY <1>2 DEF AllIn

(* No byte of it ends a string.                                            *)
Text == Int \ {Zero}

(* A header has no zero byte.                                              *)
LEMMA HeaderText ==
  ASSUME NEW key \in Numeral, NEW size \in Numeral
  PROVE  AllIn(Header(key, size), Text)
<1>1. key \in Bytes /\ size \in Bytes /\ Space \in Bytes
      /\ AllIn(key, Digit) /\ AllIn(size, Digit) /\ AllIn(Space, Blanks)
  BY NumeralIs, BlankIs
<1>2. Digit \subseteq Text /\ Blanks \subseteq Text
  BY DEF Digit, Blanks, Blank, Text, Zero
<1>3. AllIn(key, Text) /\ AllIn(size, Text) /\ AllIn(Space, Text)
  BY <1>1, <1>2 DEF AllIn
<1>4. size \o Space \in Bytes /\ AllIn(size \o Space, Text)
  BY <1>1, <1>3, Joined, JoinedIn
<1>5. Space \o (size \o Space) \in Bytes /\ AllIn(Space \o (size \o Space), Text)
  BY <1>1, <1>3, <1>4, Joined, JoinedIn
<1> QED
  BY <1>1, <1>3, <1>5, JoinedIn DEF Header

(* A header is scanned once the buffer has all of it ...                   *)
HasHeader(s, key, size) ==
  /\ ScanPair(s).ok /\ ScanPair(s).space = Blank
  /\ ScanPair(s).key = key /\ ScanPair(s).size = Number(size)
  /\ ScanPair(s).length = Len(Header(key, size))

(* A header is scanned, whatever the value behind it starts with.          *)
LEMMA ScanWhole ==
  ASSUME NEW key \in Numeral, NEW size \in Numeral, NEW z \in Bytes,
         NEW s, s = Header(key, size) \o z
  PROVE  HasHeader(s, key, size)
<1>1. /\ key \in Bytes /\ size \in Bytes /\ Space \in Bytes
      /\ AllIn(size, Digit) /\ size # << >>
  BY NumeralIs, BlankIs
<1> DEFINE a == size \o Space
           r == Space \o z
<1>2. r \in Bytes /\ StartsOut(r, Digit) /\ r # << >> /\ r[1] = Blank
  BY <1>1, Joined, BlankIs, First
<1>3. s = key \o (Space \o (size \o r))
  <2>1. a \in Bytes /\ a \o z = size \o r
    BY <1>1, Joined, Associative, ZenonT(60)
  <2> HIDE DEF a, r
  <2>2. Space \o a \in Bytes /\ (Space \o a) \o z = Space \o (a \o z)
    <3>1. Space \o a \in Bytes
      BY <1>1, <2>1, Joined
    <3>2. (Space \o a) \o z = Space \o (a \o z)
      BY <1>1, <2>1, Associative
    <3> QED
      BY <3>1, <3>2
  <2>3. (key \o (Space \o a)) \o z = key \o ((Space \o a) \o z)
    BY <1>1, <2>2, Associative
  <2>4. Header(key, size) = key \o (Space \o a)
    BY DEF Header, a
  <2> QED
    BY <2>1, <2>2, <2>3, <2>4
<1> HIDE DEF r
<1>4. /\ ScanPair(s).ok = (size # << >> /\ r # << >>)
      /\ ScanPair(s).key = key /\ ScanPair(s).size = Number(size)
      /\ r # << >> => ScanPair(s).space = r[1]
      /\ ScanPair(s).length = Len(key) + Len(size) + 2
  <2>1. IsPair(s, key, size, r)
    BY <1>1, <1>2, <1>3 DEF IsPair
  <2> QED
    BY <2>1, ScanPairIs
<1> QED
  BY <1>1, <1>2, <1>4, HeaderIs DEF HasHeader

(* ... and not before.                                                     *)
LEMMA ScanPart ==
  ASSUME NEW key \in Numeral, NEW size \in Numeral, NEW s \in Bytes, NEW x \in Bytes,
         x # << >>, s \o x = Header(key, size)
  PROVE  ~ScanPair(s).ok
<1>1. /\ key \in Bytes /\ size \in Bytes /\ Space \in Bytes
      /\ AllIn(size, Digit) /\ AllIn(key, Digit) /\ Len(Space) = 1
  BY NumeralIs, BlankIs
<1>2. Len(s) \in Nat /\ Len(key) \in Nat /\ Len(size) \in Nat /\ Len(x) \in Nat \ {0}
  BY <1>1, Joined, Nothings
<1> DEFINE a == size \o Space
           b == Space \o a
<1>3. a \in Bytes /\ b \in Bytes /\ Header(key, size) = key \o b
  BY <1>1, Joined DEF Header
<1> HIDE DEF b
<1>4. CASE Len(s) <= Len(key)
  <2> DEFINE z == Between(key, s)
  <2>1. z \in Bytes /\ key = s \o z
    <3>1. After(key, b, s, x)
      BY <1>1, <1>3, <1>4 DEF After
    <3> QED
      BY <3>1, Split
  <2> HIDE DEF z
  <2>2. AllIn(s, Digit)
    BY <1>1, <2>1, PartIn
  <2>3. ScanU(s).length = Len(s)
    <3>1. IsNumber(s, << >>, s, << >>)
      <4>1. /\ << >> \in Bytes /\ << >> \o (s \o << >>) = s /\ s \o << >> = s
            /\ AllIn(<< >>, Blanks) /\ StartsOut(<< >>, Digit) /\ StartsOut(<< >>, Blanks)
        BY Nothings DEF AllIn, StartsOut
      <4>2. StartsOut(s, Blanks)
        BY <2>2, <4>1, DigitsFirst
      <4> QED
        BY <2>2, <4>1, <4>2 DEF IsNumber
    <3>2. Scanned(s, s, Len(<< >>) + Len(s))
      BY <3>1, ScanUIs
    <3>3. Len(<< >>) + Len(s) = Len(s)
      BY <1>2, Nothings
    <3> QED
      BY <3>2, <3>3 DEF Scanned
  <2>4. From(s, Len(s) + 1) = << >>
    <3>1. From(s, Len(s) + 1) \in Bytes /\ Len(From(s, Len(s) + 1)) = 0
      <4>1. Len(From(s, Len(s) + 1)) = IF Len(s) < Len(s) THEN Len(s) - Len(s) ELSE 0
        BY <1>2, Parted
      <4> QED
        BY <1>2, <4>1, Parted, SMTT(60)
    <3> QED
      BY <3>1, Nothings
  <2>5. ~ScanU(<< >>).ok
    <3>1. IsNumber(<< >>, << >>, << >>, << >>)
      BY Nothings DEF IsNumber, AllIn, StartsOut
    <3>2. Scanned(<< >>, << >>, Len(<< >>) + Len(<< >>))
      BY <3>1, ScanUIs
    <3> QED
      BY <3>2, Zenon DEF Scanned
  <2> QED
    BY <2>3, <2>4, <2>5 DEF ScanPair
<1>5. CASE ~(Len(s) <= Len(key))
  <2> DEFINE z == Between(s, key)
  <2>1. z \in Bytes /\ s = key \o z /\ b = z \o x /\ Len(z) = Len(s) - Len(key)
    <3>1. Len(key) <= Len(s)
      BY <1>2, <1>5
    <3>2. After(s, x, key, b)
      BY <1>1, <1>3, <3>1 DEF After
    <3> QED
      BY <3>2, Split
  <2> HIDE DEF z
  <2> DEFINE y == Between(z, Space)
  <2>2. y \in Bytes /\ z = Space \o y /\ a = y \o x
    <3>1. Len(Space) <= Len(z)
      BY <1>1, <1>2, <1>5, <2>1
    <3>2. z \o x = Space \o a
      BY <2>1 DEF b
    <3> HIDE DEF a
    <3>3. After(z, x, Space, a)
      BY <1>1, <1>3, <2>1, <3>1, <3>2 DEF After
    <3>4. /\ Between(z, Space) \in Bytes
          /\ z = Space \o Between(z, Space) /\ a = Between(z, Space) \o x
      BY <3>3, Split
    <3> QED
      BY <3>4
  <2> HIDE DEF y
  <2>3. CASE Len(y) < Len(size)
    <3> DEFINE w == Between(size, y)
    <3>1. w \in Bytes /\ size = y \o w
      <4>1. Len(y) <= Len(size) /\ size \o Space = y \o x
        BY <1>2, <2>2, <2>3
      <4>2. After(size, Space, y, x)
        BY <1>1, <2>2, <4>1 DEF After
      <4> QED
        BY <4>2, Split
    <3> HIDE DEF w
    <3>2. AllIn(y, Digit) /\ y \o << >> = y /\ << >> \in Bytes
      BY <1>1, <2>2, <3>1, PartIn, Nothings
    <3>3. s = key \o (Space \o (y \o << >>))
      BY <2>1, <2>2, <3>2
    <3>4. ScanPair(s).ok = (y # << >> /\ << >> # << >>)
      <4>1. IsPair(s, key, y, << >>)
        BY <2>2, <3>2, <3>3, BlankIs DEF IsPair
      <4> QED
        BY <4>1, ScanPairIs, Zenon
    <3> QED
      BY <3>4
  <2>4. CASE ~(Len(y) < Len(size))
    <3> DEFINE w == Between(y, size)
    <3>1. w \in Bytes /\ y = size \o w /\ Space = w \o x
      <4>1. Len(y) \in Nat
        BY <2>2, Joined
      <4>2. Len(size) <= Len(y)
        BY <1>2, <2>4, <4>1
      <4>3. After(y, x, size, Space)
        BY <1>1, <2>2, <4>2 DEF After
      <4> QED
        BY <4>3, Split
    <3> HIDE DEF w
    <3>2. w = << >>
      <4>1. Len(w) + Len(x) = 1 /\ Len(w) \in Nat
        BY <1>1, <3>1, Joined
      <4>2. Len(w) = 0
        BY <1>2, <4>1
      <4> QED
        BY <3>1, <4>2, Nothings
    <3>3. s = key \o (Space \o (size \o << >>)) /\ << >> \in Bytes
      BY <2>1, <2>2, <3>1, <3>2, Nothings
    <3>4. ScanPair(s).ok = (size # << >> /\ << >> # << >>)
      <4>1. IsPair(s, key, size, << >>)
        BY <1>1, <3>3, BlankIs, NumeralIs DEF IsPair
      <4> QED
        BY <4>1, ScanPairIs, Zenon
    <3> QED
      BY <3>4
  <2> QED
    BY <2>3, <2>4
<1> QED
  BY <1>4, <1>5

(* An entry is its header and its value.                                   *)
LEMMA PairIs ==
  ASSUME NEW key \in Numeral, NEW size \in Numeral, NEW value \in Bytes,
         NEW e, e.key = key, e.size = size, e.value = value
  PROVE  Pair(e) = Header(key, size) \o value
<1>1. key \in Bytes /\ size \in Bytes /\ Space \in Bytes
  BY NumeralIs, BlankIs
<1> DEFINE a == size \o Space
           b == Space \o a
<1>2. a \in Bytes /\ b \in Bytes /\ key \o Space \in Bytes
  BY <1>1, Joined
<1>3. Pair(e) = (((key \o Space) \o size) \o Space) \o value
  BY DEF Pair, Space
<1>4. ((key \o Space) \o size) \o Space = (key \o Space) \o a
  BY <1>1, <1>2, Associative, SMTT(60)
<1>5. (key \o Space) \o a = key \o b
  <2> HIDE DEF a
  <2> QED
    BY <1>1, <1>2, Associative, SMTT(60)
<1>6. Header(key, size) = key \o b
  BY DEF Header
<1> QED
  BY <1>3, <1>4, <1>5, <1>6

-----------------------------------------------------------------------------
(* What is behind the n-th part.                                           *)

(* h has the bytes behind the parts from the m-th on.                      *)
Behinds(h, parts, m) ==
  h = [n \in m .. Len(parts) |-> IF n = Len(parts) THEN << >> ELSE parts[n + 1] \o h[n + 1]]

(* The parts behind one are found from those behind the next, ...          *)
LEMMA BehindsExtends ==
  ASSUME NEW parts, Len(parts) \in Nat, NEW m \in 1 .. Len(parts), NEW h, Behinds(h, parts, m)
  PROVE  Behinds([n \in m - 1 .. Len(parts) |-> IF n = m - 1 THEN parts[m] \o h[m] ELSE h[n]],
                 parts, m - 1)
<1> DEFINE N == Len(parts)
           g == [n \in m - 1 .. N |-> IF n = m - 1 THEN parts[m] \o h[m] ELSE h[n]]
<1>1. \A n \in m .. N : h[n] = IF n = N THEN << >> ELSE parts[n + 1] \o h[n + 1]
  <2> DEFINE f == [n \in m .. N |-> IF n = N THEN << >> ELSE parts[n + 1] \o h[n + 1]]
  <2>1. h = f
    BY DEF Behinds
  <2>2. \A n \in m .. N : f[n] = IF n = N THEN << >> ELSE parts[n + 1] \o h[n + 1]
    OBVIOUS
  <2> HIDE DEF f
  <2> QED
    BY <2>1, <2>2
<1>2. ASSUME NEW n \in m - 1 .. N
      PROVE  g[n] = IF n = N THEN << >> ELSE parts[n + 1] \o g[n + 1]
  <2>1. CASE n = m - 1
    <3>1. g[n] = parts[m] \o h[m]
      BY <2>1
    <3>3. n + 1 = m /\ n # N
      BY <2>1
    <3>2. g[m] = h[m]
      OBVIOUS
    <3> HIDE DEF g
    <3> QED
      BY <3>1, <3>2, <3>3
  <2>2. CASE n # m - 1
    <3>1. n \in m .. N /\ g[n] = h[n]
      BY <2>2
    <3>2. n # N => g[n + 1] = h[n + 1]
      BY <2>2
    <3> HIDE DEF g
    <3> QED
      BY <1>1, <3>1, <3>2
  <2> QED
    BY <2>1, <2>2
<1>3. g = [n \in m - 1 .. N |-> IF n = N THEN << >> ELSE parts[n + 1] \o g[n + 1]]
  <2>1. g = [n \in m - 1 .. N |-> g[n]]
    OBVIOUS
  <2> HIDE DEF g
  <2> QED
    BY <1>2, <2>1
<1> QED
  BY <1>3 DEF Behinds

(* ... and so for all.                                                     *)
LEMMA BehindsExists ==
  ASSUME NEW parts, Len(parts) \in Nat
  PROVE  \E h : Behinds(h, parts, 0)
<1> DEFINE N == Len(parts)
           T == {d \in Nat : d <= N /\ ~ \E h : Behinds(h, parts, N - d)}
<1>1. ASSUME T # {} PROVE FALSE
  <2>1. PICK d \in T : \A i \in T : d <= i
    <3>1. T \subseteq Nat
      OBVIOUS
    <3> HIDE DEF T
    <3> QED
      BY <1>1, <3>1, LeastNatural
  <2>2. CASE d = 0
    <3>1. N - d = N
      BY <2>2
    <3> DEFINE f == [n \in N .. N |-> << >>]
    <3>2. f = [n \in N .. N |-> IF n = N THEN << >> ELSE parts[n + 1] \o f[n + 1]]
      <4>1. \A n \in N .. N : f[n] = << >> /\ n = N
        OBVIOUS
      <4>2. f = [n \in N .. N |-> f[n]]
        OBVIOUS
      <4> HIDE DEF f
      <4> QED
        BY <4>1, <4>2
    <3> HIDE DEF f
    <3>3. \E h : Behinds(h, parts, N)
      BY <3>2 DEF Behinds
    <3> QED
      BY <2>1, <3>1, <3>3
  <2>3. CASE d # 0
    <3>1. d \in Nat /\ d <= N /\ ~ \E h : Behinds(h, parts, N - d)
      BY <2>1
    <3>2. d - 1 \in Nat /\ d - 1 <= N /\ ~(d <= d - 1) /\ N - (d - 1) \in 1 .. N
          /\ (N - (d - 1)) - 1 = N - d
      BY <2>3, <3>1
    <3>3. d - 1 \notin T
      BY <2>1, <3>2
    <3>4. PICK h : Behinds(h, parts, N - (d - 1))
      BY <3>2, <3>3
    <3>5. \E g : Behinds(g, parts, (N - (d - 1)) - 1)
      BY <3>2, <3>4, BehindsExtends
    <3> QED
      BY <3>1, <3>2, <3>5
  <2> QED
    BY <2>2, <2>3
<1>2. 0 \notin {N - i : i \in T} /\ N \notin T /\ N - N = 0
  BY <1>1
<1> QED
  BY <1>2

(* The bytes behind the n-th part.                                         *)
LEMMA BehindIs ==
  ASSUME NEW parts, Len(parts) \in Nat, \A i \in 1 .. Len(parts) : parts[i] \in Bytes
  PROVE  /\ Behind(parts)[Len(parts)] = << >>
         /\ \A n \in 0 .. Len(parts) - 1 : Behind(parts)[n] = parts[n + 1] \o Behind(parts)[n + 1]
         /\ \A n \in 0 .. Len(parts) : Behind(parts)[n] \in Bytes
<1> DEFINE N == Len(parts)
           h == Behind(parts)
<1>1. Behinds(h, parts, 0)
  <2> DEFINE g == CHOOSE g : Behinds(g, parts, 0)
  <2>1. Behinds(g, parts, 0)
    BY BehindsExists
  <2>2. h = g
    BY Zenon DEF Behind, Behinds
  <2> QED
    BY <2>1, <2>2
<1> HIDE DEF h
<1>2. \A n \in 0 .. N : h[n] = IF n = N THEN << >> ELSE parts[n + 1] \o h[n + 1]
  <2> DEFINE f == [n \in 0 .. N |-> IF n = N THEN << >> ELSE parts[n + 1] \o h[n + 1]]
  <2>1. h = f
    BY <1>1 DEF Behinds
  <2>2. \A n \in 0 .. N : f[n] = IF n = N THEN << >> ELSE parts[n + 1] \o h[n + 1]
    OBVIOUS
  <2> HIDE DEF f
  <2> QED
    BY <2>1, <2>2
<1>3. h[N] = << >> /\ \A n \in 0 .. N - 1 : h[n] = parts[n + 1] \o h[n + 1]
  <2>1. N \in 0 .. N /\ \A n \in 0 .. N - 1 : n \in 0 .. N /\ n # N
    OBVIOUS
  <2> QED
    BY <1>2, <2>1
<1>4. \A n \in 0 .. N : h[n] \in Bytes
  <2> DEFINE T == {d \in Nat : d <= N /\ h[N - d] \notin Bytes}
  <2>1. ASSUME T # {} PROVE FALSE
    <3>1. PICK d \in T : \A i \in T : d <= i
      <4>1. T \subseteq Nat
        OBVIOUS
      <4> HIDE DEF T
      <4> QED
        BY <2>1, <4>1, LeastNatural
    <3>2. d # 0
      BY <1>3, <3>1, Nothings
    <3>3. d - 1 \in Nat /\ d - 1 <= N /\ d - 1 \notin T /\ N - d \in 0 .. N - 1
          /\ (N - d) + 1 = N - (d - 1) /\ (N - d) + 1 \in 1 .. N
      BY <3>1, <3>2
    <3>4. h[(N - d) + 1] \in Bytes
      BY <3>3
    <3>5. h[N - d] = parts[(N - d) + 1] \o h[(N - d) + 1] /\ parts[(N - d) + 1] \in Bytes
      BY <1>3, <3>3
    <3>6. h[N - d] \in Bytes
      BY <3>4, <3>5, Joined
    <3> QED
      BY <3>1, <3>6
  <2>2. ASSUME NEW n \in 0 .. N PROVE h[n] \in Bytes
    <3>1. N - n \in Nat /\ N - n <= N /\ N - (N - n) = n
      OBVIOUS
    <3>2. N - n \notin T
      BY <2>1
    <3> QED
      BY <3>1, <3>2
  <2> QED
    BY <2>2
<1> QED
  BY <1>3, <1>4 DEF h

-----------------------------------------------------------------------------
(* The two readers scan alike.                                             *)

(* The operators of Scan are the same for BackupReader ...                 *)
LEMMA BackupScans ==
  /\ Backup!Zero = Zero /\ Backup!Blank = Blank
  /\ \A s, i : Backup!From(s, i) = From(s, i) /\ Backup!Take(s, i) = Take(s, i)
  /\ \A s, S : Backup!Run(s, S) = Run(s, S)
  /\ \A s : Backup!ScanPair(s) = ScanPair(s)
  /\ \A s, n : Backup!Memory(s, n) = Memory(s, n)
  /\ \A t, k, v : Backup!Stored(t, k, v) = Stored(t, k, v)
  /\ \A e : Backup!Pair(e) = Pair(e)
  /\ \A parts : Backup!Behind(parts) = Behind(parts)
<1>1. Backup!Zero = Zero /\ Backup!Blank = Blank /\ Backup!Junk = Junk /\ Backup!Digit = Digit
  BY DEF Backup!Zero, Zero, Backup!Blank, Blank, Backup!Junk, Junk, Backup!Digit, Digit
<1>2. \A s, i : Backup!From(s, i) = From(s, i) /\ Backup!Take(s, i) = Take(s, i)
  BY Zenon DEF Backup!From, From, Backup!Take, Take
<1>3. \A s, S : Backup!Run(s, S) = Run(s, S)
  BY Zenon DEF Backup!Run, Run, Backup!Max, Max
<1>4. \A s : Backup!Number(s) = Number(s)
  BY Zenon DEF Backup!Number, Number
<1>5. \A s : Backup!ScanU(s) = ScanU(s)
  BY <1>1, <1>2, <1>3, Zenon DEF Backup!ScanU, ScanU
<1>6. \A s : Backup!ScanPair(s) = ScanPair(s)
  BY <1>1, <1>2, <1>4, <1>5, Zenon DEF Backup!ScanPair, ScanPair
<1>7. \A s, n : Backup!Memory(s, n) = Memory(s, n)
  BY <1>1, Zenon DEF Backup!Memory, Memory
<1>8. \A t, k, v : Backup!Stored(t, k, v) = Stored(t, k, v)
  BY Zenon DEF Backup!Stored, Stored
<1>9. \A e : Backup!Pair(e) = Pair(e)
  BY <1>1, Zenon DEF Backup!Pair, Pair
<1>10. \A parts : Backup!Behind(parts) = Behind(parts)
  BY Zenon DEF Backup!Behind, Behind
<1> QED
  BY <1>1, <1>2, <1>3, <1>6, <1>7, <1>8, <1>9, <1>10

(* ... and for LogReader.                                                  *)
LEMMA LogScans ==
  /\ Log!I = I /\ Log!D = D /\ Log!Other = Other /\ Log!Blank = Blank
  /\ \A s, i : Log!From(s, i) = From(s, i) /\ Log!Take(s, i) = Take(s, i)
  /\ \A s : Log!ScanU(s) = ScanU(s) /\ Log!ScanPair(s) = ScanPair(s)
  /\ \A s, n : Log!Memory(s, n) = Memory(s, n)
  /\ \A t, k, v : Log!Stored(t, k, v) = Stored(t, k, v) /\ Log!Without(t, k) = Without(t, k)
  /\ \A e : Log!Pair(e) = Pair(e)
  /\ \A parts : Log!Behind(parts) = Behind(parts)
<1>1. /\ Log!I = I /\ Log!D = D /\ Log!Other = Other /\ Log!Blank = Blank
      /\ Log!Junk = Junk /\ Log!Digit = Digit
  BY DEF Log!I, I, Log!D, D, Log!Other, Other, Log!Blank, Blank, Log!Junk, Junk,
         Log!Digit, Digit
<1>2. \A s, i : Log!From(s, i) = From(s, i) /\ Log!Take(s, i) = Take(s, i)
  BY Zenon DEF Log!From, From, Log!Take, Take
<1>3. \A s, S : Log!Run(s, S) = Run(s, S)
  BY Zenon DEF Log!Run, Run, Log!Max, Max
<1>4. \A s : Log!Number(s) = Number(s)
  BY Zenon DEF Log!Number, Number
<1>5. \A s : Log!ScanU(s) = ScanU(s)
  BY <1>1, <1>2, <1>3, Zenon DEF Log!ScanU, ScanU
<1>6. \A s : Log!ScanPair(s) = ScanPair(s)
  BY <1>1, <1>2, <1>4, <1>5, Zenon DEF Log!ScanPair, ScanPair
<1>7. \A s, n : Log!Memory(s, n) = Memory(s, n)
  BY <1>1, Zenon DEF Log!Memory, Memory
<1>8. \A t, k, v : Log!Stored(t, k, v) = Stored(t, k, v) /\ Log!Without(t, k) = Without(t, k)
  BY Zenon DEF Log!Stored, Stored, Log!Without, Without
<1>9. \A e : Log!Pair(e) = Pair(e)
  BY <1>1, Zenon DEF Log!Pair, Pair
<1>10. \A parts : Log!Behind(parts) = Behind(parts)
  BY Zenon DEF Log!Behind, Behind
<1> QED
  BY <1>1, <1>2, <1>5, <1>6, <1>7, <1>8, <1>9, <1>10

-----------------------------------------------------------------------------
(* Memory and buffers.                                                     *)

(* n bytes of memory into which s was read.                                *)
LEMMA MemoryIs ==
  ASSUME NEW s \in Bytes, NEW n \in Nat
  PROVE  /\ Memory(s, n) \in Bytes /\ Len(Memory(s, n)) = n
         /\ \A i \in 1 .. n : Memory(s, n)[i] = IF i <= Len(s) THEN s[i] ELSE Junk
<1>1. \A i \in 1 .. n : (IF i <= Len(s) THEN s[i] ELSE Junk) \in Int
  <2>1. ASSUME NEW i \in 1 .. n, i <= Len(s) PROVE s[i] \in Int
    <3>1. i \in 1 .. Len(s) /\ s \in Seq(Int)
      BY <2>1 DEF Bytes
    <3> QED
      BY <3>1, ElementOfSeq
  <2> QED
    BY <2>1 DEF Junk
<1> QED
  BY <1>1 DEF Memory, Bytes

(* As many bytes as were read are those that were.                         *)
LEMMA MemoryOver ==
  ASSUME NEW a \in Bytes, NEW b \in Bytes
  PROVE  Memory(a \o b, Len(a)) = a
<1> DEFINE s == a \o b
           m == Memory(s, Len(a))
<1>1. /\ s \in Bytes /\ Len(s) = Len(a) + Len(b) /\ Len(a) \in Nat /\ Len(b) \in Nat
      /\ \A i \in 1 .. Len(a) : s[i] = a[i]
  BY Joined
<1> HIDE DEF s
<1>2. m \in Bytes /\ Len(m) = Len(a)
      /\ \A i \in 1 .. Len(a) : m[i] = IF i <= Len(s) THEN s[i] ELSE Junk
  BY <1>1, MemoryIs
<1> HIDE DEF m
<1>3. \A i \in 1 .. Len(a) : i <= Len(s)
  BY <1>1
<1>4. \A i \in 1 .. Len(m) : m[i] = a[i]
  BY <1>1, <1>2, <1>3
<1>5. m = a
  BY <1>2, <1>4, SameBytes
<1> QED
  BY <1>5 DEF m, s

(* What was read is followed by bytes that may be anything.                *)
LEMMA MemoryMore ==
  ASSUME NEW a \in Bytes, NEW n \in Nat, Len(a) <= n
  PROVE  \E z \in Bytes : Memory(a, n) = a \o z
<1> DEFINE m == Memory(a, n)
           b == Take(m, Len(a))
<1>1. /\ m \in Bytes /\ Len(m) = n /\ Len(a) \in Nat
      /\ \A i \in 1 .. n : m[i] = IF i <= Len(a) THEN a[i] ELSE Junk
  BY MemoryIs, Joined
<1> HIDE DEF m
<1>2. b \in Bytes /\ From(m, Len(a) + 1) \in Bytes /\ m = b \o From(m, Len(a) + 1)
      /\ Len(b) = Len(a)
  BY <1>1, Parted, SMTT(60)
<1>3. b = a
  <2>1. \A j \in 1 .. Len(b) : b[j] = m[j]
    BY <1>1, TakeIs DEF Bytes
  <2> HIDE DEF b
  <2>2. \A j \in 1 .. Len(b) : j \in 1 .. n /\ j <= Len(a)
    BY <1>1, <1>2
  <2>3. \A j \in 1 .. Len(b) : b[j] = a[j]
    BY <1>1, <2>1, <2>2
  <2> QED
    BY <1>2, <2>3, SameBytes
<1>4. m = a \o From(m, Len(a) + 1)
  BY <1>2, <1>3
<1> QED
  BY <1>2, <1>4 DEF m

(* The constants.                                                          *)
LEMMA Sizes ==
  /\ BackupBuf \in Nat /\ LogBuf \in Nat
  /\ Entries \subseteq Item /\ \A e \in Entries : Sized(e)
  BY RecoveryAssumption

IsBuffer(b) == b \in Bytes /\ Len(b) = BackupBuf + 1

(* What is written into the buffer, and what stays as it was.              *)
LEMMA OverIs ==
  ASSUME NEW b, IsBuffer(b), NEW s \in Bytes, NEW i \in Nat, i + Len(s) <= BackupBuf + 1
  PROVE  /\ IsBuffer(Backup!Over(b, i, s))
         /\ \A j \in 1 .. BackupBuf + 1 :
              Backup!Over(b, i, s)[j] = IF j \in i + 1 .. i + Len(s) THEN s[j - i] ELSE b[j]
<1>1. Len(s) \in Nat /\ b \in Seq(Int) /\ s \in Seq(Int) /\ Len(b) = BackupBuf + 1
  BY DEF IsBuffer, Bytes
<1>2. ASSUME NEW j \in 1 .. BackupBuf + 1
      PROVE  (IF j \in i + 1 .. i + Len(s) THEN s[j - i] ELSE b[j]) \in Int
  <2>1. CASE j \in i + 1 .. i + Len(s)
    <3>1. j - i \in 1 .. Len(s)
      BY <1>1, <2>1
    <3> QED
      BY <1>1, <2>1, <3>1, ElementOfSeq
  <2>2. CASE j \notin i + 1 .. i + Len(s)
    BY <1>1, <2>2, ElementOfSeq
  <2> QED
    BY <2>1, <2>2
<1> DEFINE f == [j \in 1 .. BackupBuf + 1 |-> IF j \in i + 1 .. i + Len(s) THEN s[j - i] ELSE b[j]]
<1>3. f \in [1 .. BackupBuf + 1 -> Int] /\ BackupBuf + 1 \in Nat
  BY <1>2, Sizes
<1>4. \A j \in 1 .. BackupBuf + 1 : f[j] = IF j \in i + 1 .. i + Len(s) THEN s[j - i] ELSE b[j]
  OBVIOUS
<1>5. Backup!Over(b, i, s) = f
  BY DEF Backup!Over
<1> HIDE DEF f
<1>6. f \in Seq(Int) /\ Len(f) = BackupBuf + 1
  BY <1>3
<1> QED
  BY <1>4, <1>5, <1>6 DEF IsBuffer, Bytes

(* What is written at the front.                                           *)
LEMMA OverFront ==
  ASSUME NEW b, IsBuffer(b), NEW s \in Bytes, Len(s) <= BackupBuf + 1
  PROVE  Backup!Over(b, 0, s) = s \o From(b, Len(s) + 1)
<1> DEFINE f == Backup!Over(b, 0, s)
           t == From(b, Len(s) + 1)
           g == s \o t
<1>1. Len(s) \in Nat /\ BackupBuf \in Nat /\ b \in Bytes /\ Len(b) = BackupBuf + 1
  BY Joined, Sizes DEF IsBuffer
<1>2. /\ f \in Bytes /\ Len(f) = BackupBuf + 1
      /\ \A j \in 1 .. BackupBuf + 1 :
           f[j] = IF j \in 0 + 1 .. 0 + Len(s) THEN s[j - 0] ELSE b[j]
  <2>1. 0 \in Nat /\ 0 + Len(s) <= BackupBuf + 1
    BY <1>1
  <2> QED
    BY <2>1, OverIs DEF IsBuffer
<1>3. /\ t \in Bytes /\ Len(t) = IF Len(s) + 1 <= Len(b) THEN Len(b) - (Len(s) + 1) + 1 ELSE 0
      /\ \A j \in 1 .. Len(t) : t[j] = b[(Len(s) + 1) + j - 1]
  BY <1>1, FromIs, SMTT(60) DEF Bytes
<1> HIDE DEF f, t
<1>4. /\ g \in Bytes /\ Len(g) = Len(s) + Len(t)
      /\ \A i \in 1 .. Len(s) : g[i] = s[i]
      /\ \A i \in 1 .. Len(t) : g[Len(s) + i] = t[i]
  BY <1>3, Joined
<1> HIDE DEF g
<1>5. Len(t) = BackupBuf + 1 - Len(s)
  BY <1>1, <1>3
<1>6. Len(g) = BackupBuf + 1
  BY <1>1, <1>4, <1>5
<1>7. ASSUME NEW j \in 1 .. BackupBuf + 1 PROVE f[j] = g[j]
  <2>1. CASE j <= Len(s)
    <3>1. j \in 0 + 1 .. 0 + Len(s) /\ j \in 1 .. Len(s) /\ j - 0 = j
      BY <1>1, <2>1
    <3> QED
      BY <1>2, <1>4, <3>1
  <2>2. CASE ~(j <= Len(s))
    <3>1. j \notin 0 + 1 .. 0 + Len(s) /\ j - Len(s) \in 1 .. Len(t)
          /\ Len(s) + (j - Len(s)) = j /\ (Len(s) + 1) + (j - Len(s)) - 1 = j
      BY <1>1, <1>5, <2>2
    <3>2. f[j] = b[j]
      BY <1>2, <3>1
    <3>3. g[j] = t[j - Len(s)] /\ t[j - Len(s)] = b[j]
      BY <1>3, <1>4, <3>1
    <3> QED
      BY <3>2, <3>3
  <2> QED
    BY <2>1, <2>2
<1>8. f = g
  BY <1>2, <1>4, <1>6, <1>7, SameBytes
<1> QED
  BY <1>8 DEF f, g, t

(* What is written behind a does not change it.                            *)
StartsWith(b, a) == a \in Bytes /\ \E z \in Bytes : b = a \o z

(* Writing behind it leaves what the buffer starts with.                   *)
LEMMA OverBehind ==
  ASSUME NEW b, IsBuffer(b), NEW s \in Bytes, NEW i \in Nat, i + Len(s) <= BackupBuf + 1,
         NEW a, StartsWith(b, a), Len(a) <= i
  PROVE  StartsWith(Backup!Over(b, i, s), a)
<1> DEFINE f == Backup!Over(b, i, s)
           d == Take(f, Len(a))
<1>1. /\ Len(a) \in Nat /\ Len(b) = BackupBuf + 1 /\ Len(a) <= Len(b) /\ a \in Bytes
      /\ \A j \in 1 .. Len(a) : b[j] = a[j]
  <2>1. PICK c \in Bytes : b = a \o c
    BY DEF StartsWith
  <2>2. /\ Len(a) \in Nat /\ Len(c) \in Nat /\ Len(a \o c) = Len(a) + Len(c)
        /\ a \in Bytes /\ \A j \in 1 .. Len(a) : (a \o c)[j] = a[j]
    BY Joined DEF StartsWith
  <2> QED
    BY <2>1, <2>2 DEF IsBuffer
<1>2. /\ f \in Bytes /\ Len(f) = BackupBuf + 1
      /\ \A j \in 1 .. BackupBuf + 1 : f[j] = IF j \in i + 1 .. i + Len(s) THEN s[j - i] ELSE b[j]
  BY OverIs DEF IsBuffer
<1> HIDE DEF f
<1>3. d \in Bytes /\ From(f, Len(a) + 1) \in Bytes /\ f = d \o From(f, Len(a) + 1)
      /\ Len(d) = Len(a)
  <2>1. /\ d \in Bytes /\ From(f, Len(a) + 1) \in Bytes /\ f = d \o From(f, Len(a) + 1)
        /\ Len(d) = IF Len(a) < Len(f) THEN Len(a) ELSE Len(f)
    BY <1>1, <1>2, Parted
  <2> QED
    BY <1>1, <1>2, <2>1
<1>4. d = a
  <2>1. \A j \in 1 .. Len(d) : d[j] = f[j]
    BY <1>1, <1>2, TakeIs DEF Bytes
  <2> HIDE DEF d
  <2>2. \A j \in 1 .. Len(d) : j \in 1 .. Len(a) /\ j \in 1 .. BackupBuf + 1
                               /\ j \notin i + 1 .. i + Len(s)
    BY <1>1, <1>3
  <2>3. \A j \in 1 .. Len(d) : d[j] = a[j]
    BY <1>1, <1>2, <2>1, <2>2
  <2> QED
    BY <1>1, <1>3, <2>3, SameBytes
<1>5. f = a \o From(f, Len(a) + 1)
  BY <1>3, <1>4
<1> QED
  BY <1>1, <1>3, <1>5 DEF f, StartsWith

(* The byte that ends a string.                                            *)
Ending == <<Zero>>

(* The zero that ends what was read.                                       *)
LEMMA EndingIs ==
  /\ Ending \in Bytes /\ Len(Ending) = 1 /\ Ending[1] = Zero /\ Ending # << >>
  /\ \A y \in Bytes : StartsOut(Ending \o y, Text)
<1>1. Ending \in Bytes /\ Len(Ending) = 1 /\ Ending[1] = Zero /\ Ending # << >>
  BY DEF Ending, Bytes, Zero
<1>2. \A y \in Bytes : (Ending \o y)[1] = Zero
  BY <1>1, First
<1> QED
  BY <1>1, <1>2 DEF StartsOut, Text

(* The string at aux is a run of bytes that are not zero.                  *)
LEMMA TextIs ==
  ASSUME NEW b, NEW i
  PROVE  Backup!TextFrom(b, i) = Take(From(b, i + 1), Run(From(b, i + 1), Text))
<1>1. Backup!TextFrom(b, i)
        = Backup!Take(Backup!From(b, i + 1), Backup!Run(Backup!From(b, i + 1), Int \ {Backup!Zero}))
  BY Zenon DEF Backup!TextFrom
<1>2. Int \ {Backup!Zero} = Text
  BY BackupScans, Zenon DEF Text
<1> QED
  BY <1>1, <1>2, BackupScans, Zenon

(* It has all of a text that is there ...                                  *)
LEMMA TextWhole ==
  ASSUME NEW b, NEW i, From(b, i + 1) \in Bytes, NEW a, StartsWith(From(b, i + 1), a), AllIn(a, Text)
  PROVE  StartsWith(Backup!TextFrom(b, i), a)
<1> SUFFICES ASSUME NEW s, s = From(b, i + 1) PROVE StartsWith(Take(s, Run(s, Text)), a)
  BY TextIs
<1>1. PICK c \in Bytes : s = a \o c
  BY DEF StartsWith
<1>2. a \in Bytes /\ s \in Bytes
  BY DEF StartsWith
<1>3. /\ Len(a) \in Nat /\ Len(c) \in Nat /\ Len(s) = Len(a) + Len(c)
      /\ \A j \in 1 .. Len(a) : s[j] = a[j]
  <2>1. /\ Len(a) \in Nat /\ Len(c) \in Nat /\ Len(a \o c) = Len(a) + Len(c)
        /\ \A j \in 1 .. Len(a) : (a \o c)[j] = a[j]
    BY <1>2, Joined
  <2> QED
    BY <1>1, <2>1
<1> SUFFICES ASSUME NEW d, d = Run(s, Text) PROVE StartsWith(Take(s, d), a)
  OBVIOUS
<1>4. d \in 0 .. Len(s) /\ (d = Len(s) \/ s[d + 1] \notin Text)
  BY <1>2, RunEnds DEF Bytes
<1>5. Len(a) <= d
  <2> SUFFICES ASSUME ~(Len(a) <= d) PROVE FALSE
    OBVIOUS
  <2>1. d + 1 \in 1 .. Len(a) /\ d # Len(s)
    BY <1>3, <1>4
  <2>2. s[d + 1] \in Text
    BY <1>3, <2>1 DEF AllIn
  <2> QED
    BY <1>4, <2>1, <2>2
<1>6. d \in Nat /\ d <= Len(s) /\ Len(s) \in Nat
  BY <1>3, <1>4
<1>7. /\ Take(s, d) \in Bytes /\ From(s, d + 1) \in Bytes /\ s = Take(s, d) \o From(s, d + 1)
      /\ Len(Take(s, d)) = IF d < Len(s) THEN d ELSE Len(s)
  BY <1>2, <1>6, Parted
<1>8. Len(Take(s, d)) = d
  BY <1>6, <1>7
<1>9. After(Take(s, d), From(s, d + 1), a, c)
  BY <1>1, <1>2, <1>5, <1>7, <1>8 DEF After
<1>10. Between(Take(s, d), a) \in Bytes /\ Take(s, d) = a \o Between(Take(s, d), a)
  BY <1>9, Split
<1> QED
  BY <1>2, <1>10 DEF StartsWith

(* ... and ends where a zero follows it.                                   *)
LEMMA TextPart ==
  ASSUME NEW b, NEW i, NEW a \in Bytes, NEW y \in Bytes,
         From(b, i + 1) = a \o (Ending \o y), AllIn(a, Text)
  PROVE  Backup!TextFrom(b, i) = a
<1> DEFINE e == Ending \o y
<1>1. e \in Bytes /\ StartsOut(e, Text)
  BY EndingIs, Joined
<1>2. From(b, i + 1) = a \o e
  OBVIOUS
<1> HIDE DEF e
<1>3. Run(a \o e, Text) = Len(a) /\ Take(a \o e, Len(a)) = a
  BY <1>1, RunOver, TakeOver
<1> QED
  BY <1>2, <1>3, TextIs

(* What was read into the buffer, and what was not.                        *)
LEMMA LoadedIs ==
  ASSUME NEW b, IsBuffer(b), NEW f \in Bytes
  PROVE  \E y \in Bytes :
           /\ Backup!Loaded(b, f) = << >> \o (Take(f, BackupBuf) \o (Ending \o y))
           /\ IsBuffer(Backup!Loaded(b, f))
           /\ y = << >> \/ From(f, BackupBuf + 1) = << >>
           /\ Take(f, BackupBuf) \in Bytes /\ From(f, BackupBuf + 1) \in Bytes
           /\ f = Take(f, BackupBuf) \o From(f, BackupBuf + 1)
<1> DEFINE a == Take(f, BackupBuf)
           s == a \o Ending
           y == From(b, Len(s) + 1)
<1>1. /\ a \in Bytes /\ From(f, BackupBuf + 1) \in Bytes /\ f = a \o From(f, BackupBuf + 1)
      /\ Len(a) = IF BackupBuf < Len(f) THEN BackupBuf ELSE Len(f)
      /\ Len(From(f, BackupBuf + 1)) = IF BackupBuf < Len(f) THEN Len(f) - BackupBuf ELSE 0
  BY Sizes, Parted
<1>2. Len(f) \in Nat /\ BackupBuf \in Nat
  BY Sizes DEF Bytes
<1> HIDE DEF a
<1>3. s \in Bytes /\ Len(s) = Len(a) + 1
  <2>1. s \in Bytes /\ Len(s) = Len(a) + Len(Ending)
    BY <1>1, EndingIs, Joined
  <2> QED
    BY <2>1, EndingIs
<1>4. Len(s) <= BackupBuf + 1 /\ Len(s) \in Nat
  BY <1>1, <1>2, <1>3
<1> HIDE DEF s
<1>5. Backup!Over(b, 0, s) = s \o y /\ IsBuffer(Backup!Over(b, 0, s))
  <2>1. 0 \in Nat /\ 0 + Len(s) <= BackupBuf + 1
    BY <1>4
  <2> QED
    BY <1>3, <1>4, <2>1, OverFront, OverIs
<1>6. y \in Bytes /\ Len(y) = (IF Len(s) < Len(b) THEN Len(b) - Len(s) ELSE 0)
      /\ Len(b) = BackupBuf + 1
  BY <1>4, Parted DEF IsBuffer
<1>7. y = << >> \/ From(f, BackupBuf + 1) = << >>
  <2>1. CASE BackupBuf < Len(f)
    <3>1. Len(y) = 0
      BY <1>1, <1>2, <1>3, <1>6, <2>1
    <3> QED
      BY <1>6, <3>1, Nothings
  <2>2. CASE ~(BackupBuf < Len(f))
    BY <1>1, <2>2, Nothings
  <2> QED
    BY <2>1, <2>2
<1> HIDE DEF y
<1>8. Backup!Loaded(b, f) = Backup!Over(b, 0, s)
  <2>1. Backup!Loaded(b, f) = Backup!Over(b, 0, Backup!Take(f, BackupBuf) \o <<Backup!Zero>>)
    BY Zenon DEF Backup!Loaded
  <2> QED
    BY <2>1, BackupScans, Zenon DEF s, a, Ending
<1>9. s \o y = << >> \o (a \o (Ending \o y))
  <2>1. s \o y = a \o (Ending \o y) /\ a \o (Ending \o y) \in Bytes
    <3>1. Ending \o y \in Bytes
      BY <1>6, EndingIs, Joined
    <3>2. (a \o Ending) \o y = a \o (Ending \o y)
      BY <1>1, <1>6, EndingIs, Associative
    <3>3. a \o (Ending \o y) \in Bytes
      BY <1>1, <3>1, Joined
    <3> QED
      BY <3>2, <3>3 DEF s
  <2> QED
    BY <2>1, Nothings
<1>10. Backup!Loaded(b, f) = << >> \o (a \o (Ending \o y)) /\ IsBuffer(Backup!Loaded(b, f))
  BY <1>5, <1>8, <1>9
<1> QED
  BY <1>1, <1>6, <1>7, <1>10 DEF a

-----------------------------------------------------------------------------
(* The backup.                                                             *)

(* The first n entries of es.                                              *)
SavedOf(es, n) ==
  [k \in {es[i].key : i \in 1 .. n} |-> es[CHOOSE i \in 1 .. n : es[i].key = k].value]

(* As the keys differ, each entry is found.                                *)
LEMMA SavedIs ==
  ASSUME NEW es, Backup!Distinct(es), Len(es) \in Nat, NEW n \in 0 .. Len(es)
  PROVE  \A j \in 1 .. n : SavedOf(es, n)[es[j].key] = es[j].value
<1> SUFFICES ASSUME NEW j \in 1 .. n PROVE SavedOf(es, n)[es[j].key] = es[j].value
  OBVIOUS
<1> DEFINE c == CHOOSE i \in 1 .. n : es[i].key = es[j].key
<1>1. c \in 1 .. n /\ es[c].key = es[j].key
  OBVIOUS
<1> HIDE DEF c
<1>2. c \in 1 .. Len(es) /\ j \in 1 .. Len(es)
  BY <1>1
<1>3. c = j
  BY <1>1, <1>2 DEF Backup!Distinct
<1>4. SavedOf(es, n)[es[j].key] = es[c].value
  BY DEF SavedOf, c
<1> QED
  BY <1>3, <1>4

(* No entries make an empty table.                                         *)
LEMMA SavedNone == \A es : SavedOf(es, 0) = Nothing
<1> SUFFICES ASSUME NEW es PROVE SavedOf(es, 0) = Nothing
  OBVIOUS
<1>1. {es[i].key : i \in 1 .. 0} = {}
  OBVIOUS
<1> QED
  BY <1>1 DEF SavedOf, Nothing

(* The next entry is a key that the table does not have yet.               *)
LEMMA SavedStep ==
  ASSUME NEW es, Backup!Distinct(es), Len(es) \in Nat, NEW n \in 0 .. Len(es) - 1
  PROVE  /\ es[n + 1].key \notin DOMAIN SavedOf(es, n)
         /\ Stored(SavedOf(es, n), es[n + 1].key, es[n + 1].value) = SavedOf(es, n + 1)
<1> DEFINE key == es[n + 1].key
           value == es[n + 1].value
           t == SavedOf(es, n)
           u == SavedOf(es, n + 1)
           v == Stored(t, key, value)
<1>1. DOMAIN t = {es[i].key : i \in 1 .. n} /\ DOMAIN u = {es[i].key : i \in 1 .. n + 1}
  BY DEF SavedOf
<1>2. n + 1 \in 1 .. Len(es) /\ \A i \in 1 .. n : i \in 1 .. Len(es) /\ i # n + 1
  OBVIOUS
<1>3. key \notin DOMAIN t
  BY <1>1, <1>2 DEF Backup!Distinct
<1>4. \A i \in 1 .. n + 1 : i \in 1 .. n \/ i = n + 1
  OBVIOUS
<1>5. DOMAIN u = DOMAIN t \cup {key}
  <2>1. \A i \in 1 .. n : i \in 1 .. n + 1
    OBVIOUS
  <2>2. n + 1 \in 1 .. n + 1
    OBVIOUS
  <2>3. ASSUME NEW k \in DOMAIN u PROVE k \in DOMAIN t \cup {key}
    BY <1>1, <1>4
  <2>4. ASSUME NEW k \in DOMAIN t \cup {key} PROVE k \in DOMAIN u
    BY <1>1, <2>1, <2>2
  <2> QED
    BY <2>3, <2>4
<1>6. (\A j \in 1 .. n : t[es[j].key] = es[j].value)
      /\ \A j \in 1 .. n + 1 : u[es[j].key] = es[j].value
  <2>1. n \in 0 .. Len(es) /\ n + 1 \in 0 .. Len(es)
    OBVIOUS
  <2> QED
    BY <2>1, SavedIs
<1>7. u[key] = value
  <2>1. n + 1 \in 1 .. n + 1
    OBVIOUS
  <2> QED
    BY <1>6, <2>1
<1>8. ASSUME NEW k \in DOMAIN t PROVE u[k] = t[k]
  <2>1. PICK j \in 1 .. n : k = es[j].key
    BY <1>1
  <2>2. j \in 1 .. n + 1
    OBVIOUS
  <2> QED
    BY <1>6, <2>1, <2>2
<1>9. v = [k \in DOMAIN t \cup {key} |-> IF k = key THEN value ELSE t[k]]
  BY DEF Stored
<1>10. u = [k \in DOMAIN u |-> u[k]]
  BY DEF SavedOf
<1> HIDE DEF t, u, v
<1>11. v = u
  BY <1>5, <1>7, <1>8, <1>9, <1>10
<1> QED
  BY <1>3, <1>11 DEF t, u, v

(* What the n-th entry and those behind it are in the file.                *)
LEMMA RestIs ==
  ASSUME NEW es \in Seq(Item)
  PROVE  /\ Len(es) \in Nat /\ Backup!Rest(es, Len(es)) = << >>
         /\ \A n \in 0 .. Len(es) : Backup!Rest(es, n) \in Bytes
         /\ \A n \in 0 .. Len(es) - 1 :
              /\ es[n + 1] \in Item
              /\ Backup!Rest(es, n)
                   = Header(es[n + 1].key, es[n + 1].size) \o (es[n + 1].value \o Backup!Rest(es, n + 1))
<1> DEFINE parts == [i \in 1 .. Len(es) |-> Pair(es[i])]
<1>1. Len(es) \in Nat /\ \A i \in 1 .. Len(es) : es[i] \in Item
  OBVIOUS
<1>2. Len(parts) = Len(es) /\ \A i \in 1 .. Len(es) : parts[i] = Pair(es[i])
  BY <1>1
<1>3. ASSUME NEW i \in 1 .. Len(es)
      PROVE  /\ Pair(es[i]) = Header(es[i].key, es[i].size) \o es[i].value
             /\ Header(es[i].key, es[i].size) \in Bytes /\ es[i].value \in Bytes
  <2>1. es[i].key \in Numeral /\ es[i].size \in Numeral /\ es[i].value \in Bytes
    BY <1>1 DEF Item, Bytes
  <2> QED
    BY <2>1, PairIs, HeaderIs, ZenonT(60)
<1>4. \A n : Backup!Rest(es, n) = Behind(parts)[n]
  BY BackupScans, Zenon DEF Backup!Rest
<1>5. \A i \in 1 .. Len(es) : parts[i] \in Bytes
  BY <1>2, <1>3, Joined
<1> HIDE DEF parts
<1>6. /\ Behind(parts)[Len(es)] = << >>
      /\ \A n \in 0 .. Len(es) - 1 : Behind(parts)[n] = parts[n + 1] \o Behind(parts)[n + 1]
      /\ \A n \in 0 .. Len(es) : Behind(parts)[n] \in Bytes
  BY <1>1, <1>2, <1>5, BehindIs
<1>7. ASSUME NEW n \in 0 .. Len(es) - 1
      PROVE  /\ es[n + 1] \in Item
             /\ Backup!Rest(es, n)
                  = Header(es[n + 1].key, es[n + 1].size) \o (es[n + 1].value \o Backup!Rest(es, n + 1))
  <2>1. n + 1 \in 1 .. Len(es) /\ n + 1 \in 0 .. Len(es)
    BY <1>1
  <2>2. Backup!Rest(es, n) = Pair(es[n + 1]) \o Backup!Rest(es, n + 1)
    BY <1>2, <1>4, <1>6, <2>1
  <2>3. Backup!Rest(es, n + 1) \in Bytes
    BY <1>4, <1>6, <2>1
  <2>4. (Header(es[n + 1].key, es[n + 1].size) \o es[n + 1].value) \o Backup!Rest(es, n + 1)
          = Header(es[n + 1].key, es[n + 1].size) \o (es[n + 1].value \o Backup!Rest(es, n + 1))
    BY <1>3, <2>1, <2>3, Associative
  <2> QED
    BY <1>1, <1>3, <2>1, <2>2, <2>4
<1> QED
  BY <1>1, <1>4, <1>6, <1>7

(* Where an entry starts if the one before it started at o, and, for the   *)
(* first m, where all of them do.                                          *)
NextOffset(es, n, o) ==
  LET end == o + Len(Backup!Pair(es[n])) IN IF end <= BackupBuf THEN end ELSE 0
Offsets(h, es, m) == h = [n \in 0 .. m |-> IF n = 0 THEN 0 ELSE NextOffset(es, n, h[n - 1])]

(* The offsets of one more entry are found from those of the first m ...   *)
LEMMA OffsetsExtends ==
  ASSUME NEW es, NEW m \in Nat, NEW h, Offsets(h, es, m)
  PROVE  Offsets([n \in 0 .. m + 1 |-> IF n = m + 1 THEN NextOffset(es, m + 1, h[m]) ELSE h[n]],
                 es, m + 1)
<1> DEFINE g == [n \in 0 .. m + 1 |-> IF n = m + 1 THEN NextOffset(es, m + 1, h[m]) ELSE h[n]]
<1>1. \A n \in 0 .. m : h[n] = IF n = 0 THEN 0 ELSE NextOffset(es, n, h[n - 1])
  <2> DEFINE f == [n \in 0 .. m |-> IF n = 0 THEN 0 ELSE NextOffset(es, n, h[n - 1])]
  <2>1. h = f
    BY DEF Offsets
  <2>2. \A n \in 0 .. m : f[n] = IF n = 0 THEN 0 ELSE NextOffset(es, n, h[n - 1])
    OBVIOUS
  <2> HIDE DEF f
  <2> QED
    BY <2>1, <2>2
<1>2. ASSUME NEW n \in 0 .. m + 1
      PROVE  g[n] = IF n = 0 THEN 0 ELSE NextOffset(es, n, g[n - 1])
  <2>1. CASE n = m + 1
    <3>1. g[n] = NextOffset(es, m + 1, h[m])
      BY <2>1
    <3>2. n # 0 /\ n - 1 = m
      BY <2>1
    <3>3. g[m] = h[m]
      OBVIOUS
    <3> HIDE DEF g
    <3> QED
      BY <2>1, <3>1, <3>2, <3>3
  <2>2. CASE n # m + 1
    <3>1. n \in 0 .. m /\ g[n] = h[n]
      BY <2>2
    <3>2. n # 0 => g[n - 1] = h[n - 1]
      BY <2>2
    <3> HIDE DEF g
    <3> QED
      BY <1>1, <3>1, <3>2
  <2> QED
    BY <2>1, <2>2
<1>3. g = [n \in 0 .. m + 1 |-> IF n = 0 THEN 0 ELSE NextOffset(es, n, g[n - 1])]
  <2>1. g = [n \in 0 .. m + 1 |-> g[n]]
    OBVIOUS
  <2> HIDE DEF g
  <2> QED
    BY <1>2, <2>1
<1> QED
  BY <1>3 DEF Offsets

(* ... and so for all.                                                     *)
LEMMA OffsetsExists ==
  ASSUME NEW es, NEW m \in Nat
  PROVE  \E h : Offsets(h, es, m)
<1> DEFINE T == {d \in Nat : ~ \E h : Offsets(h, es, d)}
<1> SUFFICES ASSUME T # {} PROVE FALSE
  OBVIOUS
<1>1. PICK d \in T : \A i \in T : d <= i
  <2>1. T \subseteq Nat
    OBVIOUS
  <2> HIDE DEF T
  <2> QED
    BY <2>1, LeastNatural
<1>2. CASE d = 0
  <2> DEFINE f == [n \in 0 .. 0 |-> 0]
  <2>1. f = [n \in 0 .. 0 |-> IF n = 0 THEN 0 ELSE NextOffset(es, n, f[n - 1])]
    <3>1. \A n \in 0 .. 0 : f[n] = 0 /\ n = 0
      OBVIOUS
    <3>2. f = [n \in 0 .. 0 |-> f[n]]
      OBVIOUS
    <3> HIDE DEF f
    <3> QED
      BY <3>1, <3>2
  <2> HIDE DEF f
  <2>2. \E h : Offsets(h, es, 0)
    BY <2>1 DEF Offsets
  <2> QED
    BY <1>1, <1>2, <2>2
<1>3. CASE d # 0
  <2>1. d - 1 \in Nat /\ ~(d <= d - 1) /\ (d - 1) + 1 = d
    BY <1>1, <1>3
  <2>2. d - 1 \notin T
    BY <1>1, <2>1
  <2>3. PICK h : Offsets(h, es, d - 1)
    BY <2>1, <2>2
  <2>4. \E g : Offsets(g, es, (d - 1) + 1)
    BY <2>1, <2>3, OffsetsExtends
  <2> QED
    BY <1>1, <2>1, <2>4
<1> QED
  BY <1>2, <1>3

(* Where the entries start.                                                *)
LEMMA OffsetIs ==
  ASSUME NEW es, Len(es) \in Nat
  PROVE  /\ Backup!Offset(es)[0] = 0
         /\ \A n \in 0 .. Len(es) - 1 :
              Backup!Offset(es)[n + 1] = NextOffset(es, n + 1, Backup!Offset(es)[n])
<1> DEFINE N == Len(es)
           h == Backup!Offset(es)
<1>1. Offsets(h, es, N)
  <2> DEFINE g == CHOOSE g : Offsets(g, es, N)
  <2>1. Offsets(g, es, N)
    BY OffsetsExists
  <2>2. h = g
    BY Zenon DEF Backup!Offset, Offsets, NextOffset
  <2> QED
    BY <2>1, <2>2
<1> HIDE DEF h
<1>2. \A n \in 0 .. N : h[n] = IF n = 0 THEN 0 ELSE NextOffset(es, n, h[n - 1])
  <2> DEFINE f == [n \in 0 .. N |-> IF n = 0 THEN 0 ELSE NextOffset(es, n, h[n - 1])]
  <2>1. h = f
    BY <1>1 DEF Offsets
  <2>2. \A n \in 0 .. N : f[n] = IF n = 0 THEN 0 ELSE NextOffset(es, n, h[n - 1])
    OBVIOUS
  <2> HIDE DEF f
  <2> QED
    BY <2>1, <2>2
<1>3. ASSUME NEW n \in 0 .. N - 1 PROVE h[n + 1] = NextOffset(es, n + 1, h[n])
  <2>1. n + 1 \in 0 .. N /\ n + 1 # 0 /\ (n + 1) - 1 = n
    OBVIOUS
  <2> QED
    BY <1>2, <2>1
<1>4. h[0] = 0
  <2>1. 0 \in 0 .. N
    OBVIOUS
  <2> QED
    BY <1>2, <2>1
<1> QED
  BY <1>3, <1>4 DEF h

(* The n entries before a could be read.                                   *)
Along(es, n, a) ==
  /\ n \in 0 .. Len(es) /\ a = Backup!Offset(es)[n]
  /\ \A m \in 0 .. n - 1 : Backup!Fits(es, m)

(* b is at the n-th entry behind x: it holds w of the file, r is the rest  *)
(* of it, and t is the table that the entries before make.                 *)
Holds(es, b, a, r, t, n, x, w, y) ==
  /\ Along(es, n, a)
  /\ n \in 0 .. Len(es) /\ x \in Bytes /\ w \in Bytes /\ y \in Bytes /\ r \in Bytes
  /\ b = x \o (w \o (Ending \o y)) /\ Len(b) = BackupBuf + 1 /\ a = Len(x)
  /\ w \o r = Backup!Rest(es, n)
  /\ t = SavedOf(es, n)
  /\ y = << >> \/ r = << >>

HoldsEntry(es, b, a, r, t) == \E n, x, w, y : Holds(es, b, a, r, t, n, x, w, y)

(* The buffer that is filled from an entry on is at that entry.            *)
LEMMA HoldsLoaded ==
  ASSUME NEW es \in Seq(Item), NEW b, IsBuffer(b), NEW n \in 0 .. Len(es), Along(es, n, 0)
  PROVE  /\ HoldsEntry(es, Backup!Loaded(b, Backup!Rest(es, n)), 0,
                       From(Backup!Rest(es, n), BackupBuf + 1), SavedOf(es, n))
         /\ IsBuffer(Backup!Loaded(b, Backup!Rest(es, n)))
<1> DEFINE f == Backup!Rest(es, n)
<1>1. f \in Bytes
  BY RestIs
<1> HIDE DEF f
<1>2. PICK y \in Bytes :
        /\ Backup!Loaded(b, f) = << >> \o (Take(f, BackupBuf) \o (Ending \o y))
        /\ IsBuffer(Backup!Loaded(b, f))
        /\ y = << >> \/ From(f, BackupBuf + 1) = << >>
        /\ Take(f, BackupBuf) \in Bytes /\ From(f, BackupBuf + 1) \in Bytes
        /\ f = Take(f, BackupBuf) \o From(f, BackupBuf + 1)
  BY <1>1, LoadedIs
<1>3. Holds(es, Backup!Loaded(b, f), 0, From(f, BackupBuf + 1), SavedOf(es, n), n,
            << >>, Take(f, BackupBuf), y)
  BY <1>2, Nothings DEF Holds, IsBuffer, f
<1>4. HoldsEntry(es, Backup!Loaded(b, f), 0, From(f, BackupBuf + 1), SavedOf(es, n))
  BY <1>3 DEF HoldsEntry
<1> QED
  BY <1>2, <1>4 DEF f

(* Where in the buffer the entries lie, and the zero behind them.          *)
LEMMA HoldsIs ==
  ASSUME NEW es, NEW b, NEW a, NEW r, NEW t, NEW n, NEW x, NEW w, NEW y,
         Holds(es, b, a, r, t, n, x, w, y)
  PROVE  /\ IsBuffer(b) /\ a \in Nat /\ a + Len(w) <= BackupBuf /\ Len(w) \in Nat
         /\ y = << >> => a + Len(w) = BackupBuf
         /\ From(b, a + 1) = w \o (Ending \o y) /\ w \o (Ending \o y) \in Bytes
         /\ b[a + Len(w) + 1] = Zero
         /\ SubSeq(b, a + 1, a + Len(w)) = w
<1>0. /\ x \in Bytes /\ w \in Bytes /\ y \in Bytes /\ b = x \o (w \o (Ending \o y))
      /\ Len(b) = BackupBuf + 1 /\ a = Len(x)
  BY DEF Holds
<1>1. BackupBuf \in Nat
  BY Sizes
<1> DEFINE e == Ending \o y
           v == w \o e
<1>2. e \in Bytes /\ Len(e) = 1 + Len(y) /\ Len(y) \in Nat /\ e[1] = Zero
  <2>1. e \in Bytes /\ Len(e) = Len(Ending) + Len(y) /\ Len(y) \in Nat
    BY <1>0, EndingIs, Joined
  <2>2. e[1] = Zero
    BY <1>0, EndingIs, First
  <2> QED
    BY <2>1, <2>2, EndingIs
<1> HIDE DEF e
<1>3. v \in Bytes /\ Len(v) = Len(w) + Len(e) /\ Len(w) \in Nat
      /\ \A i \in 1 .. Len(e) : v[Len(w) + i] = e[i]
  BY <1>0, <1>2, Joined
<1>4. SubSeq(x \o v, Len(x) + 1, Len(x) + Len(w)) = w
  BY <1>0, <1>2, Middle
<1> HIDE DEF v
<1>5. b = x \o v
  BY <1>0 DEF v, e
<1>6. x \o v \in Bytes /\ Len(x \o v) = Len(x) + Len(v) /\ Len(x) \in Nat
      /\ \A i \in 1 .. Len(v) : (x \o v)[Len(x) + i] = v[i]
  BY <1>0, <1>3, Joined
<1>7. From(x \o v, Len(x) + 1) = v
  BY <1>0, <1>3, FromOver
<1>8. a = Len(x) /\ Len(b) = BackupBuf + 1
  BY <1>0
<1>9. IsBuffer(b)
  BY <1>5, <1>6, <1>8 DEF IsBuffer
<1>10. a \in Nat /\ a + Len(w) + 1 + Len(y) = BackupBuf + 1
  BY <1>2, <1>3, <1>5, <1>6, <1>8
<1>11. y = << >> => Len(y) = 0
  BY Nothings
<1>12. b[a + Len(w) + 1] = Zero
  <2>1. Len(w) + 1 \in 1 .. Len(v) /\ 1 \in 1 .. Len(e) /\ Len(x) + (Len(w) + 1) = a + Len(w) + 1
    BY <1>2, <1>3, <1>6, <1>8
  <2>2. v[Len(w) + 1] = Zero
    BY <1>2, <1>3, <2>1
  <2>3. (x \o v)[Len(x) + (Len(w) + 1)] = v[Len(w) + 1]
    BY <1>6, <2>1
  <2> QED
    BY <1>5, <2>1, <2>2, <2>3
<1>13. SubSeq(b, a + 1, a + Len(w)) = w
  BY <1>4, <1>5, <1>8 DEF v
<1>14. From(b, a + 1) = v
  BY <1>5, <1>7, <1>8
<1>15. v = w \o (Ending \o y)
  BY DEF v, e
<1>16. a + Len(w) <= BackupBuf /\ (y = << >> => a + Len(w) = BackupBuf)
  BY <1>1, <1>2, <1>3, <1>10, <1>11
<1> QED
  BY <1>3, <1>9, <1>10, <1>12, <1>13, <1>14, <1>15, <1>16

(* To be at an entry means what the property says.                         *)
LEMMA HoldsAtEntry ==
  ASSUME HoldsEntry(saved, backup_buf, aux, backup_rest, table)
  PROVE  Backup!AtEntry
<1>1. PICK n, x, w, y : Holds(saved, backup_buf, aux, backup_rest, table, n, x, w, y)
  BY DEF HoldsEntry
<1> DEFINE m == aux + Len(w)
<1>2. /\ aux \in Nat /\ m <= BackupBuf /\ Len(w) \in Nat /\ (y = << >> => m = BackupBuf)
      /\ backup_buf[m + 1] = Zero /\ SubSeq(backup_buf, aux + 1, m) = w
  BY <1>1, HoldsIs
<1>3. m \in aux .. BackupBuf
  BY <1>2, Sizes
<1> HIDE DEF m
<1>4. /\ n \in 0 .. Len(saved) /\ table = Backup!Saved(n)
      /\ backup_buf[m + 1] = Backup!Zero /\ (m = BackupBuf \/ backup_rest = << >>)
      /\ SubSeq(backup_buf, aux + 1, m) \o backup_rest = Backup!Rest(saved, n)
  BY <1>1, <1>2, BackupScans DEF Holds, Backup!Saved, SavedOf
<1> QED
  BY <1>3, <1>4 DEF Backup!AtEntry

(* What a turn of create_hash_from_backup makes of the buffers and the     *)
(* table: it is at the next entry, and has taken something from the buffer *)
(* or from the file.                                                       *)
GoesOn(next) ==
  /\ next.status = "reading" /\ next.buf2 = buf2 /\ IsBuffer(next.buf)
  /\ HoldsEntry(saved, next.buf, next.aux, next.rest, next.table)
  /\ \/ Len(next.rest) < Len(backup_rest)
     \/ Len(next.rest) = Len(backup_rest) /\ next.aux > aux

(* A value that is in the buffer whole ...                                 *)
LEMMA ReadWithin ==
  ASSUME NEW key, NEW size, NEW i, BackupBuf - i >= size
  PROVE  Backup!ReadValue(key, size, i)
           = Backup!State(backup_buf, buf2, i + size, backup_rest,
                          Backup!Inserted(key, SubSeq(backup_buf, i + 1, i + size)), "reading")
  BY DEF Backup!ReadValue

(* ... and one that is not.                                                *)
LEMMA ReadBeyond ==
  ASSUME NEW key, NEW size, NEW i, ~(BackupBuf - i >= size),
         NEW k, k = size - (BackupBuf - i), NEW r, r = From(backup_rest, k + 1)
  PROVE  Backup!ReadValue(key, size, i)
           = Backup!State(Backup!Loaded(backup_buf, r), buf2, 0, From(r, BackupBuf + 1),
               Backup!Inserted(key, SubSeq(backup_buf, i + 1, BackupBuf)
                                      \o Memory(Take(backup_rest, k), k)), "reading")
  BY BackupScans DEF Backup!ReadValue

(* Without overwrite, the next entry is added all the same: its key is new.*)
LEMMA InsertsNext ==
  ASSUME saved \in Seq(Item), Backup!Distinct(saved), NEW n \in 0 .. Len(saved) - 1,
         table = SavedOf(saved, n)
  PROVE  Backup!Inserted(saved[n + 1].key, saved[n + 1].value) = SavedOf(saved, n + 1)
<1>1. Len(saved) \in Nat
  OBVIOUS
<1>2. /\ saved[n + 1].key \notin DOMAIN SavedOf(saved, n)
      /\ Stored(SavedOf(saved, n), saved[n + 1].key, saved[n + 1].value) = SavedOf(saved, n + 1)
  BY <1>1, SavedStep
<1> QED
  BY <1>2, BackupScans, Zenon DEF Backup!Inserted

(* aux is at the n-th entry, whose header h is followed by z.              *)
AtValue(n, key, value, h, x, z, y, i) ==
  /\ saved \in Seq(Item) /\ Backup!Distinct(saved) /\ n \in 0 .. Len(saved) - 1
  /\ key = saved[n + 1].key /\ value = saved[n + 1].value
  /\ h \in Bytes /\ h # << >> /\ z \in Bytes
  /\ Holds(saved, backup_buf, aux, backup_rest, table, n, x, h \o z, y)
  /\ z \o backup_rest = value \o Backup!Rest(saved, n + 1)
  /\ i = aux + Len(h)
  /\ Along(saved, n + 1, IF i + Len(value) <= BackupBuf THEN i + Len(value) ELSE 0)

(* What is known when a header was scanned.                                *)
LEMMA ValueIs ==
  ASSUME NEW n, NEW key, NEW value, NEW h, NEW x, NEW z, NEW y, NEW i,
         AtValue(n, key, value, h, x, z, y, i)
  PROVE  /\ saved \in Seq(Item) /\ Len(saved) \in Nat /\ n + 1 \in 0 .. Len(saved)
         /\ value \in Bytes /\ Len(value) \in Nat /\ Backup!Rest(saved, n + 1) \in Bytes
         /\ IsBuffer(backup_buf) /\ aux \in Nat /\ aux + Len(h) + Len(z) <= BackupBuf
         /\ y = << >> => aux + Len(h) + Len(z) = BackupBuf
         /\ Len(h) \in Nat \ {0} /\ Len(z) \in Nat
         /\ Backup!Inserted(key, value) = SavedOf(saved, n + 1)
<1>0. /\ saved \in Seq(Item) /\ Backup!Distinct(saved) /\ n \in 0 .. Len(saved) - 1
      /\ key = saved[n + 1].key /\ value = saved[n + 1].value
      /\ h \in Bytes /\ h # << >> /\ z \in Bytes
      /\ Holds(saved, backup_buf, aux, backup_rest, table, n, x, h \o z, y)
  BY DEF AtValue
<1>1. /\ Len(saved) \in Nat /\ n + 1 \in 0 .. Len(saved) /\ value \in Bytes
      /\ Backup!Rest(saved, n + 1) \in Bytes
  <2>1. n + 1 \in 0 .. Len(saved) /\ saved[n + 1] \in Item /\ Len(saved) \in Nat
    BY <1>0, RestIs
  <2> QED
    BY <1>0, <2>1, RestIs DEF Item, Bytes
<1>2. /\ IsBuffer(backup_buf) /\ aux \in Nat /\ aux + Len(h \o z) <= BackupBuf
      /\ y = << >> => aux + Len(h \o z) = BackupBuf
      /\ Len(h \o z) = Len(h) + Len(z) /\ Len(h) \in Nat \ {0} /\ Len(z) \in Nat
      /\ Len(value) \in Nat
  <2>1. Len(h \o z) = Len(h) + Len(z) /\ Len(h) \in Nat /\ Len(z) \in Nat
    BY <1>0, Joined
  <2>2. /\ IsBuffer(backup_buf) /\ aux \in Nat /\ aux + Len(h \o z) <= BackupBuf
        /\ y = << >> => aux + Len(h \o z) = BackupBuf
    <3> SUFFICES ASSUME NEW w, Holds(saved, backup_buf, aux, backup_rest, table, n, x, w, y)
                 PROVE  /\ IsBuffer(backup_buf) /\ aux \in Nat /\ aux + Len(w) <= BackupBuf
                        /\ y = << >> => aux + Len(w) = BackupBuf
      BY <1>0
    <3> QED
      BY HoldsIs
  <2>3. Len(h) # 0
    BY <1>0, Nothings
  <2>4. Len(value) \in Nat
    BY <1>1 DEF Bytes
  <2> QED
    BY <2>1, <2>2, <2>3, <2>4
<1>3. table = SavedOf(saved, n)
  BY <1>0 DEF Holds
<1>4. Backup!Inserted(key, value) = SavedOf(saved, n + 1)
  BY <1>0, <1>3, InsertsNext
<1>5. aux + Len(h) + Len(z) <= BackupBuf /\ (y = << >> => aux + Len(h) + Len(z) = BackupBuf)
  BY <1>2
<1> QED
  BY <1>0, <1>1, <1>2, <1>4, <1>5

(* A value that lies in the buffer ...                                     *)
LEMMA ReadsWithin ==
  ASSUME NEW n, NEW key, NEW value, NEW h, NEW x, NEW z, NEW y, NEW i,
         AtValue(n, key, value, h, x, z, y, i), BackupBuf - i >= Len(value)
  PROVE  GoesOn(Backup!ReadValue(key, Len(value), i))
<1>0. /\ saved \in Seq(Item) /\ n \in 0 .. Len(saved) - 1 /\ h \in Bytes /\ z \in Bytes
      /\ Holds(saved, backup_buf, aux, backup_rest, table, n, x, h \o z, y)
  BY DEF AtValue
<1>a. z \o backup_rest = value \o Backup!Rest(saved, n + 1)
  BY DEF AtValue
<1>b. i = aux + Len(h)
  BY DEF AtValue
<1>1. /\ Len(saved) \in Nat /\ n + 1 \in 0 .. Len(saved) /\ value \in Bytes
      /\ Backup!Rest(saved, n + 1) \in Bytes /\ Backup!Inserted(key, value) = SavedOf(saved, n + 1)
  BY ValueIs
<1>2. /\ IsBuffer(backup_buf) /\ aux \in Nat /\ aux + Len(h) + Len(z) <= BackupBuf
      /\ y = << >> => aux + Len(h) + Len(z) = BackupBuf
      /\ Len(h) \in Nat \ {0} /\ Len(z) \in Nat /\ Len(value) \in Nat
  BY ValueIs
<1>3. /\ x \in Bytes /\ y \in Bytes /\ backup_rest \in Bytes /\ table = SavedOf(saved, n)
      /\ backup_buf = x \o ((h \o z) \o (Ending \o y)) /\ Len(backup_buf) = BackupBuf + 1
      /\ aux = Len(x) /\ (y = << >> \/ backup_rest = << >>)
  BY <1>0 DEF Holds
<1>4. Len(value) <= Len(z)
  <2>1. CASE y = << >>
    BY <1>2, <1>b, <2>1, Sizes
  <2>2. CASE backup_rest = << >>
    <3>1. z = value \o Backup!Rest(saved, n + 1)
      BY <1>0, <1>a, <2>2, Nothings
    <3>2. Len(value \o Backup!Rest(saved, n + 1)) = Len(value) + Len(Backup!Rest(saved, n + 1))
          /\ Len(Backup!Rest(saved, n + 1)) \in Nat
      BY <1>1, Joined
    <3> QED
      BY <1>2, <3>1, <3>2
  <2> QED
    BY <1>3, <2>1, <2>2
<1> DEFINE u == Between(z, value)
<1>5. u \in Bytes /\ z = value \o u /\ Backup!Rest(saved, n + 1) = u \o backup_rest
  <2>1. After(z, backup_rest, value, Backup!Rest(saved, n + 1))
    BY <1>0, <1>a, <1>1, <1>3, <1>4 DEF After
  <2> QED
    BY <2>1, Split
<1> HIDE DEF u
<1> DEFINE e == Ending \o y
           b == x \o h
           c == b \o value
<1>6. e \in Bytes /\ b \in Bytes /\ c \in Bytes /\ Len(b) = i /\ Len(c) = i + Len(value)
  <2>1. e \in Bytes
    BY <1>3, EndingIs, Joined
  <2>2. b \in Bytes /\ Len(b) = Len(x) + Len(h)
    BY <1>0, <1>3, Joined
  <2> HIDE DEF b
  <2>3. c \in Bytes /\ Len(c) = Len(b) + Len(value)
    BY <1>1, <2>2, Joined
  <2> QED
    BY <1>3, <1>b, <2>1, <2>2, <2>3
<1>7. backup_buf = b \o (value \o (u \o e)) /\ backup_buf = c \o (u \o e)
  <2>1. u \o e \in Bytes /\ value \o (u \o e) \in Bytes /\ value \o u \in Bytes
    BY <1>1, <1>5, <1>6, Joined
  <2>2. (h \o z) \o e = h \o (value \o (u \o e))
    <3>1. (h \o z) \o e = h \o (z \o e)
      BY <1>0, <1>6, Associative
    <3>2. z \o e = value \o (u \o e)
      <4> HIDE DEF e
      <4>1. (value \o u) \o e = value \o (u \o e)
        BY <1>1, <1>5, <1>6, Associative
      <4> QED
        BY <1>5, <4>1
    <3> QED
      BY <3>1, <3>2
  <2>3. x \o (h \o (value \o (u \o e))) = b \o (value \o (u \o e))
    <3> SUFFICES ASSUME NEW v \in Bytes PROVE x \o (h \o v) = (x \o h) \o v
      BY <2>1
    <3> QED
      BY <1>0, <1>3, Associative, ZenonT(60)
  <2> HIDE DEF b
  <2>4. b \o (value \o (u \o e)) = c \o (u \o e)
    <3> SUFFICES ASSUME NEW v \in Bytes PROVE b \o (value \o v) = (b \o value) \o v
      BY <2>1
    <3> QED
      BY <1>1, <1>6, Associative, ZenonT(60)
  <2> QED
    BY <1>3, <2>2, <2>3, <2>4
<1>8. SubSeq(backup_buf, i + 1, i + Len(value)) = value
  <2>1. u \o e \in Bytes
    BY <1>5, <1>6, Joined
  <2>2. SubSeq(b \o (value \o (u \o e)), Len(b) + 1, Len(b) + Len(value)) = value
    BY <1>1, <1>6, <2>1, Middle
  <2> QED
    BY <1>6, <1>7, <2>2
<1> DEFINE next == Backup!ReadValue(key, Len(value), i)
<1>9. next = Backup!State(backup_buf, buf2, i + Len(value), backup_rest, SavedOf(saved, n + 1),
                          "reading")
  <2>1. next = Backup!State(backup_buf, buf2, i + Len(value), backup_rest,
                 Backup!Inserted(key, SubSeq(backup_buf, i + 1, i + Len(value))), "reading")
    BY ReadWithin
  <2> QED
    BY <1>1, <1>8, <2>1
<1>9a. Along(saved, n + 1, i + Len(value))
  <2>1. i + Len(value) <= BackupBuf
    BY <1>2, <1>b, Sizes
  <2>2. Along(saved, n + 1, IF i + Len(value) <= BackupBuf THEN i + Len(value) ELSE 0)
    BY DEF AtValue
  <2> QED
    BY <2>1, <2>2, Zenon
<1>10. Holds(saved, backup_buf, i + Len(value), backup_rest, SavedOf(saved, n + 1), n + 1, c, u, y)
  BY <1>1, <1>3, <1>5, <1>6, <1>7, <1>9a DEF Holds
<1>11. HoldsEntry(saved, backup_buf, i + Len(value), backup_rest, SavedOf(saved, n + 1))
  BY <1>10 DEF HoldsEntry
<1>12. i + Len(value) > aux
  BY <1>2, <1>b
<1> HIDE DEF next
<1>13. /\ next.status = "reading" /\ next.buf2 = buf2 /\ next.buf = backup_buf
       /\ next.aux = i + Len(value) /\ next.rest = backup_rest /\ next.table = SavedOf(saved, n + 1)
  BY <1>9 DEF Backup!State
<1>14. GoesOn(next)
  BY <1>2, <1>11, <1>12, <1>13 DEF GoesOn
<1> QED
  BY <1>14 DEF next

(* ... and one that goes on in the file.                                   *)
LEMMA ReadsBeyond ==
  ASSUME NEW n, NEW key, NEW value, NEW h, NEW x, NEW z, NEW y, NEW i,
         AtValue(n, key, value, h, x, z, y, i), ~(BackupBuf - i >= Len(value))
  PROVE  GoesOn(Backup!ReadValue(key, Len(value), i))
<1> DEFINE f == Backup!Rest(saved, n + 1)
<1>0. /\ h \in Bytes /\ z \in Bytes
      /\ Holds(saved, backup_buf, aux, backup_rest, table, n, x, h \o z, y)
  BY DEF AtValue
<1>a. z \o backup_rest = value \o f
  BY DEF AtValue
<1>b. i = aux + Len(h)
  BY DEF AtValue
<1>1. /\ saved \in Seq(Item) /\ Len(saved) \in Nat /\ n + 1 \in 0 .. Len(saved) /\ value \in Bytes
      /\ f \in Bytes /\ Backup!Inserted(key, value) = SavedOf(saved, n + 1)
  BY ValueIs
<1> HIDE DEF f
<1>2. /\ IsBuffer(backup_buf) /\ aux \in Nat /\ aux + Len(h) + Len(z) <= BackupBuf
      /\ y = << >> => aux + Len(h) + Len(z) = BackupBuf
      /\ Len(h) \in Nat \ {0} /\ Len(z) \in Nat /\ Len(value) \in Nat
  BY ValueIs
<1>3. /\ x \in Bytes /\ y \in Bytes /\ backup_rest \in Bytes
      /\ backup_buf = x \o ((h \o z) \o (Ending \o y)) /\ Len(backup_buf) = BackupBuf + 1
      /\ aux = Len(x) /\ (y = << >> \/ backup_rest = << >>)
  BY <1>0 DEF Holds
<1>4. Len(z) < Len(value)
  BY <1>2, <1>b, Sizes
<1>5. Len(z) = BackupBuf - i
  <2>1. backup_rest # << >>
    <3> SUFFICES ASSUME backup_rest = << >> PROVE FALSE
      OBVIOUS
    <3>1. z = value \o f
      BY <1>0, <1>a, Nothings
    <3>2. Len(value \o f) = Len(value) + Len(f) /\ Len(f) \in Nat
      BY <1>1, Joined
    <3> QED
      BY <1>2, <1>4, <3>1, <3>2
  <2> QED
    BY <1>2, <1>3, <1>b, <2>1, Sizes
<1> DEFINE v == Between(value, z)
           k == Len(value) - (BackupBuf - i)
<1>6. v \in Bytes /\ Len(v) = Len(value) - Len(z) /\ value = z \o v /\ backup_rest = v \o f
  <2>1. After(value, f, z, backup_rest)
    BY <1>0, <1>a, <1>1, <1>2, <1>3, <1>4 DEF After
  <2> QED
    BY <2>1, Split
<1>7. k = Len(v) /\ k \in Nat /\ k > 0
  BY <1>2, <1>4, <1>5, <1>6
<1> HIDE DEF v, k
<1>8. Take(backup_rest, k) = v /\ From(backup_rest, k + 1) = f /\ Memory(v, k) = v
  <2>1. Take(v \o f, Len(v)) = v /\ From(v \o f, Len(v) + 1) = f
    BY <1>1, <1>6, TakeOver, FromOver
  <2>2. Memory(v \o << >>, Len(v)) = v
    BY <1>6, Nothings, MemoryOver
  <2>3. v \o << >> = v
    BY <1>6, Nothings
  <2> QED
    BY <1>6, <1>7, <2>1, <2>2, <2>3
<1>9. SubSeq(backup_buf, i + 1, BackupBuf) = z
  <2> DEFINE e == Ending \o y
             b == x \o h
  <2>1. e \in Bytes /\ z \o e \in Bytes
    BY <1>0, <1>3, EndingIs, Joined
  <2>2. b \in Bytes /\ Len(b) = Len(x) + Len(h)
    BY <1>0, <1>3, Joined
  <2>3. backup_buf = x \o ((h \o z) \o e)
    BY <1>3
  <2> HIDE DEF e
  <2>4. (h \o z) \o e = h \o (z \o e)
    BY <1>0, <2>1, Associative
  <2>5. x \o (h \o (z \o e)) = b \o (z \o e)
    <3> SUFFICES ASSUME NEW w \in Bytes PROVE x \o (h \o w) = (x \o h) \o w
      BY <2>1
    <3> QED
      BY <1>0, <1>3, Associative, SMTT(60)
  <2> HIDE DEF b
  <2>6. backup_buf = b \o (z \o e)
    BY <2>3, <2>4, <2>5
  <2>7. SubSeq(b \o (z \o e), Len(b) + 1, Len(b) + Len(z)) = z
    BY <1>0, <2>1, <2>2, Middle
  <2>8. Len(b) = i /\ Len(b) + Len(z) = BackupBuf
    BY <1>2, <1>3, <1>5, <1>b, <2>2, Sizes
  <2> QED
    BY <2>6, <2>7, <2>8
<1> DEFINE next == Backup!ReadValue(key, Len(value), i)
<1>10. next = Backup!State(Backup!Loaded(backup_buf, f), buf2, 0, From(f, BackupBuf + 1),
                           SavedOf(saved, n + 1), "reading")
  <2>1. next = Backup!State(Backup!Loaded(backup_buf, f), buf2, 0, From(f, BackupBuf + 1),
                 Backup!Inserted(key, SubSeq(backup_buf, i + 1, BackupBuf)
                                        \o Memory(Take(backup_rest, k), k)), "reading")
    BY <1>8, ReadBeyond DEF k
  <2>2. SubSeq(backup_buf, i + 1, BackupBuf) \o Memory(Take(backup_rest, k), k) = value
    BY <1>6, <1>8, <1>9
  <2> HIDE DEF next
  <2> QED
    BY <1>1, <2>1, <2>2
<1> HIDE DEF next
<1>10a. Along(saved, n + 1, 0)
  <2>1. ~(i + Len(value) <= BackupBuf)
    BY <1>2, <1>b, Sizes
  <2>2. Along(saved, n + 1, IF i + Len(value) <= BackupBuf THEN i + Len(value) ELSE 0)
    BY DEF AtValue
  <2> QED
    BY <2>1, <2>2, Zenon
<1>11. /\ HoldsEntry(saved, Backup!Loaded(backup_buf, f), 0, From(f, BackupBuf + 1),
                     SavedOf(saved, n + 1))
       /\ IsBuffer(Backup!Loaded(backup_buf, f))
  BY <1>1, <1>2, <1>10a, HoldsLoaded DEF f
<1>12. Len(From(f, BackupBuf + 1)) < Len(backup_rest)
  <2>1. Len(From(f, BackupBuf + 1)) = (IF BackupBuf < Len(f) THEN Len(f) - BackupBuf ELSE 0)
    BY <1>1, Parted, Sizes
  <2>2. Len(v \o f) = Len(v) + Len(f) /\ Len(f) \in Nat
    BY <1>1, <1>6, Joined
  <2> QED
    BY <1>6, <1>7, <2>1, <2>2, Sizes
<1>13. /\ next.status = "reading" /\ next.buf2 = buf2
       /\ next.buf = Backup!Loaded(backup_buf, f) /\ next.aux = 0
       /\ next.rest = From(f, BackupBuf + 1) /\ next.table = SavedOf(saved, n + 1)
  BY <1>10 DEF Backup!State
<1>14. GoesOn(next)
  BY <1>11, <1>12, <1>13 DEF GoesOn
<1> QED
  BY <1>14 DEF next

(* An entry as it is saved.                                                *)
HeaderOf(e) == Header(e.key, e.size)

(* What is known of an entry.                                              *)
LEMMA EntryIs ==
  ASSUME saved \in Seq(Entries)
  PROVE  /\ saved \in Seq(Item) /\ Len(saved) \in Nat
         /\ \A n \in 0 .. Len(saved) - 1 :
              LET h == HeaderOf(saved[n + 1]) IN
              /\ saved[n + 1].key \in Numeral /\ saved[n + 1].size \in Numeral
              /\ saved[n + 1].value \in Bytes
              /\ Number(saved[n + 1].size) = Len(saved[n + 1].value)
              /\ h \in Bytes /\ Len(h) \in Nat \ {0} /\ h # << >> /\ AllIn(h, Text)
              /\ 2 * Len(h) <= BackupBuf
<1>1. /\ Entries \subseteq Item
      /\ \A e \in Entries : Sized(e) /\ 2 * (Len(e.key) + Len(e.size) + 2) <= BackupBuf
  BY RecoveryAssumption
<1>2. Len(saved) \in Nat /\ \A i \in 1 .. Len(saved) : saved[i] \in Entries
  OBVIOUS
<1>3. saved \in Seq(Item)
  BY <1>1, <1>2
<1>4. ASSUME NEW n \in 0 .. Len(saved) - 1
      PROVE  LET h == HeaderOf(saved[n + 1]) IN
             /\ saved[n + 1].key \in Numeral /\ saved[n + 1].size \in Numeral
             /\ saved[n + 1].value \in Bytes
             /\ Number(saved[n + 1].size) = Len(saved[n + 1].value)
             /\ h \in Bytes /\ Len(h) \in Nat \ {0} /\ h # << >> /\ AllIn(h, Text)
             /\ 2 * Len(h) <= BackupBuf
  <2>1. n + 1 \in 1 .. Len(saved)
    BY <1>2
  <2> SUFFICES ASSUME NEW e, e = saved[n + 1], e \in Entries
               PROVE  LET h == HeaderOf(e) IN
                      /\ e.key \in Numeral /\ e.size \in Numeral
                      /\ e.value \in Bytes
                      /\ Number(e.size) = Len(e.value)
                      /\ h \in Bytes /\ Len(h) \in Nat \ {0} /\ h # << >> /\ AllIn(h, Text)
                      /\ 2 * Len(h) <= BackupBuf
    BY <1>2, <2>1
  <2>2. e.key \in Numeral /\ e.size \in Numeral /\ e.value \in Bytes
    BY <1>1 DEF Item, Bytes
  <2>3. Number(e.size) = Len(e.value) /\ 2 * (Len(e.key) + Len(e.size) + 2) <= BackupBuf
    BY <1>1 DEF Sized
  <2> DEFINE h == HeaderOf(e)
  <2>4. h \in Bytes /\ Len(h) = Len(e.key) + Len(e.size) + 2 /\ Len(e.key) \in Nat /\ Len(e.size) \in Nat
        /\ AllIn(h, Text)
    BY <2>2, HeaderIs, HeaderText DEF HeaderOf
  <2> HIDE DEF h
  <2>5. Len(h) \in Nat \ {0} /\ 2 * Len(h) <= BackupBuf
    <3> SUFFICES ASSUME NEW k \in Nat, NEW l \in Nat, Len(h) = k + l + 2,
                        2 * (k + l + 2) <= BackupBuf
                 PROVE  Len(h) \in Nat \ {0} /\ 2 * Len(h) <= BackupBuf
      BY <2>3, <2>4
    <3> QED
      OBVIOUS
  <2>6. h # << >>
    BY <2>5, Nothings
  <2> QED
    BY <2>2, <2>3, <2>4, <2>5, <2>6 DEF h
<1> QED
  BY <1>2, <1>3, <1>4

(* The length of an entry, its header, and whether that fits.              *)
LEMMA EntryLength ==
  ASSUME saved \in Seq(Entries), NEW n \in 0 .. Len(saved) - 1, NEW a \in Nat,
         Along(saved, n, a)
  PROVE  /\ Len(HeaderOf(saved[n + 1])) \in Nat /\ Len(saved[n + 1].value) \in Nat
         /\ Len(Backup!Pair(saved[n + 1]))
              = Len(HeaderOf(saved[n + 1])) + Len(saved[n + 1].value)
         /\ Backup!Fits(saved, n) <=> a + Len(HeaderOf(saved[n + 1])) <= BackupBuf
<1> DEFINE e == saved[n + 1]
           h == HeaderOf(e)
<1>1. /\ e.key \in Numeral /\ e.size \in Numeral /\ e.value \in Bytes
      /\ h \in Bytes /\ Len(h) \in Nat
  BY EntryIs
<1>2. Pair(e) = h \o e.value
  BY <1>1, PairIs, ZenonT(60) DEF HeaderOf
<1>3. Len(h \o e.value) = Len(h) + Len(e.value) /\ Len(e.value) \in Nat
  BY <1>1, Joined
<1>4. Backup!Pair(e) = Pair(e)
  BY BackupScans
<1> HIDE DEF h
<1>5. Len(Backup!Pair(e)) = Len(h) + Len(e.value)
  BY <1>2, <1>3, <1>4
<1>6. Backup!Offset(saved)[n] = a
  BY DEF Along
<1>7. Backup!Fits(saved, n) <=> a + Len(Backup!Pair(e)) - Len(e.value) <= BackupBuf
  BY <1>6, Zenon DEF Backup!Fits
<1>8. a + Len(Backup!Pair(e)) - Len(e.value) = a + Len(h)
  BY <1>1, <1>3, <1>5
<1> QED
  BY <1>1, <1>3, <1>5, <1>7, <1>8 DEF h

(* After an entry that fits, one is at the next.                           *)
LEMMA AlongNext ==
  ASSUME saved \in Seq(Entries), NEW n \in 0 .. Len(saved) - 1, NEW a \in Nat,
         Along(saved, n, a), NEW i, i = a + Len(HeaderOf(saved[n + 1])), i <= BackupBuf,
         NEW value, value = saved[n + 1].value
  PROVE  Along(saved, n + 1, IF i + Len(value) <= BackupBuf THEN i + Len(value) ELSE 0)
<1> DEFINE h == HeaderOf(saved[n + 1])
           l == Len(Backup!Pair(saved[n + 1]))
<1>1. /\ Len(h) \in Nat /\ Len(value) \in Nat /\ l = Len(h) + Len(value)
      /\ Backup!Fits(saved, n)
  BY EntryLength
<1>2. Len(saved) \in Nat
  OBVIOUS
<1>3. Backup!Offset(saved)[n + 1] = NextOffset(saved, n + 1, a)
  BY <1>2, OffsetIs DEF Along
<1>4. NextOffset(saved, n + 1, a) = IF a + l <= BackupBuf THEN a + l ELSE 0
  BY DEF NextOffset
<1> HIDE DEF l
<1>5. a + l = i + Len(value)
  <2>1. i = a + Len(h)
    OBVIOUS
  <2> DEFINE m == Len(h)
             k == Len(value)
  <2>2. m \in Nat /\ k \in Nat /\ l = m + k /\ i = a + m
    BY <1>1, <2>1, Zenon
  <2> HIDE DEF h, m, k
  <2>3. a + l = i + k
    BY <2>2
  <2> QED
    BY <2>3 DEF k
<1> HIDE DEF h
<1>6. n + 1 \in 0 .. Len(saved) /\ \A m \in 0 .. (n + 1) - 1 : m \in 0 .. n - 1 \/ m = n
  BY <1>2
<1>7. \A m \in 0 .. (n + 1) - 1 : Backup!Fits(saved, m)
  BY <1>1, <1>6, Zenon DEF Along
<1> QED
  BY <1>3, <1>4, <1>5, <1>6, <1>7 DEF Along

(* An entry that does not fit is the first that is not read.               *)
LEMMA ReachedIs ==
  ASSUME saved \in Seq(Entries), NEW n \in 0 .. Len(saved), NEW a \in Nat, Along(saved, n, a),
         n < Len(saved) => a + Len(HeaderOf(saved[n + 1])) > BackupBuf
  PROVE  Backup!Reached = n
<1> DEFINE S == {m \in 0 .. Len(saved) : m < Len(saved) => ~Backup!Fits(saved, m)}
<1>1. Len(saved) \in Nat
  OBVIOUS
<1>2. n < Len(saved) => ~Backup!Fits(saved, n)
  <2> SUFFICES ASSUME n < Len(saved) PROVE ~Backup!Fits(saved, n)
    OBVIOUS
  <2>1. n \in 0 .. Len(saved) - 1
    BY <1>1
  <2>2. /\ Backup!Fits(saved, n) <=> a + Len(HeaderOf(saved[n + 1])) <= BackupBuf
        /\ Len(HeaderOf(saved[n + 1])) \in Nat
    BY <2>1, EntryLength
  <2> QED
    BY <2>2, Sizes
<1>3. n \in S
  BY <1>2
<1>4. \A m \in S : n <= m
  <2> SUFFICES ASSUME NEW m \in S, ~(n <= m) PROVE FALSE
    OBVIOUS
  <2>1. m \in 0 .. n - 1 /\ m < Len(saved)
    BY <1>1
  <2> QED
    BY <2>1, Zenon DEF Along
<1>5. S \subseteq Int /\ n \in Int
  BY <1>1
<1>6. Backup!Reached = CHOOSE x \in S : \A y \in S : x <= y
  BY Zenon DEF Backup!Reached, Backup!Min
<1> HIDE DEF S
<1> DEFINE c == CHOOSE x \in S : \A y \in S : x <= y
<1>7. c \in S /\ \A y \in S : c <= y
  BY <1>3, <1>4
<1> HIDE DEF c
<1>8. c = n
  <2>1. c \in Int /\ c <= n /\ n <= c
    BY <1>3, <1>4, <1>5, <1>7
  <2> QED
    BY <1>5, <2>1
<1> QED
  BY <1>6, <1>8 DEF c

(* The header of the next entry lies in the buffer: its value is read.     *)
AtHeader(n, h) == n \in 0 .. Len(saved) - 1 /\ h = HeaderOf(saved[n + 1])

(* A turn that finds a whole header in the buffer reads the entry.         *)
LEMMA TurnReads ==
  ASSUME saved \in Seq(Entries), Backup!Distinct(saved),
         NEW n, NEW x, NEW w, NEW y, Holds(saved, backup_buf, aux, backup_rest, table, n, x, w, y),
         NEW h, AtHeader(n, h), Len(h) <= Len(w)
  PROVE  GoesOn(Backup!Turn)
<1> DEFINE key == saved[n + 1].key
           size == saved[n + 1].size
           value == saved[n + 1].value
           f == Backup!Rest(saved, n + 1)
           text == Backup!TextFrom(backup_buf, aux)
           i == aux + Len(h)
<1>0. n \in 0 .. Len(saved) - 1 /\ h = Header(key, size)
  BY DEF AtHeader, HeaderOf
<1>1. /\ saved \in Seq(Item) /\ Len(saved) \in Nat /\ key \in Numeral /\ size \in Numeral
      /\ value \in Bytes /\ Number(size) = Len(value) /\ h \in Bytes /\ Len(h) \in Nat
      /\ h # << >> /\ AllIn(h, Text)
  BY <1>0, EntryIs DEF AtHeader
<1>2. w \in Bytes /\ y \in Bytes /\ backup_rest \in Bytes /\ w \o backup_rest = Backup!Rest(saved, n)
  BY DEF Holds
<1>3. Backup!Rest(saved, n) = h \o (value \o f) /\ f \in Bytes /\ value \o f \in Bytes
  <2>1. n + 1 \in 0 .. Len(saved)
    BY <1>0, <1>1
  <2>2. Backup!Rest(saved, n) = h \o (value \o f) /\ f \in Bytes
    BY <1>0, <1>1, <2>1, RestIs
  <2> QED
    BY <1>1, <2>2, Joined
<1>4. IsBuffer(backup_buf) /\ From(backup_buf, aux + 1) = w \o (Ending \o y)
  BY HoldsIs
<1> HIDE DEF f
<1> DEFINE z == Between(w, h)
<1>5. z \in Bytes /\ w = h \o z /\ z \o backup_rest = value \o f
  <2> DEFINE g == value \o f
  <2>1. After(w, backup_rest, h, g)
    BY <1>1, <1>2, <1>3 DEF After
  <2> HIDE DEF g
  <2>2. z \in Bytes /\ w = h \o z /\ g = z \o backup_rest
    BY <2>1, Split
  <2> QED
    BY <2>2 DEF g
<1> HIDE DEF z
<1>5a. Along(saved, n + 1, IF i + Len(value) <= BackupBuf THEN i + Len(value) ELSE 0)
  <2>1. aux \in Nat /\ aux + Len(w) <= BackupBuf /\ Len(w) \in Nat
    BY HoldsIs
  <2>2. i <= BackupBuf
    BY <1>1, <2>1, Sizes
  <2>3. Along(saved, n, aux)
    BY DEF Holds
  <2>4. i = aux + Len(HeaderOf(saved[n + 1]))
    BY DEF AtHeader
  <2> HIDE DEF i
  <2> QED
    BY <1>0, <2>1, <2>2, <2>3, <2>4, AlongNext
<1>6. AtValue(n, key, value, h, x, z, y, i)
  BY <1>0, <1>1, <1>5, <1>5a DEF AtValue, f
<1>7. StartsWith(From(backup_buf, aux + 1), h) /\ From(backup_buf, aux + 1) \in Bytes
  <2>1. Ending \o y \in Bytes
    BY <1>2, EndingIs, Joined
  <2>2. z \o (Ending \o y) \in Bytes /\ w \o (Ending \o y) \in Bytes
    BY <1>2, <1>5, <2>1, Joined
  <2>3. w \o (Ending \o y) = h \o (z \o (Ending \o y))
    BY <1>1, <1>5, <2>1, Associative
  <2> QED
    BY <1>1, <1>4, <2>2, <2>3 DEF StartsWith
<1>8. StartsWith(text, h)
  BY <1>1, <1>7, TextWhole
<1>9. PICK q \in Bytes : text = h \o q
  BY <1>8 DEF StartsWith
<1>10. HasHeader(text, key, size)
  BY <1>0, <1>1, <1>9, ScanWhole
<1> HIDE DEF text
<1>11. /\ ScanPair(text).ok /\ ScanPair(text).space = Blank /\ ScanPair(text).key = key
       /\ ScanPair(text).size = Len(value) /\ ScanPair(text).length = Len(h)
  BY <1>0, <1>1, <1>10 DEF HasHeader
<1>12. Backup!ScanPair(text) = ScanPair(text) /\ Backup!Blank = Blank
  BY BackupScans
<1>13. Backup!Turn = Backup!ReadValue(key, Len(value), i)
  BY <1>11, <1>12, Zenon DEF Backup!Turn, text
<1>14. GoesOn(Backup!ReadValue(key, Len(value), i))
  <2>1. CASE BackupBuf - i >= Len(value)
    BY <1>6, <2>1, ReadsWithin
  <2>2. CASE ~(BackupBuf - i >= Len(value))
    BY <1>6, <2>2, ReadsBeyond
  <2> QED
    BY <2>1, <2>2
<1> QED
  BY <1>13, <1>14

(* A text that is not scanned, and what it is a part of.                   *)
Unread(w) ==
  /\ w \in Bytes /\ AllIn(w, Text) /\ ~ScanPair(w).ok
  /\ 2 * Len(w) <= BackupBuf

(* Nothing at all cannot be scanned.                                       *)
LEMMA UnreadNothing == Unread(<< >>)
<1> DEFINE k == <<0>>
<1>1. k \in Numeral
  BY DEF Numeral, Digit
<1>2. Header(k, k) \in Bytes /\ Len(Header(k, k)) = Len(k) + Len(k) + 2 /\ Len(k) \in Nat
  BY <1>1, HeaderIs
<1> HIDE DEF k
<1>3. Header(k, k) # << >>
  BY <1>2, Nothings
<1>4. << >> \in Bytes /\ << >> \o Header(k, k) = Header(k, k)
  BY <1>2, Nothings
<1>5. ~ScanPair(<< >>).ok
  BY <1>1, <1>2, <1>3, <1>4, ScanPart
<1>6. Len(<< >>) = 0 /\ 2 * 0 <= BackupBuf
  BY Nothings, Sizes
<1> QED
  BY <1>4, <1>5, <1>6 DEF Unread, AllIn

(* The header of the next entry does not lie in the buffer, or there is no *)
(* next entry.                                                             *)
LEMMA TurnStuck ==
  ASSUME saved \in Seq(Entries),
         NEW n, NEW x, NEW w, NEW y, Holds(saved, backup_buf, aux, backup_rest, table, n, x, w, y),
         n = Len(saved) \/ Len(HeaderOf(saved[n + 1])) > Len(w)
  PROVE  /\ Unread(w) /\ Backup!TextFrom(backup_buf, aux) = w
         /\ n = Len(saved) => backup_rest = << >>
         /\ n # Len(saved) => backup_rest # << >> /\ 2 * Len(w) < BackupBuf
<1>1. /\ w \in Bytes /\ y \in Bytes /\ backup_rest \in Bytes /\ w \o backup_rest = Backup!Rest(saved, n)
      /\ n \in 0 .. Len(saved)
  BY DEF Holds
<1>2. saved \in Seq(Item) /\ Len(saved) \in Nat
  BY EntryIs
<1>3. From(backup_buf, aux + 1) = w \o (Ending \o y)
  BY HoldsIs
<1>4. CASE n = Len(saved)
  <2>1. w \o backup_rest = << >>
    BY <1>1, <1>2, <1>4, RestIs
  <2>2. /\ Len(w \o backup_rest) = Len(w) + Len(backup_rest)
        /\ Len(w) \in Nat /\ Len(backup_rest) \in Nat
    BY <1>1, Joined
  <2>3. Len(w) = 0 /\ Len(backup_rest) = 0
    BY <2>1, <2>2, Nothings
  <2>4. w = << >> /\ backup_rest = << >>
    BY <1>1, <2>3, Nothings
  <2>5. Unread(w)
    BY <2>4, UnreadNothing
  <2>6. Backup!TextFrom(backup_buf, aux) = w
    BY <1>1, <1>3, <2>5, TextPart DEF Unread
  <2> QED
    BY <1>4, <2>4, <2>5, <2>6
<1>5. CASE n # Len(saved)
  <2> DEFINE e == saved[n + 1]
             h == HeaderOf(e)
             g == e.value \o Backup!Rest(saved, n + 1)
             v == Between(h, w)
  <2>1. n \in 0 .. Len(saved) - 1 /\ n + 1 \in 0 .. Len(saved)
    BY <1>1, <1>2, <1>5
  <2>2. /\ e.key \in Numeral /\ e.size \in Numeral /\ e.value \in Bytes
        /\ h \in Bytes /\ Len(h) \in Nat /\ AllIn(h, Text) /\ 2 * Len(h) <= BackupBuf
    BY <2>1, EntryIs
  <2>3. h \o g = w \o backup_rest /\ g \in Bytes
    <3>1. Backup!Rest(saved, n) = h \o g /\ Backup!Rest(saved, n + 1) \in Bytes
      BY <1>2, <2>1, RestIs DEF HeaderOf
    <3> QED
      BY <1>1, <2>2, <3>1, Joined
  <2>4. Len(w) < Len(h) /\ Len(w) \in Nat
    BY <1>1, <1>5, <2>2, Joined
  <2>5. h = Header(e.key, e.size)
    BY DEF HeaderOf
  <2> HIDE DEF e, h, g
  <2>6. v \in Bytes /\ Len(v) = Len(h) - Len(w) /\ h = w \o v /\ backup_rest = v \o g
    <3>1. After(h, g, w, backup_rest)
      BY <1>1, <2>2, <2>3, <2>4 DEF After
    <3> QED
      BY <3>1, Split
  <2> HIDE DEF v
  <2>7. v # << >>
    BY <2>2, <2>4, <2>6, Nothings
  <2>8. backup_rest # << >>
    BY <2>3, <2>6, <2>7, First
  <2>9. AllIn(w, Text)
    BY <1>1, <2>2, <2>6, PartIn
  <2>10. ~ScanPair(w).ok
    BY <1>1, <2>2, <2>5, <2>6, <2>7, ScanPart
  <2>11. 2 * Len(w) < BackupBuf
    BY <2>2, <2>4, Sizes
  <2>12. Unread(w)
    BY <1>1, <2>9, <2>10, <2>11, <2>4, Sizes DEF Unread
  <2>13. Backup!TextFrom(backup_buf, aux) = w
    BY <1>1, <1>3, <2>9, TextPart
  <2> QED
    BY <1>5, <2>8, <2>11, <2>12, <2>13
<1> QED
  BY <1>4, <1>5

(* The loops end ...                                                       *)
Stops(next) ==
  /\ next.status = "done" /\ next.buf2 = buf2 /\ next.rest = backup_rest /\ next.table = table

(* ... or what is at the front of the other buffer cannot be scanned.      *)
CannotScan(b) == ~ScanPair(Backup!TextFrom(b, 0)).ok

Carries(next) ==
  /\ next.status = "reading" /\ next.buf2 = backup_buf /\ next.aux = 0 /\ next.table = table
  /\ CannotScan(next.buf) /\ Len(next.rest) < Len(backup_rest)

(* The end of the loops.                                                   *)
LEMMA StopIs == Stops(Backup!Stop)
  BY DEF Stops, Backup!Stop, Backup!State

(* A turn that scans no header carries over, ...                           *)
LEMMA TurnOver ==
  ASSUME ~ScanPair(Backup!TextFrom(backup_buf, aux)).ok
  PROVE  Backup!Turn = Backup!CarryOver
<1> DEFINE text == Backup!TextFrom(backup_buf, aux)
<1>1. ~Backup!ScanPair(text).ok
  BY BackupScans
<1> QED
  BY <1>1, Zenon DEF Backup!Turn, text

(* ... which is the end if there is nothing to carry or to read ...        *)
LEMMA CarryNothing ==
  ASSUME aux = 0 \/ Len(Take(backup_rest, BackupBuf - aux)) = 0
  PROVE  Backup!CarryOver = Backup!Stop
  BY BackupScans, Zenon DEF Backup!CarryOver

(* ... or fills the other buffer.                                          *)
LEMMA CarrySome ==
  ASSUME aux # 0, NEW k, k = Len(Take(backup_rest, BackupBuf - aux)), k # 0
  PROVE  Backup!CarryOver
           = Backup!State(Backup!Over(Backup!Over(Backup!Over(buf2, 0,
                                                              Memory(From(backup_buf, aux + 1), aux)),
                                                  aux, Take(backup_rest, k)),
                                      BackupBuf, Ending),
                          backup_buf, 0, From(backup_rest, k + 1), table, "reading")
<1>1. /\ Backup!Memory(Backup!From(backup_buf, aux + 1), aux) = Memory(From(backup_buf, aux + 1), aux)
      /\ k = Len(Backup!Take(backup_rest, BackupBuf - aux))
      /\ Backup!Take(backup_rest, k) = Take(backup_rest, k)
      /\ Backup!From(backup_rest, k + 1) = From(backup_rest, k + 1)
      /\ <<Backup!Zero>> = Ending
  BY BackupScans, Zenon DEF Ending
<1>2. ~(aux = 0 \/ Len(Backup!Take(backup_rest, BackupBuf - aux)) = 0)
  BY <1>1
<1> QED
  BY <1>1, <1>2, Zenon DEF Backup!CarryOver

(* What is carried over begins with the part of the header again.          *)
LEMMA CarriesUnread ==
  ASSUME IsBuffer(buf2), NEW b, IsBuffer(b), NEW w, Unread(w),
         NEW i \in Nat, Len(w) < i, i <= BackupBuf,
         From(b, i + 1) = w \o (Ending \o << >>), NEW s \in Bytes, i + Len(s) <= BackupBuf
  PROVE  CannotScan(Backup!Over(Backup!Over(Backup!Over(buf2, 0, Memory(From(b, i + 1), i)), i, s),
                                BackupBuf, Ending))
<1> DEFINE a == w \o Ending
           m == Memory(a, i)
           b1 == Backup!Over(buf2, 0, m)
           b2 == Backup!Over(b1, i, s)
           b3 == Backup!Over(b2, BackupBuf, Ending)
<1>1. w \in Bytes /\ AllIn(w, Text) /\ ~ScanPair(w).ok
  BY DEF Unread
<1>2. a \in Bytes /\ Len(a) = Len(w) + 1 /\ Len(w) \in Nat
  <2>1. a \in Bytes /\ Len(a) = Len(w) + Len(Ending) /\ Len(w) \in Nat
    BY <1>1, EndingIs, Joined
  <2> QED
    BY <2>1, EndingIs
<1>3. From(b, i + 1) = a
  BY EndingIs, Nothings
<1> HIDE DEF a
<1>4. Len(a) <= i
  BY <1>2
<1>5. m \in Bytes /\ Len(m) = i /\ \E z \in Bytes : m = a \o z
  BY <1>2, <1>4, MemoryIs, MemoryMore
<1> HIDE DEF m
<1>6. IsBuffer(b1) /\ StartsWith(b1, a)
  <2>1. 0 \in Nat /\ 0 + Len(m) <= BackupBuf + 1 /\ Len(m) <= BackupBuf + 1
    BY <1>5, Sizes
  <2>2. IsBuffer(b1)
    BY <1>5, <2>1, OverIs
  <2>3. b1 = m \o From(buf2, Len(m) + 1)
    BY <1>5, <2>1, OverFront
  <2>4. From(buf2, Len(m) + 1) \in Bytes
    BY <1>5, Parted DEF IsBuffer
  <2> DEFINE q == From(buf2, Len(m) + 1)
  <2> HIDE DEF q, b1
  <2>5. PICK z \in Bytes : m = a \o z
    BY <1>5
  <2>6. (a \o z) \o q = a \o (z \o q) /\ z \o q \in Bytes
    <3>1. q \in Bytes /\ a \in Bytes
      BY <1>2, <2>4 DEF q
    <3>2. z \o q \in Bytes
      BY <3>1, Joined
    <3> QED
      BY <3>1, <3>2, Associative
  <2>7. b1 = a \o (z \o q)
    BY <2>3, <2>5, <2>6 DEF q
  <2> QED
    BY <1>2, <2>2, <2>6, <2>7 DEF StartsWith, b1
<1> HIDE DEF b1
<1>7. IsBuffer(b2) /\ StartsWith(b2, a)
  <2>1. i + Len(s) <= BackupBuf + 1
    BY Sizes DEF Bytes
  <2> QED
    BY <1>4, <1>6, <2>1, OverIs, OverBehind
<1> HIDE DEF b2
<1>8. IsBuffer(b3) /\ StartsWith(b3, a)
  <2>1. BackupBuf \in Nat /\ BackupBuf + Len(Ending) <= BackupBuf + 1 /\ Len(a) <= BackupBuf
        /\ Ending \in Bytes
    BY <1>2, EndingIs, Sizes
  <2> QED
    BY <1>7, <2>1, OverIs, OverBehind
<1> HIDE DEF b3
<1>9. CannotScan(b3)
  <2>1. PICK z \in Bytes : b3 = a \o z
    BY <1>8 DEF StartsWith
  <2>2. (w \o Ending) \o z = w \o (Ending \o z)
    BY <1>1, EndingIs, Associative
  <2>3. From(<< >> \o b3, Len(<< >>) + 1) = b3
    BY <1>8, Nothings, FromOver DEF IsBuffer
  <2>4. From(b3, 0 + 1) = b3
    BY <1>8, <2>3, Nothings DEF IsBuffer
  <2>5. From(b3, 0 + 1) = w \o (Ending \o z)
    BY <2>1, <2>2, <2>4 DEF a
  <2>6. Backup!TextFrom(b3, 0) = w
    BY <1>1, <2>5, TextPart
  <2> QED
    BY <1>1, <2>6 DEF CannotScan
<1> QED
  BY <1>3, <1>9 DEF b3, b2, b1, m

(* The table is what create_hash_from_backup makes of the backup.          *)
HasReached == Backup!Reached \in 0 .. Len(saved) /\ table = SavedOf(saved, Backup!Reached)

(* One turn of create_hash_from_backup.                                    *)
LEMMA TurnIs ==
  ASSUME saved \in Seq(Entries), Backup!Distinct(saved), IsBuffer(buf2),
         HoldsEntry(saved, backup_buf, aux, backup_rest, table)
  PROVE  \/ GoesOn(Backup!Turn)
         \/ Stops(Backup!Turn) /\ HasReached
         \/ /\ Carries(Backup!Turn) /\ HasReached
            /\ \E j \in 1 .. BackupBuf + 1 : backup_buf[j] = Zero
<1>1. PICK n, x, w, y : Holds(saved, backup_buf, aux, backup_rest, table, n, x, w, y)
  BY DEF HoldsEntry
<1>2. /\ n \in 0 .. Len(saved) /\ w \in Bytes /\ backup_rest \in Bytes /\ table = SavedOf(saved, n)
      /\ y = << >> \/ backup_rest = << >>
  BY <1>1 DEF Holds
<1>3. /\ IsBuffer(backup_buf) /\ aux \in Nat /\ aux + Len(w) <= BackupBuf /\ Len(w) \in Nat
      /\ y = << >> => aux + Len(w) = BackupBuf
      /\ From(backup_buf, aux + 1) = w \o (Ending \o y) /\ backup_buf[aux + Len(w) + 1] = Zero
  BY <1>1, HoldsIs
<1>4. CASE ~(n = Len(saved) \/ Len(HeaderOf(saved[n + 1])) > Len(w))
  <2> DEFINE h == HeaderOf(saved[n + 1])
  <2>1. n \in 0 .. Len(saved) - 1 /\ Len(h) \in Nat
    <3>1. n \in 0 .. Len(saved) - 1
      BY <1>2, <1>4, EntryIs
    <3> QED
      BY <3>1, EntryIs
  <2>2. AtHeader(n, h)
    BY <2>1 DEF AtHeader
  <2>3. Len(h) <= Len(w)
    BY <1>3, <1>4, <2>1
  <2> HIDE DEF h
  <2> QED
    BY <1>1, <2>2, <2>3, TurnReads
<1>5. CASE n = Len(saved) \/ Len(HeaderOf(saved[n + 1])) > Len(w)
  <2>1. /\ Unread(w) /\ Backup!TextFrom(backup_buf, aux) = w
        /\ n = Len(saved) => backup_rest = << >>
        /\ n # Len(saved) => backup_rest # << >> /\ 2 * Len(w) < BackupBuf
    BY <1>1, <1>5, TurnStuck
  <2>1a. HasReached
    <3>1. Along(saved, n, aux)
      BY <1>1 DEF Holds
    <3>2. n < Len(saved) => aux + Len(HeaderOf(saved[n + 1])) > BackupBuf
      <4> SUFFICES ASSUME n < Len(saved) PROVE aux + Len(HeaderOf(saved[n + 1])) > BackupBuf
        OBVIOUS
      <4>1. Len(saved) \in Nat /\ n # Len(saved) /\ n \in 0 .. Len(saved) - 1
        BY <1>2, EntryIs
      <4>2. aux + Len(w) = BackupBuf
        BY <1>2, <1>3, <2>1, <4>1
      <4>3. Len(HeaderOf(saved[n + 1])) > Len(w) /\ Len(HeaderOf(saved[n + 1])) \in Nat
        <5>1. Len(HeaderOf(saved[n + 1])) \in Nat
          BY <4>1, EntryIs
        <5> QED
          BY <1>5, <4>1, <5>1
      <4> QED
        BY <1>3, <4>2, <4>3
    <3>3. Backup!Reached = n
      BY <1>2, <1>3, <3>1, <3>2, ReachedIs
    <3> QED
      BY <1>2, <3>3 DEF HasReached
  <2>2. Backup!Turn = Backup!CarryOver
    BY <2>1, TurnOver DEF Unread
  <2> DEFINE k == Len(Take(backup_rest, BackupBuf - aux))
  <2>3. CASE aux = 0 \/ k = 0
    <3>1. Stops(Backup!Turn)
      BY <2>2, <2>3, CarryNothing, StopIs
    <3> QED
      BY <2>1a, <3>1
  <2>4. CASE ~(aux = 0 \/ k = 0)
    <3>1. BackupBuf - aux \in Nat
      BY <1>3, Sizes
    <3>2. k = (IF BackupBuf - aux < Len(backup_rest) THEN BackupBuf - aux ELSE Len(backup_rest))
          /\ Len(backup_rest) \in Nat
      <4>1. Len(backup_rest) \in Nat
        BY <1>2 DEF Bytes
      <4> QED
        BY <1>2, <3>1, <4>1, Parted
    <3> HIDE DEF k
    <3>3. k \in Nat /\ k > 0 /\ k <= BackupBuf - aux /\ k <= Len(backup_rest)
      BY <2>4, <3>1, <3>2
    <3>4. /\ Take(backup_rest, k) \in Bytes /\ Len(Take(backup_rest, k)) = k
          /\ Len(From(backup_rest, k + 1)) < Len(backup_rest)
      <4>1. /\ Take(backup_rest, k) \in Bytes
            /\ Len(Take(backup_rest, k)) = (IF k < Len(backup_rest) THEN k ELSE Len(backup_rest))
            /\ Len(From(backup_rest, k + 1))
                 = (IF k < Len(backup_rest) THEN Len(backup_rest) - k ELSE 0)
        BY <1>2, <3>3, Parted
      <4> QED
        BY <3>2, <3>3, <4>1
    <3>5. y = << >> /\ Len(w) < aux
      <4>1. backup_rest # << >>
        BY <3>2, <3>3, Nothings
      <4> QED
        BY <1>2, <1>3, <2>1, <4>1, Sizes
    <3> DEFINE s == Take(backup_rest, k)
               b == Backup!Over(Backup!Over(Backup!Over(buf2, 0, Memory(From(backup_buf, aux + 1), aux)),
                                            aux, s), BackupBuf, Ending)
               next == Backup!CarryOver
    <3>6. next = Backup!State(b, backup_buf, 0, From(backup_rest, k + 1), table, "reading")
      BY <2>4, <3>3, CarrySome DEF k
    <3>7. CannotScan(b)
      <4>1. aux + Len(s) <= BackupBuf /\ s \in Bytes /\ aux <= BackupBuf
        BY <1>3, <3>1, <3>3, <3>4, Sizes
      <4>2. From(backup_buf, aux + 1) = w \o (Ending \o << >>)
        BY <1>3, <3>5
      <4> HIDE DEF s
      <4> QED
        BY <1>3, <2>1, <3>5, <4>1, <4>2, CarriesUnread
    <3> HIDE DEF b, next
    <3>8. Carries(next)
      BY <3>4, <3>6, <3>7 DEF Carries, Backup!State
    <3>9. aux + Len(w) + 1 \in 1 .. BackupBuf + 1
      BY <1>3, Sizes
    <3> QED
      BY <1>2, <1>3, <2>1a, <2>2, <3>8, <3>9 DEF next
  <2> QED
    BY <2>3, <2>4
<1> QED
  BY <1>4, <1>5

(* After something was carried over there is only one turn left.           *)
LEMMA CarriedTurn ==
  ASSUME aux = 0, CannotScan(backup_buf)
  PROVE  Stops(Backup!Turn)
  BY TurnOver, CarryNothing, StopIs DEF CannotScan

-----------------------------------------------------------------------------
(* What records make of a table.                                           *)

(* The greatest of a set.                                                  *)
LEMMA MaxIs ==
  ASSUME NEW S \in SUBSET Int, NEW m \in S, \A i \in S : m >= i
  PROVE  Max(S) = m
<1>1. Max(S) \in S /\ \A i \in S : Max(S) >= i
  BY DEF Max
<1>2. Max(S) \in Int /\ m \in Int /\ m >= Max(S) /\ Max(S) >= m
  BY <1>1
<1> HIDE DEF Max
<1> QED
  BY <1>2

NamedOf(rs, n) == {rs[i].key : i \in 1 .. n}
LastOf(rs, k, n) == Max({i \in 1 .. n : rs[i].key = k})
ReplayedOf(rs, t, n) ==
  [k \in {k \in DOMAIN t \cup NamedOf(rs, n) :
            k \in NamedOf(rs, n) => rs[LastOf(rs, k, n)].type = "I"} |->
     IF k \in NamedOf(rs, n) THEN rs[LastOf(rs, k, n)].value ELSE t[k]]

(* What the property says of the table, with the records as a parameter.   *)
LEMMA ReplayedIs == \A t, n : Log!Replayed(t, n) = ReplayedOf(records, t, n)
<1>1. \A n : Log!Named(n) = NamedOf(records, n)
  BY Zenon DEF Log!Named, NamedOf
<1>2. \A S : Log!Max(S) = Max(S)
  BY Zenon DEF Log!Max, Max
<1>3. \A k, n : Log!Last(k, n) = LastOf(records, k, n)
  BY <1>2, Zenon DEF Log!Last, LastOf
<1> QED
  BY <1>1, <1>3, Zenon DEF Log!Replayed, ReplayedOf

(* The last record of a key, when there is one record more.                *)
LEMMA LastIs ==
  ASSUME NEW rs, NEW n \in Nat, NEW key, key = rs[n + 1].key
  PROVE  /\ NamedOf(rs, n + 1) = NamedOf(rs, n) \cup {key}
         /\ LastOf(rs, key, n + 1) = n + 1
         /\ \A k : k # key => LastOf(rs, k, n + 1) = LastOf(rs, k, n)
<1>1. 1 .. n + 1 = 1 .. n \cup {n + 1}
  OBVIOUS
<1>2. NamedOf(rs, n + 1) = NamedOf(rs, n) \cup {key}
  BY <1>1 DEF NamedOf
<1>3. LastOf(rs, key, n + 1) = n + 1
  <2> DEFINE S == {i \in 1 .. n + 1 : rs[i].key = key}
  <2>1. S \in SUBSET Int /\ n + 1 \in S /\ \A i \in S : n + 1 >= i
    OBVIOUS
  <2> HIDE DEF S
  <2>2. Max(S) = n + 1
    BY <2>1, MaxIs
  <2> QED
    BY <2>2 DEF LastOf, S
<1>4. ASSUME NEW k, k # key PROVE LastOf(rs, k, n + 1) = LastOf(rs, k, n)
  <2>1. {i \in 1 .. n + 1 : rs[i].key = k} = {i \in 1 .. n : rs[i].key = k}
    BY <1>1, <1>4
  <2> QED
    BY <2>1, Zenon DEF LastOf
<1> QED
  BY <1>2, <1>3, <1>4

(* No record changes nothing, and each one what insert_item, which         *)
(* overwrites, and delete_item make of it.                                 *)
LEMMA ReplayedNone ==
  ASSUME NEW t, t = [k \in DOMAIN t |-> t[k]], NEW rs
  PROVE  ReplayedOf(rs, t, 0) = t
<1>1. NamedOf(rs, 0) = {}
  BY DEF NamedOf
<1> QED
  BY <1>1 DEF ReplayedOf

Applied(t, r) == IF r.type = "I" THEN Stored(t, r.key, r.value) ELSE Without(t, r.key)

(* What n + 1 records make is what n make, and then the next.              *)
LEMMA ReplayedStep ==
  ASSUME NEW t, NEW rs, NEW n \in Nat
  PROVE  ReplayedOf(rs, t, n + 1) = Applied(ReplayedOf(rs, t, n), rs[n + 1])
<1> DEFINE r == rs[n + 1]
           T == ReplayedOf(rs, t, n)
           U == ReplayedOf(rs, t, n + 1)
           N == NamedOf(rs, n)
           M == NamedOf(rs, n + 1)
           V(k) == rs[LastOf(rs, k, n)]
           W(k) == rs[LastOf(rs, k, n + 1)]
<1>1. /\ M = N \cup {r.key} /\ W(r.key) = r
      /\ \A k : k # r.key => W(k) = V(k)
  <2> SUFFICES ASSUME NEW key, key = r.key
               PROVE  /\ M = N \cup {key} /\ W(key) = r
                      /\ \A k : k # key => W(k) = V(k)
    OBVIOUS
  <2>1. /\ M = N \cup {key} /\ LastOf(rs, key, n + 1) = n + 1
        /\ \A k : k # key => LastOf(rs, k, n + 1) = LastOf(rs, k, n)
    BY LastIs, ZenonT(60)
  <2> QED
    BY <2>1, Zenon
<1>2. T = [k \in {k \in DOMAIN t \cup N : k \in N => V(k).type = "I"} |->
             IF k \in N THEN V(k).value ELSE t[k]]
  BY DEF ReplayedOf
<1>3. U = [k \in {k \in DOMAIN t \cup M : k \in M => W(k).type = "I"} |->
             IF k \in M THEN W(k).value ELSE t[k]]
  BY DEF ReplayedOf
<1> HIDE DEF T, U, N, M, V, W, r
<1>4. DOMAIN T = {k \in DOMAIN t \cup N : k \in N => V(k).type = "I"}
      /\ \A k \in DOMAIN T : T[k] = IF k \in N THEN V(k).value ELSE t[k]
  BY <1>2
<1>5. DOMAIN U = {k \in DOMAIN t \cup M : k \in M => W(k).type = "I"}
      /\ \A k \in DOMAIN U : U[k] = IF k \in M THEN W(k).value ELSE t[k]
  BY <1>3
<1>6. U = [k \in DOMAIN U |-> U[k]]
  BY <1>3
<1>7. \A k : k # r.key => (k \in DOMAIN U <=> k \in DOMAIN T)
  BY <1>1, <1>4, <1>5
<1>8. \A k \in DOMAIN U : k # r.key => U[k] = T[k]
  BY <1>1, <1>4, <1>5, <1>7
<1>9. CASE r.type = "I"
  <2>1. r.key \in DOMAIN U /\ U[r.key] = r.value
    BY <1>1, <1>5, <1>9
  <2>2. DOMAIN U = DOMAIN T \cup {r.key}
    BY <1>7, <2>1
  <2>3. U = [k \in DOMAIN T \cup {r.key} |-> IF k = r.key THEN r.value ELSE T[k]]
    BY <1>6, <1>8, <2>1, <2>2
  <2> QED
    BY <1>9, <2>3 DEF Applied, Stored, T, U, r
<1>10. CASE r.type # "I"
  <2>1. r.key \notin DOMAIN U
    BY <1>1, <1>5, <1>10
  <2>2. DOMAIN U = DOMAIN T \ {r.key}
    BY <1>7, <2>1
  <2>3. U = [k \in DOMAIN T \ {r.key} |-> T[k]]
    BY <1>6, <1>8, <2>2
  <2> QED
    BY <1>10, <2>3 DEF Applied, Without, T, U, r
<1> QED
  BY <1>9, <1>10

(* The two tables have the same, but for one key.                          *)
OneKey(t, u) ==
  \E key : \A k : k # key => (k \in DOMAIN t <=> k \in DOMAIN u) /\ (k \in DOMAIN t => t[k] = u[k])

(* A record alters one key.                                                *)
LEMMA AppliedIsOneKey ==
  /\ \A t : OneKey(t, t)
  /\ \A t, k, v : OneKey(Stored(t, k, v), t) /\ OneKey(Without(t, k), t)
  BY DEF OneKey, Stored, Without

(* To differ in one key means what the property says.                      *)
LEMMA OneKeyIs ==
  ASSUME NEW t, NEW u, OneKey(u, t)
  PROVE  Cardinality({k \in DOMAIN t \cup DOMAIN u :
                        ~(k \in DOMAIN t \cap DOMAIN u /\ u[k] = t[k])}) <= 1
<1> DEFINE S == {k \in DOMAIN t \cup DOMAIN u : ~(k \in DOMAIN t \cap DOMAIN u /\ u[k] = t[k])}
<1>1. PICK key : \A k : k # key => (k \in DOMAIN u <=> k \in DOMAIN t) /\ (k \in DOMAIN u => u[k] = t[k])
  BY DEF OneKey
<1>2. S \subseteq {key}
  BY <1>1
<1> HIDE DEF S
<1>3. IsFiniteSet({key}) /\ Cardinality({key}) = 1
  BY FS_Singleton
<1>4. Cardinality(S) <= 1
  BY <1>2, <1>3, FS_Subset
<1> QED
  BY <1>4 DEF S

-----------------------------------------------------------------------------
(* The log.                                                                *)

(* What stands in front of a value or a key, and a record as it is logged. *)
Insertion == <<I, Blank>>
Deletion == <<D, Blank>>
IsInsert(r) ==
  /\ r.type = "I" /\ r.key \in Numeral /\ r.size \in Numeral /\ r.value \in Bytes
  /\ Number(r.size) = Len(r.value) /\ Len(r.key) + Len(r.size) + 4 <= LogBuf
IsDelete(r) == r.type = "D" /\ r.key \in Numeral /\ Len(r.key) + 2 <= LogBuf
LogHeader(r) == IF r.type = "I" THEN Insertion \o HeaderOf(r) ELSE Deletion \o r.key
Body(r) == IF r.type = "I" THEN r.value ELSE << >>

(* A record is an insertion or a deletion.                                 *)
LEMMA RecordIs ==
  ASSUME NEW r \in Records
  PROVE  IsInsert(r) \/ IsDelete(r)
<1>1. \/ r \in [type : {"D"}, key : Numeral] /\ Len(r.key) + 2 <= LogBuf
      \/ /\ r \in [type : {"I"}, key : Numeral, size : Numeral, value : Seq(Int)]
         /\ Sized(r) /\ Len(r.key) + Len(r.size) + 4 <= LogBuf
  BY RecoveryAssumption
<1>2. CASE r \in [type : {"D"}, key : Numeral] /\ Len(r.key) + 2 <= LogBuf
  BY <1>2 DEF IsDelete
<1>3. CASE /\ r \in [type : {"I"}, key : Numeral, size : Numeral, value : Seq(Int)]
           /\ Sized(r) /\ Len(r.key) + Len(r.size) + 4 <= LogBuf
  BY <1>3 DEF IsInsert, Sized, Bytes
<1> QED
  BY <1>1, <1>2, <1>3

(* The first two bytes of a record.                                        *)
LEMMA MarkIs ==
  /\ Insertion \in Bytes /\ Len(Insertion) = 2 /\ Insertion[1] = I /\ Insertion[2] = Blank
  /\ Deletion \in Bytes /\ Len(Deletion) = 2 /\ Deletion[1] = D /\ Deletion[2] = Blank
  /\ Insertion # << >> /\ Deletion # << >>
  BY DEF Insertion, Deletion, Bytes, I, D, Blank

(* What is known of the header of a record, which fits into the buffer.    *)
LEMMA LogHeaderIs ==
  ASSUME NEW r \in Records
  PROVE  /\ LogHeader(r) \in Bytes /\ Len(LogHeader(r)) \in 3 .. LogBuf
         /\ LogHeader(r)[1] \in {I, D} /\ LogHeader(r)[2] = Blank
         /\ Body(r) \in Bytes /\ LogHeader(r) # << >>
         /\ Log!Written(r) = LogHeader(r) \o Body(r)
<1>1. CASE IsInsert(r)
  <2>1. r.type = "I" /\ r.key \in Numeral /\ r.size \in Numeral /\ r.value \in Bytes
        /\ Len(r.key) + Len(r.size) + 4 <= LogBuf
    BY <1>1 DEF IsInsert
  <2> DEFINE h == HeaderOf(r)
  <2>2. /\ h \in Bytes /\ Len(h) = Len(r.key) + Len(r.size) + 2
        /\ Len(r.key) \in Nat /\ Len(r.size) \in Nat
    BY <2>1, HeaderIs DEF HeaderOf
  <2>3. Pair(r) = h \o r.value
    BY <2>1, PairIs, ZenonT(60) DEF HeaderOf
  <2> HIDE DEF h
  <2> DEFINE m == Insertion \o h
  <2>4. /\ m \in Bytes /\ Len(m) = Len(Insertion) + Len(h)
        /\ \A i \in 1 .. Len(Insertion) : m[i] = Insertion[i]
    BY <2>2, MarkIs, Joined
  <2>5. Insertion \o Pair(r) = m \o r.value
    <3> SUFFICES ASSUME NEW v \in Bytes PROVE (Insertion \o h) \o v = Insertion \o (h \o v)
      BY <2>1, <2>3
    <3> QED
      BY <2>2, MarkIs, Associative
  <2>6. LogHeader(r) = m /\ Body(r) = r.value
    BY <2>1 DEF LogHeader, Body, h
  <2>7. Log!Written(r) = Insertion \o Pair(r)
    BY <2>1, LogScans, Zenon DEF Log!Written, Insertion
  <2> HIDE DEF m
  <2>8. Len(m) \in 3 .. LogBuf /\ m[1] = I /\ m[2] = Blank
    <3>1. Len(m) = Len(r.key) + Len(r.size) + 4 /\ m[1] = Insertion[1] /\ m[2] = Insertion[2]
      <4>1. Len(Insertion) = 2 /\ 1 \in 1 .. Len(Insertion) /\ 2 \in 1 .. Len(Insertion)
        BY MarkIs
      <4>2. m[1] = Insertion[1] /\ m[2] = Insertion[2]
        BY <2>4, <4>1
      <4>3. Len(m) = 2 + Len(h)
        BY <2>4, <4>1
      <4> QED
        BY <2>2, <4>2, <4>3
    <3> SUFFICES ASSUME NEW k \in Nat, NEW l \in Nat, Len(m) = k + l + 4, k + l + 4 <= LogBuf
                 PROVE  Len(m) \in 3 .. LogBuf
      BY <2>1, <2>2, <3>1, MarkIs
    <3> QED
      BY Sizes
  <2>9. m # << >>
    BY <2>8, Nothings
  <2> QED
    BY <2>1, <2>4, <2>5, <2>6, <2>7, <2>8, <2>9
<1>2. CASE IsDelete(r)
  <2>1. r.type = "D" /\ r.key \in Numeral /\ Len(r.key) + 2 <= LogBuf
    BY <1>2 DEF IsDelete
  <2>2. r.key \in Bytes /\ Len(r.key) \in Nat \ {0}
    <3>1. r.key \in Bytes /\ r.key # << >>
      BY <2>1, NumeralIs
    <3>2. Len(r.key) # 0 /\ Len(r.key) \in Nat
      BY <3>1, Nothings, Joined
    <3> QED
      BY <3>1, <3>2
  <2> DEFINE m == Deletion \o r.key
  <2>3. /\ m \in Bytes /\ Len(m) = Len(Deletion) + Len(r.key)
        /\ \A i \in 1 .. Len(Deletion) : m[i] = Deletion[i]
    BY <2>2, MarkIs, Joined
  <2>4. LogHeader(r) = m /\ Body(r) = << >> /\ m \o << >> = m
    BY <2>1, <2>3, Nothings DEF LogHeader, Body
  <2>5. Log!Written(r) = m
    <3>1. r.type # "I"
      BY <2>1
    <3> QED
      BY <3>1, LogScans, Zenon DEF Log!Written, Deletion
  <2> HIDE DEF m
  <2>6. Len(m) \in 3 .. LogBuf /\ m[1] = D /\ m[2] = Blank
    BY <2>1, <2>2, <2>3, MarkIs, Sizes
  <2>7. m # << >>
    BY <2>6, Nothings
  <2> QED
    BY <2>3, <2>4, <2>5, <2>6, <2>7, Nothings
<1> QED
  BY <1>1, <1>2, RecordIs

(* What the n-th record and those behind it are in the file.               *)
LEMMA LogRestIs ==
  ASSUME NEW rs \in Seq(Records)
  PROVE  /\ Len(rs) \in Nat /\ Log!Rest(rs, Len(rs)) = << >>
         /\ \A n \in 0 .. Len(rs) : Log!Rest(rs, n) \in Bytes
         /\ \A n \in 0 .. Len(rs) - 1 :
              /\ rs[n + 1] \in Records
              /\ Log!Rest(rs, n)
                   = LogHeader(rs[n + 1]) \o (Body(rs[n + 1]) \o Log!Rest(rs, n + 1))
<1> DEFINE parts == [i \in 1 .. Len(rs) |-> Log!Written(rs[i])]
<1>1. Len(rs) \in Nat /\ \A i \in 1 .. Len(rs) : rs[i] \in Records
  OBVIOUS
<1>2. Len(parts) = Len(rs) /\ \A i \in 1 .. Len(rs) : parts[i] = Log!Written(rs[i])
  BY <1>1
<1>3. \A i \in 1 .. Len(rs) : /\ Log!Written(rs[i]) = LogHeader(rs[i]) \o Body(rs[i])
                              /\ LogHeader(rs[i]) \in Bytes /\ Body(rs[i]) \in Bytes
  BY <1>1, LogHeaderIs
<1>4. \A n : Log!Rest(rs, n) = Behind(parts)[n]
  BY LogScans, Zenon DEF Log!Rest
<1>5. \A i \in 1 .. Len(rs) : parts[i] \in Bytes
  BY <1>2, <1>3, Joined
<1> HIDE DEF parts
<1>6. /\ Behind(parts)[Len(rs)] = << >>
      /\ \A n \in 0 .. Len(rs) - 1 : Behind(parts)[n] = parts[n + 1] \o Behind(parts)[n + 1]
      /\ \A n \in 0 .. Len(rs) : Behind(parts)[n] \in Bytes
  BY <1>1, <1>2, <1>5, BehindIs
<1>7. ASSUME NEW n \in 0 .. Len(rs) - 1
      PROVE  /\ rs[n + 1] \in Records
             /\ Log!Rest(rs, n)
                  = LogHeader(rs[n + 1]) \o (Body(rs[n + 1]) \o Log!Rest(rs, n + 1))
  <2>1. n + 1 \in 1 .. Len(rs) /\ n + 1 \in 0 .. Len(rs)
    BY <1>1
  <2>2. Log!Rest(rs, n) = Log!Written(rs[n + 1]) \o Log!Rest(rs, n + 1)
    BY <1>2, <1>4, <1>6, <2>1
  <2>3. Log!Rest(rs, n + 1) \in Bytes
    BY <1>4, <1>6, <2>1
  <2>4. (LogHeader(rs[n + 1]) \o Body(rs[n + 1])) \o Log!Rest(rs, n + 1)
          = LogHeader(rs[n + 1]) \o (Body(rs[n + 1]) \o Log!Rest(rs, n + 1))
    BY <1>3, <2>1, <2>3, Associative
  <2> QED
    BY <1>1, <1>3, <2>1, <2>2, <2>4
<1> QED
  BY <1>1, <1>4, <1>6, <1>7

(* Every record has some bytes, ...                                        *)
LEMMA RestNext ==
  ASSUME NEW rs \in Seq(Records), NEW n \in 0 .. Len(rs) - 1
  PROVE  /\ Len(Log!Rest(rs, n)) \in Nat /\ Len(Log!Rest(rs, n + 1)) \in Nat
         /\ Len(Log!Rest(rs, n + 1)) < Len(Log!Rest(rs, n))
<1> DEFINE h == LogHeader(rs[n + 1])
           v == Body(rs[n + 1])
           f == Log!Rest(rs, n + 1)
<1>1. /\ n + 1 \in 0 .. Len(rs) /\ n \in 0 .. Len(rs)
      /\ rs[n + 1] \in Records /\ Log!Rest(rs, n) = h \o (v \o f)
  <2>1. Len(rs) \in Nat
    OBVIOUS
  <2>2. n + 1 \in 0 .. Len(rs) /\ n \in 0 .. Len(rs)
    BY <2>1
  <2> QED
    BY <2>2, LogRestIs
<1>2. f \in Bytes
  BY <1>1, LogRestIs
<1>3. h \in Bytes /\ v \in Bytes /\ Len(h) \in 3 .. LogBuf
  BY <1>1, LogHeaderIs
<1> HIDE DEF h, v, f
<1>4. v \o f \in Bytes /\ Len(v \o f) = Len(v) + Len(f) /\ Len(v) \in Nat /\ Len(f) \in Nat
  BY <1>2, <1>3, Joined
<1> DEFINE g == v \o f
<1> HIDE DEF g
<1>5. Len(h \o g) = Len(h) + Len(g)
  BY <1>3, <1>4, Joined DEF g
<1>6. Len(Log!Rest(rs, n)) = Len(h) + (Len(v) + Len(f))
  BY <1>1, <1>4, <1>5 DEF g
<1>7. Len(h) \in Nat /\ Len(h) > 0
  BY <1>3
<1> QED
  BY <1>4, <1>6, <1>7 DEF f

(* ... so that a later one has fewer behind it.                            *)
LEMMA RestLess ==
  ASSUME NEW rs \in Seq(Records), NEW n \in 0 .. Len(rs), NEW m \in n + 1 .. Len(rs)
  PROVE  Len(Log!Rest(rs, m)) < Len(Log!Rest(rs, n))
<1> DEFINE L(i) == Len(Log!Rest(rs, i))
           T == {i \in n + 1 .. Len(rs) : ~(L(i) < L(n))}
<1>1. \A i \in 0 .. Len(rs) - 1 : L(i) \in Nat /\ L(i + 1) \in Nat /\ L(i + 1) < L(i)
  BY RestNext
<1> HIDE DEF L
<1>2. Len(rs) \in Nat
  OBVIOUS
<1> SUFFICES ASSUME T # {} PROVE FALSE
  BY DEF L
<1>3. T \subseteq Nat
  BY <1>2
<1>4. PICK k \in T : \A i \in T : k <= i
  BY <1>3, LeastNatural
<1>5. k \in n + 1 .. Len(rs) /\ ~(L(k) < L(n))
  OBVIOUS
<1>6. k - 1 \in 0 .. Len(rs) - 1 /\ (k - 1) + 1 = k /\ n \in 0 .. Len(rs) - 1
  BY <1>2, <1>5
<1>7. L(k) \in Nat /\ L(k - 1) \in Nat /\ L(k) < L(k - 1) /\ L(n) \in Nat
  BY <1>1, <1>6
<1>8. k - 1 \notin T
  BY <1>2, <1>4, <1>5
<1>9. CASE k - 1 = n
  BY <1>5, <1>7, <1>9
<1>10. CASE k - 1 # n
  <2>1. k - 1 \in n + 1 .. Len(rs)
    BY <1>2, <1>5, <1>10
  <2>2. L(k - 1) < L(n)
    BY <1>8, <2>1
  <2> QED
    BY <1>5, <1>7, <2>2
<1> QED
  BY <1>9, <1>10

(* What comes behind a record is not taken for a digit.                    *)
LEMMA RestStarts ==
  ASSUME NEW rs \in Seq(Records), NEW n \in 0 .. Len(rs)
  PROVE  StartsOut(Log!Rest(rs, n), Digit)
<1>1. CASE n = Len(rs)
  BY <1>1, LogRestIs DEF StartsOut
<1>2. CASE n # Len(rs)
  <2> DEFINE h == LogHeader(rs[n + 1])
             g == Body(rs[n + 1]) \o Log!Rest(rs, n + 1)
  <2>1. n \in 0 .. Len(rs) - 1 /\ n + 1 \in 0 .. Len(rs)
    BY <1>2, LogRestIs
  <2>2. rs[n + 1] \in Records /\ Log!Rest(rs, n) = h \o g /\ Log!Rest(rs, n + 1) \in Bytes
    BY <2>1, LogRestIs
  <2>3. h \in Bytes /\ h # << >> /\ h[1] \in {I, D} /\ Body(rs[n + 1]) \in Bytes
    BY <2>2, LogHeaderIs
  <2>4. g \in Bytes
    BY <2>2, <2>3, Joined
  <2> HIDE DEF h, g
  <2>5. (h \o g)[1] = h[1]
    BY <2>3, <2>4, First
  <2>6. I \notin Digit /\ D \notin Digit
    BY DEF I, D, Digit
  <2> QED
    BY <2>2, <2>3, <2>5, <2>6 DEF StartsOut
<1> QED
  BY <1>1, <1>2

(* The whole records are those that do not reach into what is gone.        *)
LEMMA WholeIs ==
  ASSUME records \in Seq(Records), NEW n \in 0 .. Len(records), length \in Int,
         NEW g, g = Len(Log!File(records)) - length,
         Len(Log!Rest(records, n)) >= g,
         n < Len(records) => Len(Log!Rest(records, n + 1)) < g
  PROVE  Log!Whole = n
<1> DEFINE L(i) == Len(Log!Rest(records, i))
           T == {i \in 0 .. Len(records) : L(0) - L(i) <= length}
<1>0. Len(records) \in Nat
  OBVIOUS
<1>1. \A i \in 0 .. Len(records) : L(i) \in Nat
  BY LogRestIs DEF Bytes
<1>2. g = L(0) - length /\ L(n) >= g /\ (n < Len(records) => L(n + 1) < g)
  BY DEF Log!File
<1>3. \A i \in n + 2 .. Len(records) : n + 1 \in 0 .. Len(records) => L(i) < L(n + 1)
  BY RestLess
<1>4. Log!Whole = Log!Max(T)
  BY Zenon DEF Log!Whole, Log!Start, Log!File
<1> HIDE DEF L
<1>5. 0 \in 0 .. Len(records)
  BY <1>0
<1>6. n \in T
  BY <1>1, <1>2, <1>5
<1>7. \A i \in T : n >= i
  <2> SUFFICES ASSUME NEW i \in 0 .. Len(records), L(0) - L(i) <= length, ~(n >= i) PROVE FALSE
    OBVIOUS
  <2>1. n < Len(records) /\ n + 1 \in 0 .. Len(records) /\ i \in n + 1 .. Len(records)
    BY <1>0
  <2>2. L(n + 1) < g /\ L(i) <= L(n + 1)
    <3>1. i = n + 1 \/ i \in n + 2 .. Len(records)
      BY <1>0, <2>1
    <3> QED
      BY <1>1, <1>2, <1>3, <2>1, <3>1
  <2> QED
    BY <1>1, <1>2, <1>5, <2>1, <2>2
<1>8. T \in SUBSET Int
  OBVIOUS
<1> HIDE DEF T
<1>9. Max(T) = n
  BY <1>6, <1>7, <1>8, MaxIs
<1>10. Log!Max(T) = Max(T)
  BY Zenon DEF Log!Max, Max
<1> QED
  BY <1>4, <1>9, <1>10

(* The buffer is full, or there is nothing more to read.                   *)
Filled(b, r) ==
  /\ b \in Bytes /\ r \in Bytes /\ Len(b) <= LogBuf
  /\ Len(b) = LogBuf \/ r = << >>

(* The next turn makes table t and finds the bytes f.                      *)
Refilled(next, t, f) ==
  /\ next.table = t /\ Filled(next.buf, next.rest) /\ next.buf \o next.rest = f
  /\ next.status = IF next.buf = << >> THEN "done" ELSE "reading"

AtPart(c, u) == c \in Bytes /\ u \in Bytes /\ log_buf = c \o u /\ Filled(log_buf, log_rest)

(* The buffer is c and u, and full if the file goes on.                    *)
LEMMA PartIs ==
  ASSUME NEW c, NEW u, AtPart(c, u)
  PROVE  /\ c \in Bytes /\ u \in Bytes /\ log_rest \in Bytes /\ log_buf \in Bytes
         /\ From(log_buf, Len(c) + 1) = u /\ Len(log_buf) = Len(c) + Len(u)
         /\ Len(c) \in Nat /\ Len(u) \in Nat /\ Len(log_rest) \in Nat
         /\ Len(c) + Len(u) <= LogBuf /\ (Len(c) + Len(u) = LogBuf \/ log_rest = << >>)
<1>1. c \in Bytes /\ u \in Bytes /\ log_buf = c \o u
  BY DEF AtPart
<1>2. log_buf \in Bytes /\ log_rest \in Bytes /\ Len(log_buf) <= LogBuf
      /\ (Len(log_buf) = LogBuf \/ log_rest = << >>)
  BY DEF AtPart, Filled
<1>3. Len(c \o u) = Len(c) + Len(u) /\ Len(c) \in Nat /\ Len(u) \in Nat
  BY <1>1, Joined
<1>4. From(c \o u, Len(c) + 1) = u
  BY <1>1, FromOver
<1>5. Len(log_rest) \in Nat
  BY <1>2 DEF Bytes
<1>6. Len(log_buf) = Len(c) + Len(u)
  BY <1>1, <1>3
<1>7. Len(c) + Len(u) <= LogBuf /\ (Len(c) + Len(u) = LogBuf \/ log_rest = << >>)
  BY <1>2, <1>6
<1> QED
  BY <1>1, <1>2, <1>3, <1>4, <1>5, <1>6, <1>7

(* buf_left is negative if more was used than there was.                   *)
LEMMA RefillFar ==
  ASSUME NEW t, NEW n, n > Len(log_buf)
  PROVE  Log!Refill(t, n) = Log!State(log_buf, log_rest, t, "crash")
  BY Zenon DEF Log!Refill

(* Otherwise the buffer is filled from behind c on.                        *)
LEMMA Refills ==
  ASSUME NEW c, NEW u, AtPart(c, u), NEW t
  PROVE  Refilled(Log!Refill(t, Len(c)), t, u \o log_rest)
<1>1. /\ c \in Bytes /\ u \in Bytes /\ log_rest \in Bytes
      /\ From(log_buf, Len(c) + 1) = u /\ Len(log_buf) = Len(c) + Len(u)
      /\ Len(c) \in Nat /\ Len(u) \in Nat /\ Len(log_rest) \in Nat
      /\ Len(c) + Len(u) <= LogBuf /\ (Len(c) + Len(u) = LogBuf \/ log_rest = << >>)
  BY PartIs
<1>2. ~(Len(c) > Len(log_buf))
  BY <1>1
<1> DEFINE k == LogBuf - Len(u)
           a == Take(log_rest, k)
           r == From(log_rest, k + 1)
           b == u \o a
           next == Log!Refill(t, Len(c))
<1>3. next = Log!State(b, r, t, IF b = << >> THEN "done" ELSE "reading")
  <2>1. /\ Log!From(log_buf, Len(c) + 1) = u
        /\ Log!Take(log_rest, k) = a /\ Log!From(log_rest, k + 1) = r
    BY <1>1, LogScans
  <2> HIDE DEF a, r
  <2> QED
    BY <1>2, <2>1, Zenon DEF Log!Refill
<1>4. k \in Nat
  BY <1>1, Sizes
<1>5. /\ a \in Bytes /\ r \in Bytes /\ log_rest = a \o r
      /\ Len(a) = (IF k < Len(log_rest) THEN k ELSE Len(log_rest))
      /\ Len(r) = (IF k < Len(log_rest) THEN Len(log_rest) - k ELSE 0)
  BY <1>1, <1>4, Parted
<1> HIDE DEF a, r
<1>6. b \in Bytes /\ Len(b) = Len(u) + Len(a)
  BY <1>1, <1>5, Joined
<1>7. b \o r = u \o log_rest
  <2>1. (u \o a) \o r = u \o (a \o r)
    BY <1>1, <1>5, Associative, SMTT(60)
  <2> QED
    BY <1>5, <2>1
<1> HIDE DEF b, next
<1>8. Len(b) <= LogBuf
  BY <1>1, <1>5, <1>6, Sizes
<1>9. Len(b) = LogBuf \/ r = << >>
  <2>1. CASE k < Len(log_rest)
    BY <1>1, <1>4, <1>5, <1>6, <2>1, Sizes
  <2>2. CASE ~(k < Len(log_rest))
    BY <1>5, <2>2, Nothings
  <2> QED
    BY <2>1, <2>2
<1>10. Filled(b, r)
  BY <1>5, <1>6, <1>8, <1>9 DEF Filled
<1>11. /\ next.buf = b /\ next.rest = r /\ next.table = t
       /\ next.status = IF b = << >> THEN "done" ELSE "reading"
  BY <1>3 DEF Log!State
<1>12. Refilled(next, t, u \o log_rest)
  BY <1>7, <1>10, <1>11 DEF Refilled
<1> QED
  BY <1>12 DEF next

(* The first part of the file is in the buffer ...                         *)
LEMMA FirstFill ==
  ASSUME NEW f \in Bytes
  PROVE  /\ Filled(Take(f, LogBuf), From(f, LogBuf + 1))
         /\ Take(f, LogBuf) \o From(f, LogBuf + 1) = f
         /\ LogBuf > 0 => (Take(f, LogBuf) = << >> <=> f = << >>)
<1> DEFINE b == Take(f, LogBuf)
           r == From(f, LogBuf + 1)
<1>1. LogBuf \in Nat /\ Len(f) \in Nat
  BY Sizes DEF Bytes
<1>2. /\ b \in Bytes /\ r \in Bytes /\ f = b \o r
      /\ Len(b) = (IF LogBuf < Len(f) THEN LogBuf ELSE Len(f))
      /\ Len(r) = (IF LogBuf < Len(f) THEN Len(f) - LogBuf ELSE 0)
  BY <1>1, Parted
<1> HIDE DEF b, r
<1>3. Len(b) <= LogBuf /\ (Len(b) = LogBuf \/ Len(r) = 0)
  BY <1>1, <1>2
<1>4. r = << >> <=> Len(r) = 0
  BY <1>2, Nothings
<1>5. (b = << >> <=> Len(b) = 0) /\ (f = << >> <=> Len(f) = 0)
  BY <1>2, Nothings
<1>6. LogBuf > 0 => (b = << >> <=> f = << >>)
  BY <1>1, <1>2, <1>5
<1> QED
  BY <1>2, <1>3, <1>4, <1>6 DEF Filled, b, r

(* ... as is the first part of what a value has left of it.                *)
LEMMA Reloads ==
  ASSUME NEW z \in Bytes, NEW t, LogBuf > 0,
         NEW next, next = Log!State(Take(z, LogBuf), From(z, LogBuf + 1), t,
                                    IF z = << >> THEN "done" ELSE "reading")
  PROVE  Refilled(next, t, z)
<1> DEFINE b == Take(z, LogBuf)
           r == From(z, LogBuf + 1)
<1>1. Filled(b, r) /\ b \o r = z /\ (b = << >> <=> z = << >>)
  BY FirstFill
<1> HIDE DEF b, r
<1>2. /\ next.buf = b /\ next.rest = r /\ next.table = t
      /\ next.status = IF z = << >> THEN "done" ELSE "reading"
  BY DEF Log!State, b, r
<1> QED
  BY <1>1, <1>2 DEF Refilled

(* A value that could be in the buffer whole ...                           *)
LEMMA InsertWithin ==
  ASSUME NEW key, NEW size, NEW h, LogBuf - h >= size
  PROVE  Log!Insert(key, size, h)
           = Log!Refill(Stored(table, key, Memory(From(log_buf, h + 1), size)), h + size)
<1>1. Log!Stored(table, key, Log!Memory(Log!From(log_buf, h + 1), size))
        = Stored(table, key, Memory(From(log_buf, h + 1), size))
  BY LogScans, Zenon
<1> QED
  BY <1>1, Zenon DEF Log!Insert

(* ... and one that could not.                                             *)
LEMMA InsertBeyond ==
  ASSUME NEW key, NEW size, NEW h, ~(LogBuf - h >= size)
  PROVE  LET k == size - (LogBuf - h)
             v == Memory(From(log_buf, h + 1), LogBuf - h) \o Memory(Take(log_rest, k), k)
             r == From(log_rest, k + 1) IN
         Log!Insert(key, size, h)
           = Log!State(Take(r, LogBuf), From(r, LogBuf + 1), Stored(table, key, v),
                       IF r = << >> THEN "done" ELSE "reading")
<1> DEFINE k == size - (LogBuf - h)
           v == Memory(From(log_buf, h + 1), LogBuf - h) \o Memory(Take(log_rest, k), k)
           r == From(log_rest, k + 1)
<1>1. /\ Log!Memory(Log!From(log_buf, h + 1), LogBuf - h) \o Log!Memory(Log!Take(log_rest, k), k) = v
      /\ Log!From(log_rest, k + 1) = r
  BY LogScans, Zenon
<1> HIDE DEF v, r
<1>2. /\ Log!Stored(table, key, v) = Stored(table, key, v)
      /\ Log!Take(r, LogBuf) = Take(r, LogBuf) /\ Log!From(r, LogBuf + 1) = From(r, LogBuf + 1)
  BY LogScans, Zenon
<1>3. Log!Insert(key, size, h)
        = Log!State(Take(r, LogBuf), From(r, LogBuf + 1), Stored(table, key, v),
                    IF r = << >> THEN "done" ELSE "reading")
  BY <1>1, <1>2, Zenon DEF Log!Insert
<1> QED
  BY <1>3 DEF v, r

(* A value that is in the file to its end.                                 *)
AtLogged(h, q, value, z) ==
  /\ AtPart(h, q) /\ h # << >> /\ value \in Bytes /\ z \in Bytes
  /\ q \o log_rest = value \o z

(* A value of which the file has all is read, and the buffer is behind it. *)
LEMMA InsertsWhole ==
  ASSUME NEW h, NEW q, NEW value, NEW z, AtLogged(h, q, value, z), NEW key
  PROVE  Refilled(Log!Insert(key, Len(value), Len(h)), Stored(table, key, value), z)
<1>1. AtPart(h, q) /\ h # << >> /\ value \in Bytes /\ z \in Bytes /\ q \o log_rest = value \o z
  BY DEF AtLogged
<1>2. /\ h \in Bytes /\ q \in Bytes /\ log_rest \in Bytes /\ log_buf = h \o q
      /\ From(log_buf, Len(h) + 1) = q /\ Len(log_buf) = Len(h) + Len(q)
      /\ Len(h) \in Nat /\ Len(q) \in Nat /\ Len(log_rest) \in Nat
      /\ Len(h) + Len(q) <= LogBuf /\ (Len(h) + Len(q) = LogBuf \/ log_rest = << >>)
      /\ Filled(log_buf, log_rest)
  BY <1>1, PartIs DEF AtPart
<1>3. Len(h) > 0 /\ Len(value) \in Nat /\ LogBuf > 0
  <2>1. Len(h) # 0 /\ Len(value) \in Nat
    BY <1>1, <1>2, Nothings, Joined
  <2> QED
    BY <1>2, <2>1, Sizes
<1>4. log_rest = << >> => Len(value) <= Len(q)
  <2> SUFFICES ASSUME log_rest = << >> PROVE Len(value) <= Len(q)
    OBVIOUS
  <2>1. q = value \o z
    BY <1>1, <1>2, Nothings
  <2>2. Len(value \o z) = Len(value) + Len(z) /\ Len(z) \in Nat
    BY <1>1, Joined
  <2> QED
    BY <1>3, <2>1, <2>2
<1>5. CASE LogBuf - Len(h) >= Len(value)
  <2> DEFINE u == Between(q, value)
             c == h \o value
  <2>1. Len(value) <= Len(q)
    BY <1>2, <1>4, <1>5, Sizes
  <2>2. u \in Bytes /\ q = value \o u /\ z = u \o log_rest
    <3>1. After(q, log_rest, value, z)
      BY <1>1, <1>2, <2>1 DEF After
    <3> QED
      BY <3>1, Split
  <2> HIDE DEF u
  <2>3. c \in Bytes /\ Len(c) = Len(h) + Len(value)
    BY <1>1, <1>2, Joined
  <2>4. log_buf = c \o u
    <3>1. (h \o value) \o u = h \o (value \o u)
      BY <1>1, <1>2, <2>2, Associative, SMTT(60)
    <3> QED
      BY <1>2, <2>2, <3>1
  <2> HIDE DEF c
  <2>5. AtPart(c, u)
    BY <1>2, <2>2, <2>3, <2>4 DEF AtPart
  <2>6. Memory(From(log_buf, Len(h) + 1), Len(value)) = value
    BY <1>1, <1>2, <2>2, MemoryOver
  <2>7. Log!Insert(key, Len(value), Len(h)) = Log!Refill(Stored(table, key, value), Len(c))
    BY <1>5, <2>3, <2>6, InsertWithin
  <2>8. Refilled(Log!Refill(Stored(table, key, value), Len(c)), Stored(table, key, value), u \o log_rest)
    BY <2>5, Refills
  <2> QED
    BY <2>2, <2>7, <2>8
<1>6. CASE ~(LogBuf - Len(h) >= Len(value))
  <2> DEFINE v == Between(value, q)
             k == Len(value) - (LogBuf - Len(h))
  <2>1. Len(q) = LogBuf - Len(h) /\ Len(q) < Len(value)
    BY <1>2, <1>3, <1>4, <1>6, Sizes
  <2>2. v \in Bytes /\ Len(v) = Len(value) - Len(q) /\ value = q \o v /\ log_rest = v \o z
    <3>1. After(value, z, q, log_rest)
      BY <1>1, <1>2, <1>3, <2>1 DEF After
    <3> QED
      BY <3>1, Split
  <2> HIDE DEF v
  <2>3. k = Len(v)
    BY <1>2, <1>3, <2>1, <2>2, Sizes
  <2> HIDE DEF k
  <2>4. Take(log_rest, k) = v /\ From(log_rest, k + 1) = z /\ Memory(v, k) = v
        /\ Memory(q, Len(q)) = q
    <3>1. Take(v \o z, Len(v)) = v /\ From(v \o z, Len(v) + 1) = z
      BY <1>1, <2>2, TakeOver, FromOver
    <3>2. Memory(v \o << >>, Len(v)) = v /\ v \o << >> = v
      BY <2>2, Nothings, MemoryOver
    <3>3. Memory(q \o << >>, Len(q)) = q /\ q \o << >> = q
      BY <1>2, Nothings, MemoryOver
    <3> QED
      BY <2>2, <2>3, <3>1, <3>2, <3>3
  <2>5. Memory(From(log_buf, Len(h) + 1), LogBuf - Len(h)) \o Memory(Take(log_rest, k), k) = value
    BY <1>2, <2>1, <2>2, <2>4
  <2>6. Log!Insert(key, Len(value), Len(h))
          = Log!State(Take(z, LogBuf), From(z, LogBuf + 1), Stored(table, key, value),
                      IF z = << >> THEN "done" ELSE "reading")
    <3>1. Log!Insert(key, Len(value), Len(h))
            = Log!State(Take(From(log_rest, k + 1), LogBuf), From(From(log_rest, k + 1), LogBuf + 1),
                        Stored(table, key, Memory(From(log_buf, Len(h) + 1), LogBuf - Len(h))
                                             \o Memory(Take(log_rest, k), k)),
                        IF From(log_rest, k + 1) = << >> THEN "done" ELSE "reading")
      BY <1>6, InsertBeyond, Zenon DEF k
    <3> QED
      BY <2>4, <2>5, <3>1
  <2> QED
    BY <1>1, <1>3, <2>6, Reloads
<1> QED
  BY <1>5, <1>6

(* A value that the file ends in: it is not read further.                  *)
Cuts(next, key) == next.status # "reading" /\ \E v : next.table = Stored(table, key, v)

(* A value that the file has only a part of ends the loop, and one key.    *)
LEMMA InsertsCut ==
  ASSUME NEW h, NEW q, AtPart(h, q), NEW size \in Nat, Len(q) + Len(log_rest) < size, NEW key
  PROVE  Cuts(Log!Insert(key, size, Len(h)), key)
<1>2. /\ h \in Bytes /\ q \in Bytes /\ log_rest \in Bytes
      /\ Len(log_buf) = Len(h) + Len(q)
      /\ Len(h) \in Nat /\ Len(q) \in Nat /\ Len(log_rest) \in Nat
      /\ Len(h) + Len(q) <= LogBuf /\ (Len(h) + Len(q) = LogBuf \/ log_rest = << >>)
  BY PartIs
<1>3. log_rest = << >> => Len(log_rest) = 0
  BY Nothings
<1> DEFINE next == Log!Insert(key, size, Len(h))
<1>4. CASE LogBuf - Len(h) >= size
  <2> DEFINE t == Stored(table, key, Memory(From(log_buf, Len(h) + 1), size))
  <2>1. Len(h) + size > Len(log_buf)
    BY <1>2, <1>4
  <2>2. next = Log!Refill(t, Len(h) + size)
    BY <1>4, InsertWithin
  <2> HIDE DEF next
  <2>3. next = Log!State(log_buf, log_rest, t, "crash")
    BY <2>1, <2>2, RefillFar
  <2>4. next.status = "crash" /\ next.table = t
    BY <2>3 DEF Log!State
  <2> QED
    BY <2>4 DEF next, Cuts
<1>5. CASE ~(LogBuf - Len(h) >= size)
  <2> DEFINE k == size - (LogBuf - Len(h))
             v == Memory(From(log_buf, Len(h) + 1), LogBuf - Len(h)) \o Memory(Take(log_rest, k), k)
             r == From(log_rest, k + 1)
  <2>1. next = Log!State(Take(r, LogBuf), From(r, LogBuf + 1), Stored(table, key, v),
                         IF r = << >> THEN "done" ELSE "reading")
    BY <1>5, InsertBeyond, Zenon
  <2>2. k \in Nat /\ Len(log_rest) <= k
    BY <1>2, <1>3, <1>5, Sizes
  <2>3. r \in Bytes /\ Len(r) = (IF k < Len(log_rest) THEN Len(log_rest) - k ELSE 0)
    BY <1>2, <2>2, Parted
  <2> HIDE DEF k, v, r, next
  <2>4. r = << >>
    BY <1>2, <2>2, <2>3, Nothings
  <2>5. next.status = "done" /\ next.table = Stored(table, key, v)
    BY <2>1, <2>4 DEF Log!State
  <2> QED
    BY <2>5 DEF next, Cuts
<1> QED
  BY <1>4, <1>5

(* The first two bytes tell the type of a record.                          *)
LEMMA TurnShort ==
  ASSUME Len(log_buf) < 2
  PROVE  Log!Turn = Log!Fail
  BY DEF Log!Turn

(* A turn at an insertion ...                                              *)
LEMMA TurnInsert ==
  ASSUME NEW s \in Bytes, log_buf = Insertion \o s
  PROVE  /\ ScanPair(s).ok /\ ScanPair(s).space = Blank =>
              Log!Turn = Log!Insert(ScanPair(s).key, ScanPair(s).size, 2 + ScanPair(s).length)
         /\ ~ScanPair(s).ok => Log!Turn = Log!Fail
<1>1. Len(log_buf) = 2 + Len(s) /\ Len(s) \in Nat /\ log_buf[1] = I /\ log_buf[2] = Blank
      /\ From(log_buf, 3) = s
  <2>1. /\ Len(Insertion \o s) = Len(Insertion) + Len(s) /\ Len(s) \in Nat
        /\ \A i \in 1 .. Len(Insertion) : (Insertion \o s)[i] = Insertion[i]
    BY MarkIs, Joined
  <2>2. From(Insertion \o s, Len(Insertion) + 1) = s
    BY MarkIs, FromOver
  <2>3. Len(Insertion) = 2 /\ 1 \in 1 .. Len(Insertion) /\ 2 \in 1 .. Len(Insertion)
        /\ Len(Insertion) + 1 = 3
    BY MarkIs
  <2>4. Insertion[1] = I /\ Insertion[2] = Blank
    BY MarkIs
  <2> QED
    BY <2>1, <2>2, <2>3, <2>4
<1>2. ~(Len(log_buf) < 2 \/ log_buf[2] # Blank)
  BY <1>1
<1>3. Log!Turn = Log!ReadInsert
  <2>1. D # I
    BY DEF D, I
  <2> QED
    BY <1>1, <1>2, <2>1, LogScans, Zenon DEF Log!Turn
<1>4. Log!ScanPair(Log!From(log_buf, 3)) = ScanPair(s) /\ Log!Blank = Blank
  BY <1>1, LogScans, Zenon
<1>5. /\ ScanPair(s).ok /\ ScanPair(s).space = Blank =>
           Log!ReadInsert = Log!Insert(ScanPair(s).key, ScanPair(s).size, 2 + ScanPair(s).length)
      /\ ~ScanPair(s).ok => Log!ReadInsert = Log!Fail
  BY <1>4, Zenon DEF Log!ReadInsert
<1> QED
  BY <1>3, <1>5

(* ... and at a deletion.                                                  *)
LEMMA TurnDelete ==
  ASSUME NEW s \in Bytes, log_buf = Deletion \o s
  PROVE  /\ ScanU(s).ok =>
              Log!Turn = Log!Refill(Without(table, ScanU(s).digits), 2 + ScanU(s).length)
         /\ ~ScanU(s).ok => Log!Turn = Log!Fail
<1>1. Len(log_buf) = 2 + Len(s) /\ Len(s) \in Nat /\ log_buf[1] = D /\ log_buf[2] = Blank
      /\ From(log_buf, 3) = s
  <2>1. /\ Len(Deletion \o s) = Len(Deletion) + Len(s) /\ Len(s) \in Nat
        /\ \A i \in 1 .. Len(Deletion) : (Deletion \o s)[i] = Deletion[i]
    BY MarkIs, Joined
  <2>2. From(Deletion \o s, Len(Deletion) + 1) = s
    BY MarkIs, FromOver
  <2>3. Len(Deletion) = 2 /\ 1 \in 1 .. Len(Deletion) /\ 2 \in 1 .. Len(Deletion)
        /\ Len(Deletion) + 1 = 3
    BY MarkIs
  <2>4. Deletion[1] = D /\ Deletion[2] = Blank
    BY MarkIs
  <2> QED
    BY <2>1, <2>2, <2>3, <2>4
<1>2. ~(Len(log_buf) < 2 \/ log_buf[2] # Blank)
  BY <1>1
<1>3. D # I
  BY DEF D, I
<1>4. Log!Turn = Log!ReadDelete
  BY <1>1, <1>2, <1>3, LogScans, Zenon DEF Log!Turn
<1>5. Log!ScanU(Log!From(log_buf, 3)) = ScanU(s)
      /\ \A k : Log!Without(table, k) = Without(table, k)
  BY <1>1, LogScans, Zenon
<1>6. /\ ScanU(s).ok =>
           Log!ReadDelete = Log!Refill(Without(table, ScanU(s).digits), 2 + ScanU(s).length)
      /\ ~ScanU(s).ok => Log!ReadDelete = Log!Fail
  BY <1>5, Zenon DEF Log!ReadDelete
<1> QED
  BY <1>4, <1>6

(* process_hash_log returns an error, and the table as it is.              *)
LEMMA FailIs == Log!Fail.status = "error" /\ Log!Fail.table = table
  BY DEF Log!Fail, Log!State

(* A number that is scanned to its end.                                    *)
LEMMA ScanDigits ==
  ASSUME NEW k \in Bytes, AllIn(k, Digit), NEW q \in Bytes, StartsOut(q, Digit),
         k # << >> \/ q = << >>
  PROVE  ScanU(k \o q).ok = (k # << >>) /\ ScanU(k \o q).length = Len(k) /\ ScanU(k \o q).digits = k
<1> DEFINE s == k \o q
           e == << >>
<1>1. s \in Bytes /\ e \in Bytes /\ e \o s = s /\ Len(e) = 0 /\ AllIn(e, Blanks)
  BY Joined, Nothings DEF AllIn
<1>2. StartsOut(s, Blanks)
  <2>1. StartsOut(<< >>, Blanks)
    BY DEF StartsOut
  <2> QED
    BY <2>1, DigitsFirst
<1> HIDE DEF e
<1>3. IsNumber(s, e, k, q)
  BY <1>1, <1>2 DEF IsNumber
<1> HIDE DEF s
<1>4. Scanned(s, k, Len(e) + Len(k))
  BY <1>3, ScanUIs
<1>5. Len(e) + Len(k) = Len(k)
  BY <1>1 DEF Bytes
<1> QED
  BY <1>4, <1>5 DEF Scanned, s

(* The buffer is at the n-th record; gone is what the file has lost.       *)
AtLog(b, r, n, gone) ==
  /\ n \in 0 .. Len(records) /\ Filled(b, r) /\ gone \in Bytes
  /\ (b \o r) \o gone = Log!Rest(records, n)
  /\ length \in Int /\ Len(gone) = Len(Log!File(records)) - length
  /\ damage = "none" => gone = << >>

(* A record is read, and the buffer is at the next one ...                 *)
Moves(next, n, gone) ==
  /\ next.table = Applied(table, records[n + 1])
  /\ AtLog(next.buf, next.rest, n + 1, gone)
  /\ next.status = IF next.buf = << >> THEN "done" ELSE "reading"
  /\ Len(next.buf) + Len(next.rest) < Len(log_buf) + Len(log_rest)

(* What is gone begins in the value of the record behind the n-th.         *)
InValue(n, gone) ==
  /\ records[n + 1].type = "I"
  /\ Len(gone) <= Len(Body(records[n + 1])) + Len(Log!Rest(records, n + 1))

(* ... or the file ends in it.                                             *)
Breaks(next, n, gone) ==
  /\ next.status # "reading" /\ OneKey(next.table, table) /\ gone # << >>
  /\ Len(Log!Rest(records, n + 1)) < Len(gone)
  /\ next.status = "crash" => InValue(n, gone)

(* What there is of the n-th record, which is the header h, v and f.       *)
AtRecord(n, gone, h, v, f) ==
  /\ records \in Seq(Records) /\ AtLog(log_buf, log_rest, n, gone)
  /\ n \in 0 .. Len(records) - 1 /\ h = LogHeader(records[n + 1]) /\ v = Body(records[n + 1])
  /\ f = Log!Rest(records, n + 1)

Lies(gone, h, v, f) == log_buf \o (log_rest \o gone) = h \o (v \o f)

(* What is known when the buffer is at a record.                           *)
LEMMA RecordAt ==
  ASSUME NEW n, NEW gone, NEW h, NEW v, NEW f, AtRecord(n, gone, h, v, f)
  PROVE  /\ n \in 0 .. Len(records) - 1 /\ n + 1 \in 0 .. Len(records) /\ Len(records) \in Nat
         /\ records[n + 1] \in Records
         /\ h \in Bytes /\ Len(h) \in 3 .. LogBuf /\ h # << >> /\ v \in Bytes /\ f \in Bytes
         /\ log_buf \in Bytes /\ log_rest \in Bytes /\ gone \in Bytes
         /\ Lies(gone, h, v, f) /\ Filled(log_buf, log_rest) /\ StartsOut(f, Digit)
<1>1. /\ records \in Seq(Records) /\ n \in 0 .. Len(records) - 1 /\ h = LogHeader(records[n + 1])
      /\ v = Body(records[n + 1]) /\ f = Log!Rest(records, n + 1)
  BY DEF AtRecord
<1>2. n + 1 \in 0 .. Len(records) /\ Len(records) \in Nat
  BY <1>1, LogRestIs
<1>3. /\ records[n + 1] \in Records /\ f \in Bytes /\ StartsOut(f, Digit)
      /\ Log!Rest(records, n) = h \o (v \o f)
  BY <1>1, <1>2, LogRestIs, RestStarts
<1>4. h \in Bytes /\ Len(h) \in 3 .. LogBuf /\ h # << >> /\ v \in Bytes
  BY <1>1, <1>3, LogHeaderIs
<1>5. Filled(log_buf, log_rest) /\ gone \in Bytes
      /\ (log_buf \o log_rest) \o gone = Log!Rest(records, n)
  BY DEF AtRecord, AtLog
<1>6. log_buf \in Bytes /\ log_rest \in Bytes
  BY <1>5 DEF Filled
<1>7. (log_buf \o log_rest) \o gone = log_buf \o (log_rest \o gone)
  BY <1>5, <1>6, Associative
<1>8. log_buf \o (log_rest \o gone) = h \o (v \o f)
  BY <1>3, <1>5, <1>7
<1> QED
  BY <1>1, <1>2, <1>3, <1>4, <1>5, <1>6, <1>8 DEF Lies

(* A turn that reads the record moves on to the next one.                  *)
LEMMA MovesOn ==
  ASSUME NEW n, NEW gone, NEW h, NEW v, NEW f, AtRecord(n, gone, h, v, f),
         NEW next, NEW t, NEW z, Refilled(next, t, z), z \in Bytes,
         t = Applied(table, records[n + 1]), z \o gone = f
  PROVE  Moves(next, n, gone)
<1>1. /\ n + 1 \in 0 .. Len(records) /\ h \in Bytes /\ Len(h) \in 3 .. LogBuf
      /\ v \in Bytes /\ f \in Bytes
      /\ log_buf \in Bytes /\ log_rest \in Bytes /\ gone \in Bytes
      /\ log_buf \o (log_rest \o gone) = h \o (v \o f)
  <2>1. n + 1 \in 0 .. Len(records)
    BY RecordAt
  <2>2. h \in Bytes /\ Len(h) \in 3 .. LogBuf
    BY RecordAt
  <2>3. v \in Bytes /\ f \in Bytes /\ log_buf \in Bytes /\ log_rest \in Bytes /\ gone \in Bytes
    BY RecordAt
  <2>4. Lies(gone, h, v, f)
    BY RecordAt
  <2> QED
    BY <2>1, <2>2, <2>3, <2>4 DEF Lies
<1>2. f = Log!Rest(records, n + 1)
  BY DEF AtRecord
<1>3. length \in Int /\ Len(gone) = Len(Log!File(records)) - length
      /\ (damage = "none" => gone = << >>)
  BY DEF AtRecord, AtLog
<1>4. /\ next.table = t /\ Filled(next.buf, next.rest) /\ next.buf \o next.rest = z
      /\ next.status = IF next.buf = << >> THEN "done" ELSE "reading"
  BY DEF Refilled
<1>5. AtLog(next.buf, next.rest, n + 1, gone)
  BY <1>1, <1>2, <1>3, <1>4 DEF AtLog
<1>6. Len(next.buf) + Len(next.rest) < Len(log_buf) + Len(log_rest)
  <2> DEFINE b == next.buf
             r == next.rest
             u == v \o f
             w == log_rest \o gone
  <2>1. b \in Bytes /\ r \in Bytes /\ b \o r = z
    BY <1>4 DEF Filled
  <2> HIDE DEF b, r
  <2>2. Len(z) = Len(b) + Len(r)
    BY <2>1, Joined
  <2>3. Len(f) = Len(z) + Len(gone) /\ Len(z) \in Nat /\ Len(gone) \in Nat
    BY <1>1, Joined
  <2>4. u \in Bytes /\ Len(u) = Len(v) + Len(f) /\ Len(v) \in Nat /\ Len(f) \in Nat
    BY <1>1, Joined
  <2>5. w \in Bytes /\ Len(w) = Len(log_rest) + Len(gone) /\ Len(log_rest) \in Nat
    BY <1>1, Joined
  <2>6. log_buf \o w = h \o u
    BY <1>1
  <2> HIDE DEF u, w
  <2>7. Len(log_buf \o w) = Len(log_buf) + Len(w) /\ Len(log_buf) \in Nat
    BY <1>1, <2>5, Joined
  <2>8. Len(h \o u) = Len(h) + Len(u) /\ Len(h) \in Nat /\ Len(h) > 0
    <3>1. Len(h) \in Nat /\ Len(h) > 0
      BY <1>1
    <3>2. Len(h \o u) = Len(h) + Len(u)
      BY <1>1, <2>4, Joined
    <3> QED
      BY <3>1, <3>2
  <2>9. Len(b) + Len(r) < Len(log_buf) + Len(log_rest)
    BY <2>2, <2>3, <2>4, <2>5, <2>6, <2>7, <2>8
  <2> QED
    BY <2>9 DEF b, r
<1> QED
  BY <1>4, <1>5, <1>6 DEF Moves

(* A turn that ends the loop does so where the file ends in a record.      *)
LEMMA BreaksOff ==
  ASSUME NEW n, NEW gone, NEW h, NEW v, NEW f, AtRecord(n, gone, h, v, f),
         NEW next, next.status # "reading", OneKey(next.table, table),
         Len(log_buf) + Len(log_rest) < Len(h) + Len(v),
         next.status = "crash" =>
           records[n + 1].type = "I" /\ Len(log_buf) + Len(log_rest) >= Len(h)
  PROVE  Breaks(next, n, gone)
<1>1. /\ h \in Bytes /\ v \in Bytes /\ f \in Bytes
      /\ log_buf \in Bytes /\ log_rest \in Bytes /\ gone \in Bytes
      /\ log_buf \o (log_rest \o gone) = h \o (v \o f)
  <2>1. h \in Bytes
    BY RecordAt
  <2>2. v \in Bytes /\ f \in Bytes
    BY RecordAt
  <2>3. log_buf \in Bytes /\ log_rest \in Bytes /\ gone \in Bytes
    BY RecordAt
  <2>4. log_buf \o (log_rest \o gone) = h \o (v \o f)
    <3>1. Lies(gone, h, v, f)
      BY RecordAt
    <3> QED
      BY <3>1 DEF Lies
  <2> QED
    BY <2>1, <2>2, <2>3, <2>4
<1>2. f = Log!Rest(records, n + 1)
  BY DEF AtRecord
<1> DEFINE u == v \o f
           w == log_rest \o gone
<1>3. u \in Bytes /\ Len(u) = Len(v) + Len(f) /\ Len(v) \in Nat /\ Len(f) \in Nat
  BY <1>1, Joined
<1>4. /\ w \in Bytes /\ Len(w) = Len(log_rest) + Len(gone)
      /\ Len(log_rest) \in Nat /\ Len(gone) \in Nat
  BY <1>1, Joined
<1>5. log_buf \o w = h \o u
  BY <1>1
<1> HIDE DEF u, w
<1>6. Len(log_buf \o w) = Len(log_buf) + Len(w) /\ Len(log_buf) \in Nat
  BY <1>1, <1>4, Joined
<1>7. Len(h \o u) = Len(h) + Len(u) /\ Len(h) \in Nat
  BY <1>1, <1>3, Joined
<1>8. Len(f) < Len(gone)
  BY <1>3, <1>4, <1>5, <1>6, <1>7
<1>9. gone # << >>
  BY <1>3, <1>4, <1>8, Nothings
<1>10. next.status = "crash" => InValue(n, gone)
  <2> SUFFICES ASSUME next.status = "crash" PROVE InValue(n, gone)
    OBVIOUS
  <2>1. Len(gone) <= Len(v) + Len(f)
    BY <1>3, <1>4, <1>5, <1>6, <1>7
  <2>2. v = Body(records[n + 1])
    BY DEF AtRecord
  <2> QED
    BY <1>2, <2>1, <2>2 DEF InValue
<1> QED
  BY <1>2, <1>8, <1>9, <1>10 DEF Breaks

(* The header is in the buffer.                                            *)
LEMMA HeaderRead ==
  ASSUME NEW n, NEW gone, NEW h, NEW v, NEW f, AtRecord(n, gone, h, v, f),
         Len(log_buf) + Len(log_rest) >= Len(h)
  PROVE  /\ AtPart(h, Between(log_buf, h))
         /\ v \o f = (Between(log_buf, h) \o log_rest) \o gone
         /\ Between(log_buf, h) \o log_rest \in Bytes
<1>1. /\ h \in Bytes /\ Len(h) \in 3 .. LogBuf /\ v \in Bytes /\ f \in Bytes
      /\ log_buf \in Bytes /\ log_rest \in Bytes /\ gone \in Bytes
      /\ Lies(gone, h, v, f) /\ Filled(log_buf, log_rest)
  <2>1. h \in Bytes /\ Len(h) \in 3 .. LogBuf
    BY RecordAt
  <2>2. v \in Bytes /\ f \in Bytes /\ log_buf \in Bytes /\ log_rest \in Bytes /\ gone \in Bytes
    BY RecordAt
  <2>3. Lies(gone, h, v, f) /\ Filled(log_buf, log_rest)
    BY RecordAt
  <2> QED
    BY <2>1, <2>2, <2>3
<1>2. Len(log_buf) >= Len(h)
  <2>1. Len(log_buf) = LogBuf \/ log_rest = << >>
    BY <1>1 DEF Filled
  <2>2. Len(log_buf) \in Nat
    BY <1>1 DEF Bytes
  <2> QED
    BY <1>1, <2>1, <2>2, Nothings, Sizes
<1> DEFINE w == log_rest \o gone
           g == v \o f
           q == Between(log_buf, h)
<1>3. w \in Bytes /\ g \in Bytes
  BY <1>1, Joined
<1>4. log_buf \o w = h \o g
  BY <1>1 DEF Lies
<1> HIDE DEF w, g
<1>5. After(log_buf, w, h, g)
  <2>1. Len(h) <= Len(log_buf)
    BY <1>1, <1>2 DEF Bytes
  <2> QED
    BY <1>1, <1>3, <1>4, <2>1 DEF After
<1>6. q \in Bytes /\ log_buf = h \o q /\ g = q \o w
  BY <1>5, Split
<1> HIDE DEF q
<1>7. AtPart(h, q)
  BY <1>1, <1>6 DEF AtPart
<1>8. (q \o log_rest) \o gone = q \o w
  BY <1>1, <1>6, Associative, ZenonT(60) DEF w
<1>9. q \o log_rest \in Bytes
  BY <1>1, <1>6, Joined
<1>10. g = (q \o log_rest) \o gone
  BY <1>6, <1>8
<1> QED
  BY <1>7, <1>9, <1>10 DEF q, g

(* The header of an insertion is there: the value may not be.              *)
LEMMA InsertTurns ==
  ASSUME NEW n, NEW gone, NEW h, NEW v, NEW f, AtRecord(n, gone, h, v, f),
         Len(log_buf) + Len(log_rest) >= Len(h), NEW r, r = records[n + 1], IsInsert(r)
  PROVE  Moves(Log!Turn, n, gone) \/ Breaks(Log!Turn, n, gone)
<1> DEFINE q == Between(log_buf, h)
           w == q \o log_rest
           key == r.key
           H == HeaderOf(r)
<1>1. AtPart(h, q) /\ v \o f = w \o gone /\ w \in Bytes
  BY HeaderRead
<1>2. /\ v \in Bytes /\ f \in Bytes /\ gone \in Bytes /\ h \in Bytes /\ h # << >>
  BY RecordAt
<1> HIDE DEF q, w
<1>3. /\ key \in Numeral /\ r.size \in Numeral /\ r.type = "I"
      /\ Number(r.size) = Len(r.value)
  BY DEF IsInsert
<1>4. h = Insertion \o H /\ v = r.value
  BY <1>3 DEF AtRecord, LogHeader, Body
<1>5. H \in Bytes /\ q \in Bytes /\ log_buf = h \o q /\ log_rest \in Bytes
      /\ Len(q) \in Nat /\ Len(log_rest) \in Nat
  <2>1. H \in Bytes
    BY <1>3, HeaderIs DEF HeaderOf
  <2>2. q \in Bytes /\ log_rest \in Bytes /\ Len(q) \in Nat /\ Len(log_rest) \in Nat
    BY <1>1, PartIs
  <2>3. log_buf = h \o q
    BY <1>1 DEF AtPart
  <2> QED
    BY <2>1, <2>2, <2>3
<1>6. Len(h) = 2 + Len(H) /\ Len(H) \in Nat
  <2>1. Len(Insertion \o H) = Len(Insertion) + Len(H) /\ Len(H) \in Nat
    BY <1>5, MarkIs, Joined
  <2> QED
    BY <1>4, <2>1, MarkIs
<1> DEFINE s == H \o q
<1>7. HasHeader(s, key, r.size)
  <2>1. s = Header(key, r.size) \o q
    BY DEF HeaderOf
  <2> QED
    BY <1>3, <1>5, <2>1, ScanWhole
<1>8. s \in Bytes /\ log_buf = Insertion \o s
  <2>1. (Insertion \o H) \o q = Insertion \o (H \o q)
    <3> HIDE DEF H
    <3> QED
      BY <1>5, MarkIs, Associative
  <2>2. s \in Bytes
    BY <1>5, Joined
  <2> QED
    BY <1>4, <1>5, <2>1, <2>2
<1> HIDE DEF s, H
<1>9. Log!Turn = Log!Insert(key, Len(v), Len(h))
  <2>1. /\ ScanPair(s).ok /\ ScanPair(s).space = Blank /\ ScanPair(s).key = key
        /\ ScanPair(s).size = Len(v) /\ ScanPair(s).length = Len(H)
    BY <1>3, <1>4, <1>7 DEF HasHeader, H, HeaderOf
  <2>2. Log!Turn = Log!Insert(ScanPair(s).key, ScanPair(s).size, 2 + ScanPair(s).length)
    BY <1>8, <2>1, TurnInsert
  <2> QED
    BY <1>6, <2>1, <2>2
<1>10. CASE Len(v) <= Len(w)
  <2> DEFINE z == Between(w, v)
  <2>1. z \in Bytes /\ w = v \o z /\ f = z \o gone
    <3>1. After(w, gone, v, f)
      BY <1>1, <1>2, <1>10 DEF After
    <3> QED
      BY <3>1, Split
  <2> HIDE DEF z
  <2>2. AtLogged(h, q, v, z)
    BY <1>1, <1>2, <2>1 DEF AtLogged, w
  <2>3. Refilled(Log!Turn, Stored(table, key, v), z)
    BY <1>9, <2>2, InsertsWhole
  <2>4. Stored(table, key, v) = Applied(table, records[n + 1])
    BY <1>3, <1>4 DEF Applied
  <2>5. Moves(Log!Turn, n, gone)
    BY <2>1, <2>3, <2>4, MovesOn
  <2> QED
    BY <2>5
<1>11. CASE ~(Len(v) <= Len(w))
  <2>1. Len(w) = Len(q) + Len(log_rest) /\ Len(v) \in Nat
    BY <1>2, <1>5, Joined DEF w
  <2>2. Len(q) + Len(log_rest) < Len(v)
    BY <1>5, <1>11, <2>1
  <2>3. Cuts(Log!Turn, key)
    BY <1>1, <1>9, <2>1, <2>2, InsertsCut
  <2>4. Log!Turn.status # "reading" /\ OneKey(Log!Turn.table, table)
    BY <2>3, AppliedIsOneKey DEF Cuts
  <2>5. Len(log_buf) + Len(log_rest) < Len(h) + Len(v)
    <3>1. Len(log_buf) = Len(h) + Len(q) /\ Len(h) \in Nat
      BY <1>1, PartIs
    <3> QED
      BY <1>5, <2>1, <2>2, <3>1
  <2>6. Breaks(Log!Turn, n, gone)
    BY <1>3, <2>4, <2>5, BreaksOff
  <2> QED
    BY <2>6
<1> QED
  BY <1>10, <1>11

(* The header of a deletion is there, which is all of it.                  *)
LEMMA DeleteTurns ==
  ASSUME NEW n, NEW gone, NEW h, NEW v, NEW f, AtRecord(n, gone, h, v, f),
         Len(log_buf) + Len(log_rest) >= Len(h), NEW r, r = records[n + 1], IsDelete(r)
  PROVE  Moves(Log!Turn, n, gone)
<1> DEFINE q == Between(log_buf, h)
           w == q \o log_rest
           key == r.key
<1>1. AtPart(h, q) /\ v \o f = w \o gone /\ w \in Bytes
  BY HeaderRead
<1>2. v \in Bytes /\ f \in Bytes /\ gone \in Bytes /\ h \in Bytes
  BY RecordAt
<1>2a. StartsOut(f, Digit)
  BY RecordAt
<1> HIDE DEF q
<1>3. key \in Numeral /\ r.type = "D" /\ key \in Bytes /\ key # << >> /\ AllIn(key, Digit)
  <2>1. key \in Numeral /\ r.type = "D"
    BY DEF IsDelete
  <2> QED
    BY <2>1, NumeralIs
<1>4. h = Deletion \o key /\ v = << >>
  BY <1>3 DEF AtRecord, LogHeader, Body
<1>5. q \in Bytes /\ log_buf = h \o q /\ log_rest \in Bytes
  <2>1. q \in Bytes /\ log_rest \in Bytes
    BY <1>1, PartIs
  <2>2. log_buf = h \o q
    BY <1>1 DEF AtPart
  <2> QED
    BY <2>1, <2>2
<1>6. Len(h) = 2 + Len(key)
  <2>1. Len(Deletion \o key) = Len(Deletion) + Len(key)
    BY <1>3, MarkIs, Joined
  <2> QED
    BY <1>4, <2>1, MarkIs
<1> HIDE DEF key, w
<1>7. f = w \o gone
  BY <1>1, <1>2, <1>4, Nothings
<1>8. StartsOut(q, Digit)
  <2>1. CASE q = << >>
    BY <2>1 DEF StartsOut
  <2>2. CASE q # << >>
    <3>1. w # << >> /\ w[1] = q[1]
      BY <1>5, <2>2, First DEF w
    <3>2. f # << >> /\ f[1] = w[1]
      BY <1>1, <1>2, <1>7, <3>1, First
    <3> QED
      BY <1>2a, <3>1, <3>2 DEF StartsOut
  <2> QED
    BY <2>1, <2>2
<1> DEFINE s == key \o q
<1>9. s \in Bytes /\ log_buf = Deletion \o s
  <2>1. (Deletion \o key) \o q = Deletion \o (key \o q)
    BY <1>3, <1>5, MarkIs, Associative
  <2>2. s \in Bytes
    BY <1>3, <1>5, Joined
  <2> QED
    BY <1>4, <1>5, <2>1, <2>2
<1>10. ScanU(s).ok /\ ScanU(s).length = Len(key) /\ ScanU(s).digits = key
  BY <1>3, <1>5, <1>8, ScanDigits
<1> HIDE DEF s
<1>11. Log!Turn = Log!Refill(Without(table, key), Len(h))
  <2>1. Log!Turn = Log!Refill(Without(table, ScanU(s).digits), 2 + ScanU(s).length)
    BY <1>9, <1>10, TurnDelete
  <2> QED
    BY <1>6, <1>10, <2>1
<1>12. Refilled(Log!Turn, Without(table, key), w)
  BY <1>1, <1>11, Refills DEF w
<1>13. Without(table, key) = Applied(table, records[n + 1])
  BY <1>3 DEF Applied, key
<1>14. w \o gone = f
  BY <1>7
<1> QED
  BY <1>1, <1>12, <1>13, <1>14, MovesOn

(* The file ends within a header.                                          *)
LEMMA HeaderCut ==
  ASSUME NEW n, NEW gone, NEW h, NEW v, NEW f, AtRecord(n, gone, h, v, f),
         ~(Len(log_buf) + Len(log_rest) >= Len(h))
  PROVE  /\ log_rest = << >> /\ Between(h, log_buf) \in Bytes /\ Between(h, log_buf) # << >>
         /\ h = log_buf \o Between(h, log_buf)
         /\ Len(log_buf) + Len(log_rest) < Len(h) + Len(v)
<1>1. /\ h \in Bytes /\ Len(h) \in 3 .. LogBuf /\ v \in Bytes /\ f \in Bytes
      /\ log_buf \in Bytes /\ log_rest \in Bytes /\ gone \in Bytes
      /\ Lies(gone, h, v, f) /\ Filled(log_buf, log_rest)
  <2>1. h \in Bytes /\ Len(h) \in 3 .. LogBuf
    BY RecordAt
  <2>2. v \in Bytes /\ f \in Bytes /\ log_buf \in Bytes /\ log_rest \in Bytes /\ gone \in Bytes
    BY RecordAt
  <2>3. Lies(gone, h, v, f) /\ Filled(log_buf, log_rest)
    BY RecordAt
  <2> QED
    BY <2>1, <2>2, <2>3
<1>2. Len(log_buf) \in Nat /\ Len(log_rest) \in Nat /\ Len(v) \in Nat /\ Len(h) \in Nat
  BY <1>1 DEF Bytes
<1>3. Len(log_buf) < Len(h) /\ Len(log_buf) # LogBuf
  BY <1>1, <1>2, Sizes
<1>4. log_rest = << >>
  BY <1>1, <1>3 DEF Filled
<1>5. Len(log_buf) + Len(log_rest) < Len(h) + Len(v)
  BY <1>2
<1> DEFINE w == log_rest \o gone
           g == v \o f
           m == Between(h, log_buf)
<1>6. w \in Bytes /\ g \in Bytes
  BY <1>1, Joined
<1>7. h \o g = log_buf \o w
  BY <1>1 DEF Lies
<1> HIDE DEF w, g
<1>8. After(h, g, log_buf, w)
  <2>1. Len(log_buf) <= Len(h)
    BY <1>2, <1>3
  <2> QED
    BY <1>1, <1>6, <1>7, <2>1 DEF After
<1>9. m \in Bytes /\ Len(m) = Len(h) - Len(log_buf) /\ h = log_buf \o m
  BY <1>8, Split
<1> HIDE DEF m
<1>10. m # << >>
  BY <1>2, <1>3, <1>9, Nothings
<1> QED
  BY <1>4, <1>5, <1>9, <1>10 DEF m

Marked(a, g, m) ==
  /\ a \in Bytes /\ Len(a) = 2 /\ g \in Bytes /\ m \in Bytes
  /\ log_buf \in Bytes /\ a \o g = log_buf \o m /\ ~(Len(log_buf) < 2)

(* A buffer that is shorter than a mark, or starts with it.                *)
LEMMA MarkFirst ==
  ASSUME NEW a, NEW g, NEW m, Marked(a, g, m)
  PROVE  /\ Between(log_buf, a) \in Bytes /\ log_buf = a \o Between(log_buf, a)
         /\ g = Between(log_buf, a) \o m
<1>1. Len(a) <= Len(log_buf)
  BY DEF Bytes, Marked
<1>2. After(log_buf, m, a, g)
  BY <1>1 DEF After, Marked
<1> QED
  BY <1>2, Split

(* The file ends within the header of an insertion ...                     *)
LEMMA InsertStops ==
  ASSUME NEW n, NEW gone, NEW h, NEW v, NEW f, AtRecord(n, gone, h, v, f),
         ~(Len(log_buf) + Len(log_rest) >= Len(h)), NEW r, r = records[n + 1], IsInsert(r)
  PROVE  Breaks(Log!Turn, n, gone)
<1> DEFINE H == HeaderOf(r)
           m == Between(h, log_buf)
           p == Between(log_buf, Insertion)
<1>1. /\ m \in Bytes /\ m # << >> /\ h = log_buf \o m
      /\ Len(log_buf) + Len(log_rest) < Len(h) + Len(v)
  BY HeaderCut
<1> HIDE DEF m
<1>2. log_buf \in Bytes
  BY RecordAt
<1>3. r.key \in Numeral /\ r.size \in Numeral /\ r.type = "I"
  BY DEF IsInsert
<1>4. h = Insertion \o H /\ H \in Bytes /\ H = Header(r.key, r.size)
  BY <1>3, HeaderIs DEF AtRecord, LogHeader, HeaderOf
<1>5. Log!Turn = Log!Fail
  <2>1. CASE Len(log_buf) < 2
    BY <2>1, TurnShort
  <2>2. CASE ~(Len(log_buf) < 2)
    <3> HIDE DEF H
    <3>1. Insertion \o H = log_buf \o m
      BY <1>1, <1>4
    <3>2. p \in Bytes /\ log_buf = Insertion \o p /\ H = p \o m
      <4>1. Marked(Insertion, H, m)
        BY <1>1, <1>2, <1>4, <2>2, <3>1, MarkIs DEF Marked
      <4> QED
        BY <4>1, MarkFirst
    <3> HIDE DEF p
    <3>3. ~ScanPair(p).ok
      BY <1>1, <1>3, <1>4, <3>2, ScanPart
    <3> QED
      BY <3>2, <3>3, TurnInsert
  <2> QED
    BY <2>1, <2>2
<1>6. Log!Turn.status = "error" /\ OneKey(Log!Turn.table, table)
  BY <1>5, FailIs, AppliedIsOneKey
<1> QED
  BY <1>1, <1>6, BreaksOff

(* ... and within a deletion, of whose key some digits may be left.        *)
LEMMA DeleteStops ==
  ASSUME NEW n, NEW gone, NEW h, NEW v, NEW f, AtRecord(n, gone, h, v, f),
         ~(Len(log_buf) + Len(log_rest) >= Len(h)), NEW r, r = records[n + 1], IsDelete(r)
  PROVE  Breaks(Log!Turn, n, gone)
<1> DEFINE key == r.key
           m == Between(h, log_buf)
           p == Between(log_buf, Deletion)
<1>1. /\ m \in Bytes /\ m # << >> /\ h = log_buf \o m /\ log_rest = << >>
      /\ Len(log_buf) + Len(log_rest) < Len(h) + Len(v)
  BY HeaderCut
<1> HIDE DEF m
<1>2. log_buf \in Bytes /\ Filled(log_buf, log_rest)
  BY RecordAt
<1>3. key \in Bytes /\ AllIn(key, Digit) /\ r.type = "D"
  BY NumeralIs DEF IsDelete
<1>4. h = Deletion \o key
  BY <1>3 DEF AtRecord, LogHeader
<1> HIDE DEF key
<1>5. Log!Turn.status \in {"done", "error"} /\ OneKey(Log!Turn.table, table)
  <2>0. Log!Turn = Log!Fail => Log!Turn.status = "error" /\ OneKey(Log!Turn.table, table)
    BY FailIs, AppliedIsOneKey
  <2>1. CASE Len(log_buf) < 2
    BY <2>0, <2>1, TurnShort
  <2>2. CASE ~(Len(log_buf) < 2)
    <3>1. Deletion \o key = log_buf \o m
      BY <1>1, <1>4
    <3>2. p \in Bytes /\ log_buf = Deletion \o p /\ key = p \o m
      <4>1. Marked(Deletion, key, m)
        BY <1>1, <1>2, <1>3, <2>2, <3>1, MarkIs DEF Marked
      <4> QED
        BY <4>1, MarkFirst
    <3> HIDE DEF p
    <3>3. AllIn(p, Digit)
      BY <1>1, <1>3, <3>2, PartIn
    <3>4. CASE p = << >>
      <4>1. StartsOut(<< >>, Digit) /\ << >> \in Bytes /\ p \o << >> = p
        BY <3>2, Nothings DEF StartsOut
      <4>2. ~ScanU(p).ok
        BY <3>2, <3>3, <3>4, <4>1, ScanDigits
      <4> QED
        BY <2>0, <3>2, <4>2, TurnDelete
    <3>5. CASE p # << >>
      <4>1. StartsOut(<< >>, Digit) /\ << >> \in Bytes /\ p \o << >> = p
        BY <3>2, Nothings DEF StartsOut
      <4>2. ScanU(p).ok /\ ScanU(p).length = Len(p) /\ ScanU(p).digits = p
        <5>1. /\ ScanU(p \o << >>).ok = (p # << >>) /\ ScanU(p \o << >>).length = Len(p)
              /\ ScanU(p \o << >>).digits = p
          BY <3>2, <3>3, <3>5, <4>1, ScanDigits
        <5> QED
          BY <3>5, <4>1, <5>1
      <4>3. Len(log_buf) = 2 + Len(p)
        <5>1. Len(Deletion \o p) = Len(Deletion) + Len(p)
          BY <3>2, MarkIs, Joined
        <5> QED
          BY <3>2, <5>1, MarkIs
      <4>4. Log!Turn = Log!Refill(Without(table, p), Len(log_buf))
        <5>1. Log!Turn = Log!Refill(Without(table, ScanU(p).digits), 2 + ScanU(p).length)
          BY <3>2, <4>2, TurnDelete
        <5> QED
          BY <4>2, <4>3, <5>1
      <4>5. AtPart(log_buf, << >>) /\ << >> \o log_rest = << >>
        BY <1>1, <1>2, Nothings DEF AtPart
      <4> DEFINE next == Log!Turn
      <4>6. Refilled(next, Without(table, p), << >>)
        <5>1. Refilled(Log!Refill(Without(table, p), Len(log_buf)), Without(table, p), << >> \o log_rest)
          BY <4>5, Refills
        <5> QED
          BY <4>4, <4>5, <5>1
      <4> HIDE DEF next
      <4>7. next.status = "done" /\ next.table = Without(table, p)
        <5> DEFINE b == next.buf
                   r2 == next.rest
        <5>1. b \in Bytes /\ r2 \in Bytes /\ b \o r2 = << >>
          BY <4>6 DEF Refilled, Filled
        <5> HIDE DEF b, r2
        <5>2. b = << >>
          BY <5>1, First
        <5> QED
          BY <4>6, <5>2 DEF Refilled, b
      <4> QED
        BY <4>7, AppliedIsOneKey DEF next
    <3> QED
      BY <3>4, <3>5
  <2> QED
    BY <2>1, <2>2
<1> QED
  BY <1>1, <1>5, BreaksOff

(* One turn of process_hash_log, if no byte of the file was changed.       *)
LEMMA LogTurn ==
  ASSUME records \in Seq(Records), NEW n, NEW gone, AtLog(log_buf, log_rest, n, gone),
         log_buf # << >>
  PROVE  n \in 0 .. Len(records) - 1 /\ (Moves(Log!Turn, n, gone) \/ Breaks(Log!Turn, n, gone))
<1>1. n \in 0 .. Len(records) /\ Len(records) \in Nat
  BY LogRestIs DEF AtLog
<1>2. n # Len(records)
  <2> SUFFICES ASSUME n = Len(records) PROVE FALSE
    OBVIOUS
  <2>1. log_buf \in Bytes /\ log_rest \in Bytes /\ gone \in Bytes
        /\ (log_buf \o log_rest) \o gone = Log!Rest(records, n)
    BY DEF AtLog, Filled
  <2>2. Log!Rest(records, n) = << >>
    BY LogRestIs
  <2>3. log_buf \o log_rest \in Bytes /\ log_buf \o log_rest # << >>
    BY <2>1, First, Joined
  <2> QED
    BY <2>1, <2>2, <2>3, First
<1>3. n \in 0 .. Len(records) - 1
  BY <1>1, <1>2
<1> DEFINE h == LogHeader(records[n + 1])
           v == Body(records[n + 1])
           f == Log!Rest(records, n + 1)
<1>4. AtRecord(n, gone, h, v, f)
  BY <1>3 DEF AtRecord
<1>5. IsInsert(records[n + 1]) \/ IsDelete(records[n + 1])
  BY <1>3, LogRestIs, RecordIs
<1> HIDE DEF h, v, f
<1> QED
  BY <1>3, <1>4, <1>5, InsertTurns, DeleteTurns, InsertStops, DeleteStops

(* The file is read to where it ends behind a record, or within one.       *)
LEMMA EndsAt ==
  ASSUME records \in Seq(Records), NEW n, NEW gone, AtLog(<< >>, << >>, n, gone)
  PROVE  Log!Whole = n /\ (damage = "none" => n = Len(records))
<1>1. /\ n \in 0 .. Len(records) /\ gone \in Bytes /\ (<< >> \o << >>) \o gone = Log!Rest(records, n)
      /\ length \in Int /\ Len(gone) = Len(Log!File(records)) - length
      /\ damage = "none" => gone = << >>
  BY DEF AtLog
<1>2. gone = Log!Rest(records, n)
  BY <1>1, Nothings
<1>3. Len(records) \in Nat /\ Len(gone) \in Nat
  BY <1>1, LogRestIs DEF Bytes
<1>4. n < Len(records) => Len(Log!Rest(records, n + 1)) < Len(gone)
  <2> SUFFICES ASSUME n < Len(records) PROVE Len(Log!Rest(records, n + 1)) < Len(gone)
    OBVIOUS
  <2>1. n \in 0 .. Len(records) - 1
    BY <1>1, <1>3
  <2> QED
    BY <1>2, <2>1, RestNext
<1>5. Len(Log!Rest(records, n)) >= Len(gone)
  BY <1>2, <1>3
<1>6. Log!Whole = n
  BY <1>1, <1>4, <1>5, WholeIs
<1>7. gone = << >> => n = Len(records)
  <2> SUFFICES ASSUME gone = << >>, n # Len(records) PROVE FALSE
    OBVIOUS
  <2>1. n \in 0 .. Len(records) - 1
    BY <1>1, <1>3
  <2>2. Len(Log!Rest(records, n + 1)) < 0 /\ Len(Log!Rest(records, n + 1)) \in Nat
    BY <1>2, <2>1, Nothings, RestNext
  <2> QED
    BY <2>2
<1> QED
  BY <1>1, <1>6, <1>7

(* The file ends within the record behind the n-th, if fewer bytes are     *)
(* behind it.                                                              *)
LEMMA BreaksAt ==
  ASSUME records \in Seq(Records), NEW b, NEW r, NEW n, NEW gone, AtLog(b, r, n, gone),
         n \in 0 .. Len(records) - 1, Len(Log!Rest(records, n + 1)) < Len(gone)
  PROVE  Log!Whole = n
<1>1. /\ n \in 0 .. Len(records) /\ gone \in Bytes /\ b \in Bytes /\ r \in Bytes
      /\ (b \o r) \o gone = Log!Rest(records, n)
      /\ length \in Int /\ Len(gone) = Len(Log!File(records)) - length
  BY DEF AtLog, Filled
<1>2. b \o r \in Bytes
  BY <1>1, Joined
<1> DEFINE c == b \o r
<1> HIDE DEF c
<1>3. Len(c \o gone) = Len(c) + Len(gone) /\ Len(c) \in Nat /\ Len(gone) \in Nat
  BY <1>1, <1>2, Joined DEF c
<1>4. Len(Log!Rest(records, n)) >= Len(gone)
  BY <1>1, <1>3 DEF c
<1> QED
  BY <1>1, <1>4, WholeIs

(* If what is gone begins in a value, the file ends in it.                 *)
LEMMA CutsValue ==
  ASSUME records \in Seq(Records), NEW b, NEW r, NEW n, NEW gone, AtLog(b, r, n, gone),
         n \in 0 .. Len(records) - 1, Len(Log!Rest(records, n + 1)) < Len(gone),
         damage = "cut", InValue(n, gone)
  PROVE  Log!CutInValue
<1>1. Log!Whole = n
  BY BreaksAt
<1>2. length \in Int /\ Len(gone) = Len(Log!File(records)) - length /\ gone \in Bytes
  BY DEF AtLog
<1>3. Len(records) \in Nat /\ n < Len(records) /\ n + 1 \in 0 .. Len(records)
      /\ 0 \in 0 .. Len(records)
  BY LogRestIs
<1>4. /\ Log!Rest(records, n + 1) \in Bytes /\ records[n + 1] \in Records
      /\ Log!File(records) \in Bytes
  <2>1. Log!Rest(records, n + 1) \in Bytes /\ records[n + 1] \in Records
    BY <1>3, LogRestIs
  <2>2. Log!Rest(records, 0) \in Bytes
    BY <1>3, LogRestIs
  <2> QED
    BY <2>1, <2>2 DEF Log!File
<1>5. records[n + 1].type = "I" /\ Body(records[n + 1]) = records[n + 1].value
      /\ Body(records[n + 1]) \in Bytes
  BY <1>4, LogHeaderIs DEF InValue, Body
<1>6. Len(gone) <= Len(records[n + 1].value) + Len(Log!Rest(records, n + 1))
  BY <1>5 DEF InValue
<1> DEFINE L == Len(Log!File(records))
           l == Len(Log!Rest(records, n + 1))
           k == Len(records[n + 1].value)
<1>7. L \in Nat /\ l \in Nat /\ k \in Nat
  BY <1>4, <1>5 DEF Bytes
<1>8. Len(gone) = L - length /\ Len(gone) <= k + l
  BY <1>2, <1>6
<1>9. Log!Start(n + 1) = L - l
  BY DEF Log!Start
<1> HIDE DEF L, l, k
<1>10. length >= Log!Start(n + 1) - k
  BY <1>2, <1>7, <1>8, <1>9
<1> QED
  BY <1>1, <1>3, <1>5, <1>10 DEF Log!CutInValue, k

(* A record of unknown type is looked at again.                            *)
LEMMA GarbledTurn ==
  ASSUME Filled(log_buf, log_rest), log_buf # << >>, log_buf[1] = Other,
         NEW next, next = Log!Turn, next.status # "error"
  PROVE  /\ next.status = "reading"
         /\ Filled(next.buf, next.rest) /\ next.buf # << >> /\ next.buf[1] = Other
<1>1. ~(Len(log_buf) < 2 \/ log_buf[2] # Blank)
  <2> SUFFICES ASSUME Len(log_buf) < 2 \/ log_buf[2] # Blank PROVE FALSE
    OBVIOUS
  <2>1. Log!Turn = Log!Fail
    BY LogScans, Zenon DEF Log!Turn
  <2> QED
    BY <2>1, FailIs
<1>2. Log!Turn = Log!Refill(table, 0)
  <2>1. log_buf[1] # I /\ log_buf[1] # D
    BY DEF I, D, Other
  <2> QED
    BY <1>1, <2>1, LogScans, Zenon DEF Log!Turn
<1>3. log_buf \in Bytes /\ log_rest \in Bytes
  BY DEF Filled
<1>4. AtPart(<< >>, log_buf) /\ Len(<< >>) = 0
  BY <1>3, Nothings DEF AtPart
<1>5. Refilled(next, table, log_buf \o log_rest)
  <2>1. Refilled(Log!Refill(table, Len(<< >>)), table, log_buf \o log_rest)
    BY <1>4, Refills
  <2> QED
    BY <1>2, <1>4, <2>1
<1> DEFINE b == next.buf
           r == next.rest
<1>6. /\ Filled(b, r) /\ b \o r = log_buf \o log_rest /\ b \in Bytes /\ r \in Bytes
      /\ next.status = IF b = << >> THEN "done" ELSE "reading"
  BY <1>5 DEF Refilled, Filled
<1>6a. b # << >>
  <2> SUFFICES ASSUME b = << >> PROVE FALSE
    OBVIOUS
  <2>1. Len(b) = LogBuf \/ r = << >>
    BY <1>6 DEF Filled
  <2>2. r = << >>
    <3>1. Len(log_buf) <= LogBuf /\ Len(log_buf) \in Nat /\ Len(log_buf) # 0 /\ Len(b) = 0
      BY <1>3, Nothings DEF Filled, Bytes
    <3> QED
      BY <2>1, <3>1, Sizes
  <2>3. log_buf \o log_rest = << >>
    BY <1>6, <2>2, Nothings
  <2> QED
    BY <1>3, <2>3, First
<1> HIDE DEF b, r
<1>7. (b \o r)[1] = b[1] /\ (log_buf \o log_rest)[1] = log_buf[1]
  BY <1>3, <1>6, <1>6a, First
<1> QED
  BY <1>6, <1>6a, <1>7 DEF b, r

-----------------------------------------------------------------------------
(* What is known of the log while it is read, and then.                    *)

LogInv ==
  /\ records \in Seq(Records) /\ damage \in {"none", "cut", "garbled"}
  /\ log_status = "reading" => log_buf # << >>
  /\ log_status = "reading" /\ damage = "garbled" =>
       Filled(log_buf, log_rest) /\ log_buf[1] = Other
  /\ log_status = "reading" /\ damage # "garbled" =>
       \E n, gone : AtLog(log_buf, log_rest, n, gone)
  /\ log_status = "crash" => Log!CutInValue

(* Table t is what the records that were read make of table b.             *)
LogPhase(t, b) ==
  /\ log_status = "reading" /\ damage # "garbled" =>
       \E n, gone : AtLog(log_buf, log_rest, n, gone) /\ t = ReplayedOf(records, b, n)
  /\ log_status # "reading" /\ damage = "none" =>
       log_status = "done" /\ t = ReplayedOf(records, b, Len(records))
  /\ log_status # "reading" /\ damage = "cut" => OneKey(t, ReplayedOf(records, b, Log!Whole))

(* What is said of the buffer holds as long as records and file do.        *)
LEMMA SameLog ==
  ASSUME records' = records, length' = length, damage' = damage
  PROVE  /\ Log!Whole' = Log!Whole /\ (Log!CutInValue => Log!CutInValue')
         /\ \A b, r, n, gone : AtLog(b, r, n, gone) => AtLog(b, r, n, gone)'
<1>1. Log!Whole' = Log!Whole
  BY DEF Log!Whole, Log!Start, Log!File
<1>2. \A b, r, n, gone : AtLog(b, r, n, gone) => AtLog(b, r, n, gone)'
  BY DEF AtLog, Log!File, Filled
<1>3. Log!CutInValue => Log!CutInValue'
  BY <1>1 DEF Log!CutInValue, Log!Start, Log!File
<1> QED
  BY <1>1, <1>2, <1>3

(* A turn of process_hash_log keeps what is known of the log.              *)
LEMMA LogStep ==
  ASSUME LogInv, Log!ReadRecord, NEW b, LogPhase(table, b)
  PROVE  LogInv' /\ LogPhase(table, b)'
<1> DEFINE next == Log!Turn
<1>1. /\ log_status = "reading" /\ log_buf' = next.buf /\ log_rest' = next.rest
      /\ table' = next.table /\ log_status' = next.status
      /\ records' = records /\ length' = length /\ damage' = damage
  BY DEF Log!ReadRecord
<1>2. /\ records \in Seq(Records) /\ damage \in {"none", "cut", "garbled"} /\ log_buf # << >>
  BY <1>1 DEF LogInv
<1> HIDE DEF next
<1>3. CASE damage = "garbled"
  <2>1. Filled(log_buf, log_rest) /\ log_buf[1] = Other
    BY <1>1, <1>3 DEF LogInv
  <2>2. next.status # "error" =>
          /\ next.status = "reading"
          /\ Filled(next.buf, next.rest) /\ next.buf # << >> /\ next.buf[1] = Other
    BY <1>2, <2>1, GarbledTurn DEF next
  <2>3. /\ log_status' # "crash"
        /\ log_status' = "reading" =>
             log_buf' # << >> /\ log_buf'[1] = Other /\ Filled(log_buf', log_rest')
    BY <1>1, <2>2
  <2>4. LogInv'
    BY <1>1, <1>2, <1>3, <2>3 DEF LogInv, Filled
  <2>5. LogPhase(table, b)'
    BY <1>1, <1>3 DEF LogPhase
  <2> QED
    BY <2>4, <2>5
<1>4. CASE damage # "garbled"
  <2>1. PICK n, gone : AtLog(log_buf, log_rest, n, gone) /\ table = ReplayedOf(records, b, n)
    BY <1>1, <1>4 DEF LogPhase
  <2>2. n \in 0 .. Len(records) - 1 /\ (Moves(next, n, gone) \/ Breaks(next, n, gone))
    BY <1>2, <2>1, LogTurn DEF next
  <2>3. CASE Moves(next, n, gone)
    <3>1. /\ next.table = Applied(table, records[n + 1]) /\ AtLog(next.buf, next.rest, n + 1, gone)
          /\ next.status = IF next.buf = << >> THEN "done" ELSE "reading"
      BY <2>3 DEF Moves
    <3>2. table' = ReplayedOf(records, b, n + 1)
      <4>1. n \in Nat
        BY <2>2
      <4> QED
        BY <1>1, <2>1, <3>1, <4>1, ReplayedStep
    <3>3. CASE next.buf = << >>
      <4>1. log_status' = "done"
        BY <1>1, <3>1, <3>3
      <4>2. next.rest = << >>
        <5>1. records[n + 1] \in Records
          BY <1>2, <2>2, LogRestIs
        <5>2. LogBuf > 0
          BY <5>1, LogHeaderIs, Sizes
        <5>3. Len(next.buf) = LogBuf \/ next.rest = << >>
          BY <3>1 DEF AtLog, Filled
        <5> QED
          BY <3>3, <5>2, <5>3, Nothings
      <4>3. AtLog(<< >>, << >>, n + 1, gone)
        BY <3>1, <3>3, <4>2
      <4>4. Log!Whole = n + 1 /\ (damage = "none" => n + 1 = Len(records))
        BY <1>2, <4>3, EndsAt
      <4>5. LogInv'
        BY <1>1, <1>2, <4>1 DEF LogInv
      <4>6. Log!Whole' = n + 1
        BY <1>1, <4>4, SameLog
      <4>7. LogPhase(table, b)'
        BY <1>1, <3>2, <4>1, <4>4, <4>6, AppliedIsOneKey DEF LogPhase
      <4> QED
        BY <4>5, <4>7
    <3>4. CASE next.buf # << >>
      <4>1. log_status' = "reading" /\ log_buf' # << >>
        BY <1>1, <3>1, <3>4
      <4>2. AtLog(log_buf, log_rest, n + 1, gone)'
        BY <1>1, <3>1 DEF AtLog, Log!File, Filled
      <4>3. LogInv'
        BY <1>1, <1>2, <1>4, <4>1, <4>2 DEF LogInv
      <4>4. LogPhase(table, b)'
        BY <1>1, <3>2, <4>1, <4>2 DEF LogPhase
      <4> QED
        BY <4>3, <4>4
    <3> QED
      BY <3>3, <3>4
  <2>4. CASE Breaks(next, n, gone)
    <3>1. /\ next.status # "reading" /\ OneKey(next.table, table) /\ gone # << >>
          /\ Len(Log!Rest(records, n + 1)) < Len(gone)
          /\ next.status = "crash" => InValue(n, gone)
      BY <2>4 DEF Breaks
    <3>2. damage = "cut"
      <4>1. damage = "none" => gone = << >>
        BY <2>1 DEF AtLog
      <4> QED
        BY <1>2, <1>4, <3>1, <4>1
    <3>3. Log!Whole' = n
      BY <1>1, <1>2, <2>1, <2>2, <3>1, BreaksAt, SameLog
    <3>4. LogInv'
      <4>1. ASSUME log_status' = "crash" PROVE Log!CutInValue'
        <5>1. Log!CutInValue
          BY <1>1, <1>2, <2>1, <2>2, <3>1, <3>2, <4>1, CutsValue
        <5> QED
          BY <1>1, <5>1, SameLog
      <4> QED
        BY <1>1, <1>2, <3>1, <4>1 DEF LogInv
    <3>5. OneKey(table', ReplayedOf(records, b, n))
      BY <1>1, <2>1, <3>1
    <3>6. LogPhase(table, b)'
      BY <1>1, <3>1, <3>2, <3>3, <3>5 DEF LogPhase
    <3> QED
      BY <3>4, <3>6
  <2> QED
    BY <2>2, <2>3, <2>4
<1> QED
  BY <1>3, <1>4

(* The log is opened.                                                      *)
Leaves(g, f, d) ==
  /\ f \in Bytes
  /\ d # "garbled" => \E gone \in Bytes : g = f \o gone /\ (d = "none" => gone = << >>)
  /\ d = "garbled" => g # << >> /\ f # << >> /\ f[1] = Other

(* What has become of the file that was written.                           *)
LEMMA FoundIs ==
  ASSUME NEW d \in {"none", "cut", "garbled"}, NEW g \in Bytes, NEW f, f \in Log!Found(g, d)
  PROVE  Leaves(g, f, d)
<1>1. CASE d = "none"
  <2>1. f = g
    BY <1>1 DEF Log!Found
  <2> QED
    BY <1>1, <2>1, Nothings DEF Leaves
<1>2. CASE d = "cut"
  <2>1. f \in {Log!Take(g, n) : n \in 0 .. Len(g)}
    BY <1>2 DEF Log!Found
  <2>2. PICK n \in 0 .. Len(g) : f = Take(g, n)
    BY <2>1, LogScans
  <2>3. n \in Nat
    BY <2>2
  <2>4. Take(g, n) \in Bytes /\ From(g, n + 1) \in Bytes /\ g = Take(g, n) \o From(g, n + 1)
    BY <2>3, Parted
  <2> QED
    BY <1>2, <2>2, <2>4 DEF Leaves
<1>3. CASE d = "garbled"
  <2>1. f \in IF g = << >> THEN {} ELSE {[g EXCEPT ![1] = Log!Other]}
    BY <1>3 DEF Log!Found
  <2>2. g # << >> /\ f = [g EXCEPT ![1] = Other]
    BY <2>1, LogScans
  <2>3. g \in Seq(Int) /\ Len(g) \in Nat /\ Len(g) # 0 /\ Other \in Int
    BY <2>2, Nothings DEF Bytes, Other
  <2>4. 1 \in 1 .. Len(g)
    BY <2>3
  <2>5. f \in Seq(Int) /\ Len(f) = Len(g) /\ f[1] = Other
    BY <2>2, <2>3, <2>4
  <2>6. f \in Bytes /\ f # << >>
    BY <2>3, <2>5, Nothings DEF Bytes
  <2> QED
    BY <1>3, <2>2, <2>5, <2>6 DEF Leaves
<1> QED
  BY <1>1, <1>2, <1>3

(* The log is opened.                                                      *)
LEMMA LogOpens ==
  ASSUME NEW rs \in Seq(Records), NEW d \in {"none", "cut", "garbled"}, Log!Open(rs, d)
  PROVE  LogInv /\ \A t : t = [k \in DOMAIN t |-> t[k]] => LogPhase(t, t)
<1> DEFINE g == Log!File(records)
<1>1. records = rs /\ damage = d
  BY DEF Log!Open
<1>2. PICK f \in Log!Found(g, damage) :
        /\ length = Len(f) /\ log_buf = Log!Take(f, LogBuf) /\ log_rest = Log!From(f, LogBuf + 1)
        /\ log_status = IF f = << >> THEN "done" ELSE "reading"
  BY DEF Log!Open
<1>3. records \in Seq(Records) /\ damage \in {"none", "cut", "garbled"}
  BY <1>1
<1>4. Len(records) \in Nat /\ 0 \in 0 .. Len(records) /\ g = Log!Rest(records, 0) /\ g \in Bytes
  <2>1. Len(records) \in Nat /\ 0 \in 0 .. Len(records)
    BY <1>3
  <2> QED
    BY <1>3, <2>1, LogRestIs, Zenon DEF Log!File
<1>5. g # << >> => LogBuf > 0
  <2> SUFFICES ASSUME g # << >> PROVE LogBuf > 0
    OBVIOUS
  <2>1. Len(records) # 0
    BY <1>3, <1>4, LogRestIs
  <2>2. 0 \in 0 .. Len(records) - 1
    BY <1>4, <2>1
  <2>3. records[0 + 1] \in Records
    BY <1>3, <2>2, LogRestIs
  <2> QED
    BY <2>3, LogHeaderIs, Sizes
<1>6. log_buf = Take(f, LogBuf) /\ log_rest = From(f, LogBuf + 1)
  BY <1>2, LogScans
<1> HIDE DEF g
<1>7. /\ f \in Bytes
      /\ damage # "garbled" => \E gone \in Bytes : g = f \o gone /\ (damage = "none" => gone = << >>)
      /\ damage = "garbled" => g # << >> /\ f # << >> /\ f[1] = Other
  <2>1. Leaves(g, f, damage)
    BY <1>2, <1>3, <1>4, FoundIs
  <2> QED
    BY <2>1 DEF Leaves
<1>8. /\ Filled(log_buf, log_rest) /\ log_buf \o log_rest = f
      /\ LogBuf > 0 => (log_buf = << >> <=> f = << >>)
  BY <1>6, <1>7, FirstFill
<1>9. log_status = "reading" => f # << >>
  BY <1>2
<1>10. f # << >> => g # << >>
  <2>1. CASE damage = "garbled"
    BY <1>7, <2>1
  <2>2. CASE damage # "garbled"
    <3>1. PICK gone \in Bytes : g = f \o gone
      BY <1>7, <2>2
    <3> QED
      BY <1>7, <3>1, First
  <2> QED
    BY <2>1, <2>2
<1>11. log_status = "reading" => log_buf # << >>
  BY <1>5, <1>8, <1>9, <1>10
<1>12. ASSUME log_status = "reading", damage = "garbled" PROVE log_buf[1] = Other
  <2>1. log_buf \in Bytes /\ log_rest \in Bytes /\ log_buf # << >>
    BY <1>8, <1>11, <1>12 DEF Filled
  <2>2. (log_buf \o log_rest)[1] = log_buf[1]
    BY <2>1, First
  <2> QED
    BY <1>7, <1>8, <1>12, <2>2
<1>13. damage # "garbled" => \E gone : AtLog(log_buf, log_rest, 0, gone)
  <2> SUFFICES ASSUME damage # "garbled" PROVE \E gone : AtLog(log_buf, log_rest, 0, gone)
    OBVIOUS
  <2>1. PICK gone \in Bytes : g = f \o gone /\ (damage = "none" => gone = << >>)
    BY <1>7
  <2>2. Len(f \o gone) = Len(f) + Len(gone) /\ Len(f) \in Nat /\ Len(gone) \in Nat
    BY <1>7, <2>1, Joined
  <2>3. length \in Int /\ Len(gone) = Len(g) - length
    BY <1>2, <2>1, <2>2
  <2>4. (log_buf \o log_rest) \o gone = Log!Rest(records, 0)
    BY <1>4, <1>8, <2>1
  <2>5. AtLog(log_buf, log_rest, 0, gone)
    BY <1>4, <1>8, <2>1, <2>3, <2>4 DEF AtLog, g
  <2> QED
    BY <2>5
<1>14. LogInv
  BY <1>2, <1>3, <1>8, <1>11, <1>12, <1>13 DEF LogInv
<1>15. ASSUME NEW t, t = [k \in DOMAIN t |-> t[k]] PROVE LogPhase(t, t)
  <2>1. ReplayedOf(records, t, 0) = t
    BY <1>15, ReplayedNone
  <2>2. CASE log_status = "reading"
    BY <1>13, <2>1, <2>2 DEF LogPhase
  <2>3. CASE log_status # "reading"
    <3>1. f = << >> /\ log_status = "done"
      BY <1>2, <2>3
    <3>2. log_buf = << >> /\ log_rest = << >>
      <4>1. log_buf \in Bytes /\ log_rest \in Bytes /\ log_buf \o log_rest = << >>
        BY <1>8, <3>1 DEF Filled
      <4>2. log_buf = << >>
        BY <4>1, First
      <4> QED
        BY <4>1, <4>2, Nothings
    <3>3. damage # "garbled" => Log!Whole = 0 /\ (damage = "none" => 0 = Len(records))
      BY <1>3, <1>13, <3>2, EndsAt
    <3> QED
      BY <2>1, <2>3, <3>1, <3>3, AppliedIsOneKey DEF LogPhase
  <2> QED
    BY <2>2, <2>3
<1> QED
  BY <1>14, <1>15

-----------------------------------------------------------------------------
(* The inductive invariant.                                                *)

(* The backup is read: aux is at an entry, or a part was carried over and  *)
(* is not scanned; and the log is as it was opened.                        *)
BackupInv ==
  /\ saved \in Seq(Entries) /\ Backup!Distinct(saved) /\ carried \in BOOLEAN
  /\ backup_status \in {"reading", "done"}
  /\ backup_status = "reading" /\ ~carried =>
       /\ buf2 = Memory(<< >>, BackupBuf + 1)
       /\ HoldsEntry(saved, backup_buf, aux, backup_rest, table)
  /\ backup_status = "reading" /\ carried =>
       aux = 0 /\ CannotScan(backup_buf) /\ HasReached

(* The log is read over what the backup gave.                              *)
Phase ==
  /\ backup_status = "reading" =>
       \A n \in 0 .. Len(saved) : LogPhase(SavedOf(saved, n), SavedOf(saved, n))
  /\ backup_status = "done" => LogPhase(table, Base)

IInv == BackupInv /\ LogInv /\ Phase

(* What create_hash_from_backup makes of the backup, also of the entries   *)
(* of the next state, which are those of this one.                         *)
LEMMA BaseIs == Base = SavedOf(saved, Backup!Reached)
  BY DEF Base, Backup!Saved, SavedOf

LEMMA BaseNext ==
  ASSUME saved' = saved
  PROVE  Base' = Base /\ Backup!Reached' = Backup!Reached /\ (HasReached /\ table' = table => HasReached')
<1>1. Backup!Reached' = Backup!Reached
  BY DEF Backup!Reached
<1>2. Base' = Base
  BY <1>1 DEF Base, Backup!Saved
<1>3. HasReached /\ table' = table => HasReached'
  BY <1>1 DEF HasReached, SavedOf
<1> QED
  BY <1>1, <1>2, <1>3

(* The second buffer, before anything is written to it.                    *)
LEMMA JunkIs ==
  /\ IsBuffer(Memory(<< >>, BackupBuf + 1))
  /\ \A j \in 1 .. BackupBuf + 1 : Memory(<< >>, BackupBuf + 1)[j] = Junk
<1>1. << >> \in Bytes /\ Len(<< >>) = 0 /\ BackupBuf + 1 \in Nat
  BY Nothings, Sizes
<1> DEFINE m == Memory(<< >>, BackupBuf + 1)
<1>2. /\ m \in Bytes /\ Len(m) = BackupBuf + 1
      /\ \A i \in 1 .. BackupBuf + 1 : m[i] = IF i <= Len(<< >>) THEN << >>[i] ELSE Junk
  BY <1>1, MemoryIs
<1> HIDE DEF m
<1>3. \A i \in 1 .. BackupBuf + 1 : ~(i <= Len(<< >>))
  BY <1>1, Sizes
<1> QED
  BY <1>2, <1>3 DEF IsBuffer, m

(* A turn of create_hash_from_backup keeps what is known of the backup.    *)
LEMMA BackupStep ==
  ASSUME BackupInv, Backup!ReadEntry
  PROVE  /\ BackupInv'
         /\ backup_status' = "done" => HasReached /\ table' = table
<1> DEFINE next == Backup!Turn
<1>1. /\ backup_status = "reading" /\ backup_buf' = next.buf /\ buf2' = next.buf2 /\ aux' = next.aux
      /\ backup_rest' = next.rest /\ table' = next.table /\ backup_status' = next.status
      /\ saved' = saved
  BY DEF Backup!ReadEntry
<1>2. carried' = (carried \/ (next.status = "done" /\ backup_rest # << >>) \/ buf2' # buf2)
  BY DEF Backup!ReadEntry
<1>3. saved \in Seq(Entries) /\ Backup!Distinct(saved) /\ carried \in BOOLEAN
  BY DEF BackupInv
<1> HIDE DEF next
<1>4. carried' \in BOOLEAN /\ saved' \in Seq(Entries) /\ Backup!Distinct(saved)'
  BY <1>1, <1>2, <1>3 DEF Backup!Distinct
<1>5. CASE ~carried
  <2>1. buf2 = Memory(<< >>, BackupBuf + 1) /\ HoldsEntry(saved, backup_buf, aux, backup_rest, table)
    BY <1>1, <1>5 DEF BackupInv
  <2>2. IsBuffer(buf2)
    BY <2>1, JunkIs
  <2>3. \/ GoesOn(next)
        \/ Stops(next) /\ HasReached
        \/ /\ Carries(next) /\ HasReached
           /\ \E j \in 1 .. BackupBuf + 1 : backup_buf[j] = Zero
    BY <1>3, <2>1, <2>2, TurnIs DEF next
  <2>4. CASE GoesOn(next)
    <3>1. /\ backup_status' = "reading" /\ buf2' = buf2
          /\ HoldsEntry(saved, next.buf, next.aux, next.rest, next.table)
      BY <1>1, <2>4 DEF GoesOn
    <3>2. ~carried'
      BY <1>1, <1>2, <1>5, <3>1
    <3>3. HoldsEntry(saved, backup_buf, aux, backup_rest, table)'
      BY <1>1, <3>1 DEF HoldsEntry, Holds
    <3>4. BackupInv'
      BY <1>4, <2>1, <3>1, <3>2, <3>3 DEF BackupInv
    <3> QED
      BY <3>1, <3>4
  <2>5. CASE Stops(next) /\ HasReached
    <3>1. backup_status' = "done" /\ table' = table
      BY <1>1, <2>5 DEF Stops
    <3>2. BackupInv'
      BY <1>4, <3>1 DEF BackupInv
    <3> QED
      BY <2>5, <3>1, <3>2
  <2>6. CASE /\ Carries(next) /\ HasReached
             /\ \E j \in 1 .. BackupBuf + 1 : backup_buf[j] = Zero
    <3>1. /\ backup_status' = "reading" /\ buf2' = backup_buf /\ aux' = 0 /\ table' = table
          /\ CannotScan(next.buf)
      BY <1>1, <2>6 DEF Carries
    <3>2. buf2' # buf2
      <4>1. PICK j \in 1 .. BackupBuf + 1 : backup_buf[j] = Zero
        BY <2>6
      <4>2. buf2[j] = Junk /\ Junk # Zero
        BY <2>1, JunkIs DEF Junk, Zero
      <4> QED
        BY <3>1, <4>1, <4>2
    <3>3. carried'
      BY <1>2, <3>2
    <3>4. CannotScan(backup_buf)'
      BY <1>1, <3>1 DEF CannotScan, Backup!TextFrom
    <3>5. HasReached'
      BY <1>1, <2>6, <3>1, BaseNext
    <3>6. BackupInv'
      BY <1>4, <3>1, <3>3, <3>4, <3>5 DEF BackupInv
    <3> QED
      BY <3>1, <3>6
  <2> QED
    BY <2>3, <2>4, <2>5, <2>6
<1>6. CASE carried
  <2>1. aux = 0 /\ CannotScan(backup_buf) /\ HasReached
    BY <1>1, <1>6 DEF BackupInv
  <2>2. Stops(next)
    BY <2>1, CarriedTurn DEF next
  <2>3. backup_status' = "done" /\ table' = table /\ carried'
    BY <1>1, <1>2, <1>6, <2>2 DEF Stops
  <2>4. BackupInv'
    BY <1>4, <2>3 DEF BackupInv
  <2> QED
    BY <2>1, <2>3, <2>4
<1> QED
  BY <1>3, <1>5, <1>6

(* What is known of the log holds while the backup is read.                *)
LEMMA SameLogInv ==
  ASSUME UNCHANGED log
  PROVE  (LogInv => LogInv') /\ \A t, b : LogPhase(t, b) => LogPhase(t, b)'
<1>1. /\ records' = records /\ damage' = damage /\ length' = length
      /\ log_rest' = log_rest /\ log_buf' = log_buf /\ log_status' = log_status
  BY DEF log
<1>2. \A b, r, n, gone : AtLog(b, r, n, gone) => AtLog(b, r, n, gone)'
  BY <1>1, SameLog
<1>3. \A n, gone : AtLog(log_buf, log_rest, n, gone) => AtLog(log_buf, log_rest, n, gone)'
  BY <1>1, <1>2 DEF AtLog, Filled, Log!File
<1>4. Log!Whole' = Log!Whole /\ (Log!CutInValue => Log!CutInValue')
  BY <1>1, SameLog
<1>5. LogInv => LogInv'
  BY <1>1, <1>3, <1>4 DEF LogInv, Filled
<1>6. ASSUME NEW t, NEW b, LogPhase(t, b) PROVE LogPhase(t, b)'
  BY <1>1, <1>3, <1>4, <1>6 DEF LogPhase
<1> QED
  BY <1>5, <1>6

(* The two files are of entries and of records.                            *)
LEMMA TypedFiles ==
  ASSUME NEW file \in Files
  PROVE  file[1] \in Seq(Entries) /\ file[2] \in Seq(Records) /\ Backup!Distinct(file[1])
<1>1. PICK es \in SeqOf(Entries, MaxItems) :
        Backup!Distinct(es) /\ \E rs \in SeqOf(Records, MaxItems - Len(es)) : file = <<es, rs>>
  BY DEF Files
<1>2. PICK rs \in SeqOf(Records, MaxItems - Len(es)) : file = <<es, rs>>
  BY <1>1
<1>3. es \in Seq(Entries)
  BY DEF SeqOf
<1>4. rs \in Seq(Records)
  BY DEF SeqOf
<1> QED
  BY <1>1, <1>2, <1>3, <1>4

(* The backup is opened.                                                   *)
LEMMA BackupOpens ==
  ASSUME NEW es \in Seq(Entries), Backup!Distinct(es), Backup!Open(es), table = Nothing
  PROVE  BackupInv /\ backup_status = "reading"
<1> DEFINE b == Memory(<< >>, BackupBuf + 1)
<1>1. /\ saved = es /\ aux = 0 /\ backup_status = "reading" /\ carried = FALSE
  BY DEF Backup!Open
<1>2. buf2 = b
  BY BackupScans DEF Backup!Open
<1>3. backup_buf = Backup!Loaded(b, Backup!Rest(saved, 0))
  BY BackupScans, Zenon DEF Backup!Open, Backup!File
<1>4. backup_rest = From(Backup!Rest(saved, 0), BackupBuf + 1)
  BY BackupScans, Zenon DEF Backup!Open, Backup!File
<1>5. saved \in Seq(Item) /\ Len(saved) \in Nat /\ saved \in Seq(Entries)
  BY <1>1, EntryIs
<1>6. IsBuffer(b) /\ 0 \in 0 .. Len(saved) /\ table = SavedOf(saved, 0)
  BY <1>5, JunkIs, SavedNone
<1> HIDE DEF b
<1>7. HoldsEntry(saved, backup_buf, aux, backup_rest, table)
  <2>1. HoldsEntry(saved, Backup!Loaded(b, Backup!Rest(saved, 0)), 0,
                   From(Backup!Rest(saved, 0), BackupBuf + 1), SavedOf(saved, 0))
    <3>1. Backup!Offset(saved)[0] = 0
      BY <1>5, OffsetIs
    <3>2. Along(saved, 0, 0)
      BY <1>6, <3>1 DEF Along
    <3> QED
      BY <1>5, <1>6, <3>2, HoldsLoaded
  <2> QED
    BY <1>1, <1>3, <1>4, <1>6, <2>1
<1> QED
  BY <1>1, <1>2, <1>5, <1>7 DEF BackupInv, b

(* The invariant holds when the files are opened ...                       *)
LEMMA Starts == Init => IInv
<1> SUFFICES ASSUME Init PROVE IInv
  OBVIOUS
<1>1. PICK file \in Files, d \in {"none", "cut", "garbled"} :
        Backup!Open(file[1]) /\ Log!Open(file[2], d) /\ table = Nothing
  BY DEF Init
<1>2. file[1] \in Seq(Entries) /\ file[2] \in Seq(Records) /\ Backup!Distinct(file[1])
  BY TypedFiles
<1>3. BackupInv /\ backup_status = "reading"
  BY <1>1, <1>2, BackupOpens
<1>4. LogInv /\ \A t : t = [k \in DOMAIN t |-> t[k]] => LogPhase(t, t)
  BY <1>1, <1>2, LogOpens
<1>5. \A n : SavedOf(saved, n) = [k \in DOMAIN SavedOf(saved, n) |-> SavedOf(saved, n)[k]]
  BY DEF SavedOf
<1> QED
  BY <1>3, <1>4, <1>5 DEF IInv, Phase

(* ... and after every turn.                                               *)
LEMMA Keeps == IInv /\ [Next]_vars => IInv'
<1> SUFFICES ASSUME IInv, [Next]_vars PROVE IInv'
  OBVIOUS
<1>1. BackupInv /\ LogInv /\ Phase
  BY DEF IInv
<1>2. CASE ReadBackup
  <2>1. Backup!ReadEntry /\ UNCHANGED log
    BY <1>2 DEF ReadBackup
  <2>2. backup_status = "reading" /\ saved' = saved
    BY <2>1 DEF Backup!ReadEntry
  <2>3. BackupInv'
    BY <1>1, <2>1, BackupStep
  <2>4. LogInv' /\ \A t, b : LogPhase(t, b) => LogPhase(t, b)'
    BY <1>1, <2>1, SameLogInv
  <2>5. \A n \in 0 .. Len(saved) : LogPhase(SavedOf(saved, n), SavedOf(saved, n))
    BY <1>1, <2>2 DEF Phase
  <2>6. CASE backup_status' = "reading"
    <3>1. ASSUME NEW n \in 0 .. Len(saved') PROVE LogPhase(SavedOf(saved, n), SavedOf(saved, n))'
      <4>1. PICK t : t = SavedOf(saved, n)
        OBVIOUS
      <4>2. n \in 0 .. Len(saved) /\ SavedOf(saved, n)' = t
        BY <2>2, <3>1, <4>1
      <4>3. LogPhase(t, t)'
        BY <2>4, <2>5, <4>1, <4>2
      <4> QED
        BY <4>2, <4>3 DEF LogPhase
    <3>2. Phase'
      BY <2>6, <3>1 DEF Phase
    <3> QED
      BY <2>3, <2>4, <3>2 DEF IInv
  <2>7. CASE backup_status' # "reading"
    <3>1. backup_status' = "done"
      BY <2>3, <2>7 DEF BackupInv
    <3>2. HasReached /\ table' = table
      BY <1>1, <2>1, <3>1, BackupStep
    <3>3. PICK t : t = table
      OBVIOUS
    <3>4. LogPhase(t, t)' /\ table' = t /\ Base' = t
      <4>1. Base = t /\ Base' = Base
        BY <2>2, <3>2, <3>3, BaseIs, BaseNext DEF HasReached
      <4>2. LogPhase(t, t)
        BY <2>5, <3>2, <3>3 DEF HasReached
      <4> QED
        BY <2>4, <3>2, <3>3, <4>1, <4>2
    <3>5. LogPhase(table, Base)'
      BY <3>4 DEF LogPhase
    <3>6. Phase'
      BY <3>1, <3>5 DEF Phase
    <3> QED
      BY <2>3, <2>4, <3>6 DEF IInv
  <2> QED
    BY <2>6, <2>7
<1>3. CASE ReadLog
  <2>1. backup_status = "done" /\ Log!ReadRecord /\ UNCHANGED backup
    BY <1>3 DEF ReadLog
  <2>2. /\ saved' = saved /\ backup_rest' = backup_rest /\ backup_buf' = backup_buf /\ buf2' = buf2
        /\ aux' = aux /\ backup_status' = backup_status /\ carried' = carried
    BY <2>1 DEF backup
  <2>3. BackupInv'
    BY <1>1, <2>1, <2>2 DEF BackupInv, Backup!Distinct
  <2>4. PICK b : b = Base /\ LogPhase(table, b)
    BY <1>1, <2>1 DEF Phase
  <2>5. LogInv' /\ LogPhase(table, b)'
    BY <1>1, <2>1, <2>4, LogStep
  <2>6. Base' = b
    BY <2>2, <2>4, BaseNext
  <2>7. LogPhase(table, Base)'
    BY <2>5, <2>6 DEF LogPhase
  <2>8. Phase'
    BY <2>1, <2>2, <2>7 DEF Phase
  <2> QED
    BY <2>3, <2>5, <2>8 DEF IInv
<1>4. CASE UNCHANGED vars
  <2>1. UNCHANGED log /\ table' = table
    BY <1>4 DEF vars
  <2>2. /\ saved' = saved /\ backup_rest' = backup_rest /\ backup_buf' = backup_buf /\ buf2' = buf2
        /\ aux' = aux /\ backup_status' = backup_status /\ carried' = carried
    BY <1>4 DEF vars, backup
  <2>3. BackupInv'
    <3>1. HasReached => HasReached'
      BY <2>1, <2>2, BaseNext
    <3> QED
      BY <1>1, <2>1, <2>2, <3>1 DEF BackupInv, Backup!Distinct, CannotScan, HoldsEntry, Holds, Backup!TextFrom
  <2>4. LogInv' /\ \A t, b : LogPhase(t, b) => LogPhase(t, b)'
    BY <1>1, <2>1, SameLogInv
  <2>5. CASE backup_status = "reading"
    <3>1. ASSUME NEW n \in 0 .. Len(saved') PROVE LogPhase(SavedOf(saved, n), SavedOf(saved, n))'
      <4>1. PICK t : t = SavedOf(saved, n)
        OBVIOUS
      <4>2. n \in 0 .. Len(saved) /\ SavedOf(saved, n)' = t
        BY <2>2, <3>1, <4>1
      <4>3. LogPhase(t, t)'
        BY <1>1, <2>4, <2>5, <4>1, <4>2 DEF Phase
      <4> QED
        BY <4>2, <4>3 DEF LogPhase
    <3> QED
      BY <2>2, <2>3, <2>4, <2>5, <3>1 DEF IInv, Phase
  <2>6. CASE backup_status = "done"
    <3>1. PICK b : b = Base /\ LogPhase(table, b)
      BY <1>1, <2>6 DEF Phase
    <3>2. PICK t : t = table
      OBVIOUS
    <3>3. LogPhase(t, b)'
      BY <2>4, <3>1, <3>2
    <3>4. Base' = b
      BY <2>2, <3>1, BaseNext
    <3>5. LogPhase(table, Base)'
      BY <2>1, <3>2, <3>3, <3>4 DEF LogPhase
    <3>6. Phase'
      BY <2>2, <2>6, <3>5 DEF Phase
    <3> QED
      BY <2>3, <2>4, <3>6 DEF IInv
  <2> QED
    BY <1>1, <2>5, <2>6 DEF BackupInv
<1> QED
  BY <1>2, <1>3, <1>4 DEF Next

-----------------------------------------------------------------------------
(* The theorems.                                                           *)

(* Whatever the files hold and however they lie in the two buffers: while  *)
(* create_hash_from_backup reads, aux is at an entry and the table holds   *)
(* the entries before it, or a part was carried over that is not scanned;  *)
(* while process_hash_log reads, its buffer is at a record and the table   *)
(* is what the records before it make of what the backup gave.             *)
THEOREM Invariance == Spec => []IInv
<1> QED
  BY Starts, Keeps, PTL DEF Spec

(* The invariant gives what is recovered ...                               *)
LEMMA Recovered == IInv => RecoversReached
<1> SUFFICES ASSUME IInv, backup_status = "done", log_status # "reading", damage = "none"
             PROVE  log_status = "done" /\ table = Log!Replayed(Base, Len(records))
  BY DEF RecoversReached
<1>1. LogPhase(table, Base)
  BY DEF IInv, Phase
<1>2. log_status = "done" /\ table = ReplayedOf(records, Base, Len(records))
  BY <1>1 DEF LogPhase
<1> QED
  BY <1>2, ReplayedIs

(* setup_backup returns and has all that was logged, over all saved up     *)
(* to the first entry whose key and size lie across the end of a buffer of *)
(* create_hash_from_backup, and nothing of that one and of those behind    *)
(* it: whatever the keys and the values are and wherever they lie in the   *)
(* buffers, if the log is intact.                                          *)
THEOREM RecoversReachedHolds == Spec => []RecoversReached
<1> QED
  BY Invariance, Recovered, PTL

(* At a record of an intact log, the file has lost nothing.                *)
LEMMA AtLogRecord ==
  ASSUME records \in Seq(Records), NEW t, NEW n, NEW gone, damage = "none", log_buf # << >>,
         AtLog(log_buf, log_rest, n, gone), table = ReplayedOf(records, t, n)
  PROVE  Log!AtRecord(t)
<1>1. n \in 0 .. Len(records) - 1
  BY LogTurn
<1>2. /\ (log_buf \o log_rest) \o gone = Log!Rest(records, n) /\ gone = << >>
      /\ log_buf \in Bytes /\ log_rest \in Bytes
  BY DEF AtLog, Filled
<1>3. log_buf \o log_rest \in Bytes
  BY <1>2, Joined
<1>4. log_buf \o log_rest = Log!Rest(records, n)
  BY <1>2, <1>3, Nothings
<1>5. table = Log!Replayed(t, n)
  BY ReplayedIs
<1> QED
  BY <1>1, <1>4, <1>5 DEF Log!AtRecord

(* ... and where the readers are.                                          *)
LEMMA Aligned == IInv => InStep
<1> SUFFICES ASSUME IInv PROVE InStep
  OBVIOUS
<1>1. backup_status = "reading" /\ ~carried => Backup!AtEntry
  BY HoldsAtEntry DEF IInv, BackupInv
<1>2. ASSUME backup_status = "done", log_status = "reading", damage = "none"
      PROVE  Log!AtRecord(Base)
  <2>1. PICK b : b = Base /\ LogPhase(table, b)
    BY <1>2 DEF IInv, Phase
  <2>2. PICK n, gone : AtLog(log_buf, log_rest, n, gone) /\ table = ReplayedOf(records, b, n)
    BY <1>2, <2>1 DEF LogPhase
  <2>3. records \in Seq(Records) /\ log_buf # << >>
    BY <1>2 DEF IInv, LogInv
  <2> QED
    BY <1>2, <2>1, <2>2, <2>3, AtLogRecord
<1> QED
  BY <1>1, <1>2 DEF InStep

(* At every turn of the two loops the reader is where an entry of the      *)
(* backup or a record of an intact log starts, never within one, and the   *)
(* table is what those before it make.                                     *)
THEOREM InStepHolds == Spec => []InStep
<1> QED
  BY Invariance, Aligned, PTL

(* A turn of create_hash_from_backup is the last or gets on ...            *)
LEMMA BackupAdvances ==
  ASSUME BackupInv, backup_status = "reading"
  PROVE  Backup!Advances
<1>1. CASE carried
  <2>1. Stops(Backup!Turn)
    BY <1>1, CarriedTurn DEF BackupInv
  <2> QED
    BY <2>1 DEF Backup!Advances, Stops
<1>2. CASE ~carried
  <2>1. /\ saved \in Seq(Entries) /\ Backup!Distinct(saved)
        /\ HoldsEntry(saved, backup_buf, aux, backup_rest, table)
        /\ IsBuffer(buf2)
    BY <1>2, JunkIs DEF BackupInv
  <2>2. GoesOn(Backup!Turn) \/ Stops(Backup!Turn) \/ Carries(Backup!Turn)
    BY <2>1, TurnIs
  <2> QED
    BY <2>2 DEF Backup!Advances, GoesOn, Stops, Carries
<1> QED
  BY <1>1, <1>2

(* ... as is one of process_hash_log, ...                                  *)
LEMMA LogAdvances ==
  ASSUME LogInv, log_status = "reading", damage # "garbled"
  PROVE  Log!Advances
<1>1. records \in Seq(Records) /\ log_buf # << >>
  BY DEF LogInv
<1>2. PICK n, gone : AtLog(log_buf, log_rest, n, gone)
  BY DEF LogInv
<1>3. Moves(Log!Turn, n, gone) \/ Breaks(Log!Turn, n, gone)
  BY <1>1, <1>2, LogTurn
<1> QED
  BY <1>3 DEF Log!Advances, Moves, Breaks

(* ... and what ends the process is known.                                 *)
LEMMA Ends == IInv => Returns
<1> SUFFICES ASSUME IInv PROVE Returns
  OBVIOUS
<1>1. backup_status = "reading" => Backup!Advances
  BY BackupAdvances DEF IInv
<1>2. log_status = "reading" => Log!Advances \/ (damage = "garbled" /\ log_buf[1] = Other)
  BY LogAdvances DEF IInv, LogInv
<1>3. log_status = "crash" => Log!CutInValue
  BY DEF IInv, LogInv
<1> QED
  BY <1>1, <1>2, <1>3 DEF Returns

(* Every turn of create_hash_from_backup and of process_hash_log is the    *)
(* last one, or takes something from the buffer or from the file, so that  *)
(* setup_backup returns, with two exceptions: a record of unknown type at  *)
(* the front of the buffer is looked at again, and a log that ends in the  *)
(* value of an insertion may end the process.  No backup, no intact log    *)
(* and no other cut does either.                                           *)
THEOREM ReturnsHolds == Spec => []Returns
<1> QED
  BY Invariance, Ends, PTL

(* The invariant gives what a cut log costs.                               *)
LEMMA Costs == IInv => CutCostsOneKey
<1> SUFFICES ASSUME IInv, Done, damage = "cut"
             PROVE  LET t == Log!Replayed(Base, Log!Whole) IN
                    Cardinality({k \in DOMAIN t \cup DOMAIN table :
                                   ~(k \in DOMAIN t \cap DOMAIN table /\ table[k] = t[k])}) <= 1
  BY DEF CutCostsOneKey
<1>1. backup_status = "done" /\ log_status # "reading"
  BY DEF Done
<1>2. LogPhase(table, Base)
  BY <1>1 DEF IInv, Phase
<1> DEFINE t == Log!Replayed(Base, Log!Whole)
<1>3. OneKey(table, t)
  BY <1>1, <1>2, ReplayedIs DEF LogPhase
<1> HIDE DEF t
<1>4. Cardinality({k \in DOMAIN t \cup DOMAIN table :
                     ~(k \in DOMAIN t \cap DOMAIN table /\ table[k] = t[k])}) <= 1
  BY <1>3, OneKeyIs
<1> QED
  BY <1>4, Zenon DEF t

(* If setup_backup returns, and a log that is cut elsewhere than in a      *)
(* value cannot prevent it, a log that ends within a record has cost one   *)
(* key at most, and all others are as the whole records left them.         *)
THEOREM CutCostsOneKeyHolds == Spec => []CutCostsOneKey
<1> QED
  BY Invariance, Costs, PTL

=============================================================================
