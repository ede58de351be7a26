----------------------------- MODULE MCRecovery -----------------------------
(* Keys of which one begins with the other, and values that look like      *)
(* records or numbers.  An entry has four to nine bytes, and the buffer of *)
(* the backup ten: it ends in values, in headers and between entries.  The *)
(* buffer of the log, of nine, holds one header of seven bytes and not     *)
(* always the value behind it.                                             *)
EXTENDS Recovery, TLC

Entry(key, value) == [key |-> key, size |-> <<Len(value)>>, value |-> value]
Insertion(key, value) == [type |-> "I"] @@ Entry(key, value)
Deletion(key) == [type |-> "D", key |-> key]

MCEntries ==
  {Entry(k, v) : k \in {<<1>>, <<2>>, <<1, 2>>},
                 v \in {<< >>, <<1, Blank>>, <<I, Zero, Blank>>, <<Blank, 9, Blank, 1, Blank>>}}
MCKeys == {<<1>>, <<1, 2>>}
MCValues == {<< >>, <<2>>, <<D, Blank, 1>>, <<Blank, Zero, I, Blank, 1>>}
MCRecords == {Insertion(k, v) : k \in MCKeys, v \in MCValues} \cup {Deletion(k) : k \in MCKeys}

=============================================================================
