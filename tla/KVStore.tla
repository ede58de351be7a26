------------------------------ MODULE KVStore ------------------------------
(***************************************************************************)
(* What the data server promises its clients: one map from keys to values, *)
(* on which every request takes effect at a single instant between the     *)
(* moment it is received and the moment it is answered (psiskv.h, and the  *)
(* request handlers of psiskv_server.c seen from the socket).  Buckets,    *)
(* locks, item memory and the log are invisible here; HashStore is shown   *)
(* to implement this module.                                               *)
(***************************************************************************)

CONSTANTS
  Thread,    \* the connections, each served by a thread of its own
  Key,       \* the keys, a uint32_t in kv_msg
  Value,     \* the byte arrays clients store
  NULL       \* no value, no request, no reply

VARIABLES
  kv,        \* kv[k]: the value stored under k, or NULL
  phase,     \* phase[t]: "idle", "called" (request received) or "done"
  req,       \* req[t]: the request t is serving, or NULL
  reply      \* reply[t]: the answer that t will send, or NULL

vars == <<kv, phase, req, reply>>

Writes == {"WRITE_REQ", "WRITE_REQ_OW"}

Request ==
  [op : Writes, key : Key, val : Value]
    \cup [op : {"READ_REQ", "DELETE_REQ"}, key : Key, val : {NULL}]

(* A reply names its msg_type; code stands for the field the client looks  *)
(* at: key (999 means "already exists") or value_len (0 means "no item").  *)
Written(code) == [type |-> "WRITE_RESP", code |-> code, val |-> NULL]
Deleted(code) == [type |-> "DELETE_RESP", code |-> code, val |-> NULL]
Found(v)      == [type |-> "READ_RESP", code |-> 0, val |-> v]
NotFound      == [type |-> "ERROR", code |-> 0, val |-> NULL]

Reply ==
  {Written(c) : c \in {0, 999}} \cup {Deleted(c) : c \in {0, 1}}
    \cup {Found(v) : v \in Value} \cup {NotFound}

-----------------------------------------------------------------------------

Init ==
  /\ kv = [k \in Key |-> NULL]
  /\ phase = [t \in Thread |-> "idle"]
  /\ req = [t \in Thread |-> NULL]
  /\ reply = [t \in Thread |-> NULL]

Call(t, r) ==
  /\ phase[t] = "idle"
  /\ phase' = [phase EXCEPT ![t] = "called"]
  /\ req' = [req EXCEPT ![t] = r]
  /\ UNCHANGED <<kv, reply>>

(* The answer of the map to request r, and the map it leaves behind.       *)
Answer(r) ==
  CASE r.op = "READ_REQ"     -> IF kv[r.key] = NULL THEN NotFound
                                ELSE Found(kv[r.key])
    [] r.op = "DELETE_REQ"   -> Deleted(IF kv[r.key] = NULL THEN 0 ELSE 1)
    [] r.op = "WRITE_REQ_OW" -> Written(0)
    [] r.op = "WRITE_REQ"    -> Written(IF kv[r.key] = NULL THEN 0 ELSE 999)

Outcome(r) ==
  IF \/ r.op \in {"WRITE_REQ_OW", "DELETE_REQ"}
     \/ r.op = "WRITE_REQ" /\ kv[r.key] = NULL
  THEN [kv EXCEPT ![r.key] = r.val]
  ELSE kv

TakeEffect(t) ==
  /\ phase[t] = "called"
  /\ phase' = [phase EXCEPT ![t] = "done"]
  /\ reply' = [reply EXCEPT ![t] = Answer(req[t])]
  /\ kv' = Outcome(req[t])
  /\ UNCHANGED req

Return(t) ==
  /\ phase[t] = "done"
  /\ phase' = [phase EXCEPT ![t] = "idle"]
  /\ req' = [req EXCEPT ![t] = NULL]
  /\ reply' = [reply EXCEPT ![t] = NULL]
  /\ UNCHANGED kv

Next ==
  \E t \in Thread :
    \/ \E r \in Request : Call(t, r)
    \/ TakeEffect(t)
    \/ Return(t)

Fairness == \A t \in Thread : WF_vars(TakeEffect(t)) /\ WF_vars(Return(t))

Spec == Init /\ [][Next]_vars /\ Fairness

=============================================================================
