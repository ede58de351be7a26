--------------------------- MODULE DispatchProofs ---------------------------
(***************************************************************************)
(* Proofs about Dispatch, for any number of connections and descriptors.   *)
(***************************************************************************)
EXTENDS Dispatch, WellFoundedInduction, TLAPS

(* A thread that was created and has not run yet finds a descriptor in     *)
(* args; it is its own, and no other thread is to find it, unless args was *)
(* overwritten.                                                            *)
Handed ==
  \A t \in Conns : pc[t] = "start" => args \in Fds /\ (raced \/ table[args] = t)

(* A thread that serves has a descriptor.                                  *)
Holding == \A t \in Conns : pc[t] \in {"serve", "close"} => sock[t] \in Fds

(* A thread serves the connection it was created for.                      *)
ServesItsOwn ==
  raced \/ \A t \in Conns : pc[t] \in {"serve", "close"} => table[sock[t]] = t

IInv == TypeOK /\ Handed /\ Holding /\ ServesItsOwn

(* A connection is accepted once.                                          *)
AcceptedOnce ==
  /\ \A i \in 1 .. Len(queue) :
       client[queue[i]] # "away" /\ \A f \in Fds : table[f] # queue[i]
  /\ \A i, j \in 1 .. Len(queue) : queue[i] = queue[j] => i = j
  /\ \A c \in Conns : client[c] = "away" => \A f \in Fds : table[f] # c

(* The thread made for a connection has its descriptor, until the client   *)
(* of a data server resets it.                                             *)
Kept ==
  raced \/ (server = "front" /\ end) \/ \A f \in Fds :
    table[f] # Nobody =>
      \/ pc[table[f]] = "start" /\ args = f
      \/ pc[table[f]] \in {"serve", "close"} /\ sock[table[f]] = f
      \/ server = "data" /\ client[table[f]] = "reset"

OpenInv == IInv /\ AcceptedOnce /\ Kept

(* The lowest free descriptor is free.                                     *)
LEMMA LowestFree == Free # {} => Min(Free) \in Fds /\ table[Min(Free)] = Nobody
<1> SUFFICES ASSUME Free # {}
             PROVE  Min(Free) \in Fds /\ table[Min(Free)] = Nobody
  OBVIOUS
<1>1. Free \subseteq Nat
  BY DispatchAssumption DEF Free
<1>2. \E x \in Free : \A y \in Free : x <= y
  <2>1. PICK x \in Free : \A y \in Free : <<y, x>> \notin OpToRel(<, Nat)
    BY <1>1, NatLessThanWellFounded, WFMin, Zenon
  <2>2. \A y \in Free : ~(y < x)
    BY <1>1, <2>1, Zenon DEF OpToRel
  <2>3. \A y \in Free : x <= y
    BY <1>1, <2>2
  <2> QED
    BY <2>3
<1> QED
  BY <1>2 DEF Min, Free

-----------------------------------------------------------------------------
(* The invariant.                                                          *)

LEMMA InitInvariant == Init => IInv
<1> SUFFICES ASSUME Init PROVE IInv
  OBVIOUS
<1>1. queue \in Seq(Conns) /\ args \in Fds \cup {NoFd}
  BY DEF Init
<1>2. sock \in [Conns -> Fds \cup {NoFd}]
  BY DEF Init
<1> QED
  BY <1>1, <1>2 DEF Init, IInv, TypeOK, Handed, Holding, ServesItsOwn

(* One step of a client, of main or of a thread.                           *)
LEMMA NextInvariant == IInv /\ [Next]_vars => IInv'
<1> SUFFICES ASSUME IInv, [Next]_vars PROVE IInv'
  OBVIOUS
<1> USE DEF IInv, Goto
<1>1. ASSUME NEW c \in Conns, Connect(c) PROVE IInv'
  <2>1. Append(queue, c) \in Seq(Conns)
    BY DEF TypeOK
  <2> QED
    BY <1>1, <2>1 DEF Connect, TypeOK, Handed, Holding, ServesItsOwn
<1>2. ASSUME NEW c \in Conns, Ask(c) \/ HangUp(c) PROVE IInv'
  BY <1>2 DEF Ask, HangUp, TypeOK, Handed, Holding, ServesItsOwn
<1>3. CASE SetEnd
  BY <1>3 DEF SetEnd, TypeOK, Handed, Holding, ServesItsOwn
<1>4. CASE Accept
  <2> SUFFICES ASSUME NEW f, f = Min(Free), NEW c, c = Head(queue) PROVE IInv'
    OBVIOUS
  <2>1. f \in Fds /\ table[f] = Nobody
    BY <1>4, LowestFree DEF Accept
  <2>2. c \in Conns /\ Tail(queue) \in Seq(Conns)
    BY <1>4 DEF Accept, TypeOK
  <2>3. raced \/ \A t \in Conns : pc[t] \in {"serve", "close"} => sock[t] # f
    BY <2>1, DispatchAssumption DEF ServesItsOwn
  <2>4. /\ table' = [table EXCEPT ![f] = c] /\ queue' = Tail(queue)
        /\ main' \in {"left", "accept"} /\ UNCHANGED <<server, sock, client, end>>
        /\ \/ UNCHANGED <<args, pc, raced>>
           \/ /\ args' = f /\ pc' = [pc EXCEPT ![c] = "start"]
              /\ raced' = (raced \/ \E t \in Conns : pc[t] = "start")
    BY <1>4 DEF Accept
  <2>5. raced' \in BOOLEAN /\ (raced => raced')
    <3>1. raced \in BOOLEAN
      BY DEF TypeOK
    <3>2. CASE raced' = raced
      BY <3>1, <3>2
    <3>3. CASE raced' = (raced \/ \E t \in Conns : pc[t] = "start")
      <4>1. CASE raced \/ \E t \in Conns : pc[t] = "start"
        BY <3>3, <4>1, Zenon
      <4>2. CASE ~(raced \/ \E t \in Conns : pc[t] = "start")
        BY <3>3, <4>2, Zenon
      <4> QED
        BY <4>1, <4>2
    <3> QED
      BY <2>4, <3>2, <3>3
  <2>6. TypeOK'
    <3>1. table' \in [Fds -> Conns \cup {Nobody}]
      BY <2>2, <2>4 DEF TypeOK
    <3>2. /\ args' \in Fds \cup {NoFd}
          /\ pc' \in [Conns -> {"none", "start", "serve", "close", "done"}]
      BY <2>1, <2>2, <2>4 DEF TypeOK
    <3> QED
      BY <2>2, <2>4, <2>5, <3>1, <3>2 DEF TypeOK
  <2>7. Handed'
    <3>1. CASE UNCHANGED <<args, pc, raced>>
      <4>1. ASSUME NEW t \in Conns, pc[t] = "start" PROVE args \in Fds /\ (raced \/ table'[args] = t)
        BY <2>1, <2>4, <4>1, DispatchAssumption DEF Handed, TypeOK
      <4> QED
        BY <3>1, <4>1 DEF Handed
    <3>2. CASE /\ args' = f /\ pc' = [pc EXCEPT ![c] = "start"]
               /\ raced' = (raced \/ \E t \in Conns : pc[t] = "start")
      <4>1. table'[f] = c /\ \A t \in Conns : t # c => pc'[t] = pc[t]
        BY <2>1, <2>4, <3>2 DEF TypeOK
      <4> QED
        BY <2>1, <3>2, <4>1 DEF Handed
    <3> QED
      BY <2>4, <3>1, <3>2
  <2>8. Holding'
    BY <2>2, <2>4 DEF Holding, TypeOK
  <2>9. ServesItsOwn'
    BY <2>2, <2>3, <2>4, <2>5 DEF Holding, ServesItsOwn, TypeOK
  <2> QED
    BY <2>6, <2>7, <2>8, <2>9
<1>5. CASE AcceptFails
  <2>1. CASE CleanUp
    <3>1. \A t \in Conns : pc'[t] = "done"
      BY <2>1 DEF CleanUp
    <3>2. TypeOK'
      BY <1>5, <2>1 DEF AcceptFails, CleanUp, TypeOK
    <3> QED
      BY <3>1, <3>2 DEF Handed, Holding, ServesItsOwn
  <2>2. CASE main' = "left" /\ UNCHANGED <<queue, table, pc, client>>
    BY <1>5, <2>2 DEF AcceptFails, TypeOK, Handed, Holding, ServesItsOwn
  <2> QED
    BY <1>5, <2>1, <2>2 DEF AcceptFails
<1>6. ASSUME NEW t \in Conns, TakeSocket(t) PROVE IInv'
  <2>1. args \in Fds /\ (raced \/ table[args] = t)
    BY <1>6 DEF TakeSocket, Handed
  <2> QED
    BY <1>6, <2>1 DEF TakeSocket, TypeOK, Handed, Holding, ServesItsOwn
<1>7. ASSUME NEW t \in Conns, SendPort(t) \/ HandleRequest(t) PROVE IInv'
  <2>1. pc[t] = "serve" /\ client' \in [Conns -> {"away", "waits", "answered", "closed", "reset", "dropped"}]
    BY <1>7 DEF SendPort, HandleRequest, Answered, TypeOK
  <2>2. /\ pc' \in {[pc EXCEPT ![t] = "close"], [pc EXCEPT ![t] = "serve"]}
        /\ UNCHANGED <<server, main, queue, table, args, sock, end, raced>>
    BY <1>7 DEF SendPort, HandleRequest
  <2> QED
    BY <2>1, <2>2 DEF TypeOK, Handed, Holding, ServesItsOwn
<1>8. ASSUME NEW t \in Conns, ClientClosed(t) \/ RequestFails(t) PROVE IInv'
  BY <1>8 DEF ClientClosed, RequestFails, TypeOK, Handed, Holding, ServesItsOwn
<1>9. ASSUME NEW t \in Conns, Close(t) PROVE IInv'
  <2>1. sock[t] \in Fds /\ (raced \/ table[sock[t]] = t)
    BY <1>9 DEF Close, Holding, ServesItsOwn
  <2>2. client' \in [Conns -> {"away", "waits", "answered", "closed", "reset", "dropped"}]
    BY <1>9 DEF Close, TypeOK
  <2>3. /\ table' = [table EXCEPT ![sock[t]] = Nobody]
        /\ pc' = [pc EXCEPT ![t] = "done"]
        /\ UNCHANGED <<server, main, queue, args, sock, end, raced>>
    BY <1>9 DEF Close
  <2>4. TypeOK'
    BY <2>1, <2>2, <2>3 DEF TypeOK
  <2>5. Handed' /\ Holding' /\ ServesItsOwn'
    BY <1>9, <2>1, <2>3 DEF Close, TypeOK, Handed, Holding, ServesItsOwn
  <2> QED
    BY <2>4, <2>5
<1>10. CASE UNCHANGED vars
  BY <1>10 DEF vars, TypeOK, Handed, Holding, ServesItsOwn
<1> QED
  BY <1>1, <1>2, <1>3, <1>4, <1>5, <1>6, <1>7, <1>8, <1>9, <1>10 DEF Next, Answering

(* The front server: none of its threads returns without closing.          *)
LEMMA InitKept == Init => AcceptedOnce /\ Kept
<1> SUFFICES ASSUME Init PROVE AcceptedOnce /\ Kept
  OBVIOUS
<1>1. Len(queue) = 0 /\ \A f \in Fds : table[f] = Nobody
  BY DEF Init
<1>2. \A c \in Conns : c # Nobody
  BY DispatchAssumption
<1> QED
  BY <1>1, <1>2 DEF AcceptedOnce, Kept

LEMMA AcceptedOnceStep == OpenInv /\ [Next]_vars => AcceptedOnce'
<1> SUFFICES ASSUME OpenInv, [Next]_vars PROVE AcceptedOnce'
  OBVIOUS
<1> USE DEF OpenInv, IInv
<1>1. ASSUME NEW c \in Conns, Connect(c) PROVE AcceptedOnce'
  <2>1. /\ queue' = Append(queue, c) /\ queue \in Seq(Conns)
        /\ client[c] = "away" /\ client' = [client EXCEPT ![c] = "waits"]
        /\ UNCHANGED table
    BY <1>1 DEF Connect, TypeOK
  <2>2. /\ Len(queue') = Len(queue) + 1 /\ queue'[Len(queue) + 1] = c
        /\ \A i \in 1 .. Len(queue) : queue'[i] = queue[i]
    BY <2>1
  <2>3. \A i \in 1 .. Len(queue) : queue[i] # c
    BY <2>1 DEF AcceptedOnce
  <2>4. \A d \in Conns : client'[d] = "away" => client[d] = "away"
    BY <2>1 DEF TypeOK
  <2>5. ASSUME NEW i \in 1 .. Len(queue')
        PROVE  client'[queue'[i]] # "away" /\ \A f \in Fds : table'[f] # queue'[i]
    <3>1. CASE i \in 1 .. Len(queue)
      BY <2>1, <2>2, <3>1 DEF AcceptedOnce, TypeOK
    <3>2. CASE i = Len(queue) + 1
      BY <2>1, <2>2, <3>2 DEF AcceptedOnce, TypeOK
    <3> QED
      BY <2>2, <3>1, <3>2
  <2>6. ASSUME NEW i \in 1 .. Len(queue'), NEW j \in 1 .. Len(queue'), queue'[i] = queue'[j]
        PROVE  i = j
    BY <2>1, <2>2, <2>3, <2>6 DEF AcceptedOnce
  <2>7. \A d \in Conns : client'[d] = "away" => \A f \in Fds : table'[f] # d
    BY <2>1, <2>4 DEF AcceptedOnce
  <2> QED
    BY <2>5, <2>6, <2>7 DEF AcceptedOnce
<1>2. ASSUME UNCHANGED <<queue, table>>, \A c \in Conns : client'[c] = "away" <=> client[c] = "away"
      PROVE  AcceptedOnce'
  <2>1. \A i \in 1 .. Len(queue) : queue[i] \in Conns
    BY DEF TypeOK
  <2> QED
    BY <1>2, <2>1 DEF AcceptedOnce
<1>3. ASSUME NEW c \in Conns, Ask(c) \/ HangUp(c) PROVE AcceptedOnce'
  BY <1>2, <1>3 DEF Ask, HangUp, TypeOK
<1>4. CASE SetEnd \/ UNCHANGED vars
  BY <1>2, <1>4 DEF SetEnd, vars
<1>5. CASE Accept
  <2>1. /\ queue \in Seq(Conns) /\ queue # << >> /\ queue' = Tail(queue)
        /\ UNCHANGED client
    BY <1>5 DEF Accept, TypeOK
  <2>2. /\ Len(queue') = Len(queue) - 1
        /\ \A i \in 1 .. Len(queue') : queue'[i] = queue[i + 1] /\ i + 1 \in 2 .. Len(queue)
    BY <2>1
  <2>3. Head(queue) = queue[1] /\ 1 \in 1 .. Len(queue)
    BY <2>1
  <2>4. PICK f \in Fds : table' = [table EXCEPT ![f] = queue[1]]
    BY <1>5, <2>3, LowestFree DEF Accept
  <2>5. \A g \in Fds : table'[g] = table[g] \/ table'[g] = queue[1]
    BY <2>4 DEF TypeOK
  <2>6. ASSUME NEW i \in 1 .. Len(queue')
        PROVE  client'[queue'[i]] # "away" /\ \A g \in Fds : table'[g] # queue'[i]
    <3>1. i + 1 \in 1 .. Len(queue) /\ i + 1 # 1 /\ queue'[i] = queue[i + 1]
      BY <2>2
    <3>2. queue[i + 1] # queue[1]
      BY <2>3, <3>1 DEF AcceptedOnce
    <3> QED
      BY <2>1, <2>5, <3>1, <3>2 DEF AcceptedOnce
  <2>7. \A i, j \in 1 .. Len(queue') : queue'[i] = queue'[j] => i = j
    BY <2>2 DEF AcceptedOnce
  <2>8. \A c \in Conns : client'[c] = "away" => \A g \in Fds : table'[g] # c
    BY <2>1, <2>3, <2>5 DEF AcceptedOnce
  <2> QED
    BY <2>6, <2>7, <2>8 DEF AcceptedOnce
<1>6. CASE AcceptFails
  <2>1. CASE CleanUp
    <3>1. queue' = << >> /\ \A f \in Fds : table'[f] = Nobody
      BY <2>1 DEF CleanUp
    <3>2. \A c \in Conns : c # Nobody
      BY DispatchAssumption
    <3> QED
      BY <3>1, <3>2 DEF AcceptedOnce
  <2>2. CASE UNCHANGED <<queue, table, pc, client>>
    BY <1>2, <2>2
  <2> QED
    BY <1>6, <2>1, <2>2 DEF AcceptFails
<1>7. ASSUME NEW t \in Conns, TakeSocket(t) \/ ClientClosed(t) \/ RequestFails(t) PROVE AcceptedOnce'
  BY <1>2, <1>7 DEF TakeSocket, ClientClosed, RequestFails
<1>8. ASSUME NEW t \in Conns, SendPort(t) \/ HandleRequest(t) PROVE AcceptedOnce'
  BY <1>2, <1>8 DEF SendPort, HandleRequest, Answered, TypeOK
<1>9. ASSUME NEW t \in Conns, Close(t) PROVE AcceptedOnce'
  <2>1. \A c \in Conns : client'[c] = "away" <=> client[c] = "away"
    BY <1>9 DEF Close, TypeOK
  <2>2. \A f \in Fds : table'[f] = table[f] \/ table'[f] = Nobody
    BY <1>9 DEF Close, TypeOK
  <2>3. \A i \in 1 .. Len(queue) : queue[i] \in Conns /\ queue[i] # Nobody
    BY DispatchAssumption DEF TypeOK
  <2>4. queue' = queue
    BY <1>9 DEF Close
  <2> QED
    BY <2>1, <2>2, <2>3, <2>4, DispatchAssumption DEF AcceptedOnce
<1> QED
  BY <1>1, <1>3, <1>4, <1>5, <1>6, <1>7, <1>8, <1>9 DEF Next, Answering

(* The three places in which the descriptor of a connection may be.        *)
Place(f) ==
  \/ pc[table[f]] = "start" /\ args = f
  \/ pc[table[f]] \in {"serve", "close"} /\ sock[table[f]] = f
  \/ server = "data" /\ client[table[f]] = "reset"

LEMMA KeptStep == OpenInv /\ [Next]_vars => Kept'
<1> SUFFICES ASSUME OpenInv, [Next]_vars, ~raced', ~(server' = "front" /\ end')
             PROVE  \A f \in Fds : table'[f] # Nobody => Place(f)'
  BY DEF Kept, Place
<1> USE DEF OpenInv, IInv, Goto
<1>1. server' = server /\ (end => end') /\ (raced => raced')
  BY DEF TypeOK, Next, Connect, Ask, HangUp, SetEnd, Accept, AcceptFails, CleanUp, Answering, TakeSocket,
         SendPort, HandleRequest, ClientClosed, RequestFails, Close, vars
<1>2. ~raced /\ ~(server = "front" /\ end)
  BY <1>1
<1>3. \A f \in Fds : table[f] # Nobody => Place(f) /\ table[f] \in Conns
  BY <1>2 DEF Kept, Place, TypeOK
<1>4. ASSUME UNCHANGED <<table, pc, args, sock>>,
             \A c \in Conns : client[c] = "reset" => client'[c] = "reset"
      PROVE  \A f \in Fds : table'[f] # Nobody => Place(f)'
  BY <1>1, <1>3, <1>4 DEF Place
<1>5. ASSUME NEW c \in Conns, Connect(c) \/ Ask(c) \/ HangUp(c)
      PROVE  \A f \in Fds : table'[f] # Nobody => Place(f)'
  BY <1>4, <1>5 DEF Connect, Ask, HangUp, TypeOK
<1>6. CASE SetEnd \/ UNCHANGED vars
  BY <1>4, <1>6 DEF SetEnd, vars
<1>7. CASE Accept
  <2> SUFFICES ASSUME NEW f, f = Min(Free), NEW c, c = Head(queue), NEW g \in Fds,
                      table'[g] # Nobody
               PROVE  Place(g)'
    OBVIOUS
  <2>1. f \in Fds /\ table[f] = Nobody
    BY <1>7, LowestFree DEF Accept
  <2>2. c \in Conns /\ \A h \in Fds : table[h] # c
    <3>1. queue \in Seq(Conns) /\ queue # << >>
      BY <1>7 DEF Accept, TypeOK
    <3>2. c = queue[1] /\ 1 \in 1 .. Len(queue) /\ c \in Conns
      BY <3>1
    <3> QED
      BY <3>2 DEF AcceptedOnce
  <2>3. /\ table' = [table EXCEPT ![f] = c] /\ args' = f /\ UNCHANGED <<sock, client>>
        /\ pc' = [pc EXCEPT ![c] = "start"] /\ \A t \in Conns : pc[t] # "start"
    BY <1>2, <1>7 DEF Accept
  <2>4. CASE g = f
    BY <2>1, <2>2, <2>3, <2>4 DEF TypeOK, Place
  <2>5. CASE g # f
    <3>1. table'[g] = table[g] /\ table[g] \in Conns /\ table[g] # c /\ Place(g)
      BY <1>3, <2>2, <2>3, <2>5 DEF TypeOK
    <3> QED
      BY <1>1, <2>3, <3>1 DEF TypeOK, Place
  <2> QED
    BY <2>4, <2>5
<1>8. CASE AcceptFails
  BY <1>2, <1>8 DEF AcceptFails, CleanUp
<1>9. ASSUME NEW t \in Conns, TakeSocket(t)
      PROVE  \A f \in Fds : table'[f] # Nobody => Place(f)'
  <2>1. /\ pc[t] = "start" /\ pc'[t] \in {"serve", "close"} /\ sock'[t] = args
        /\ \A u \in Conns : u # t => pc'[u] = pc[u] /\ sock'[u] = sock[u]
        /\ UNCHANGED <<table, args, client>>
    BY <1>9 DEF TakeSocket, TypeOK
  <2>2. ASSUME NEW f \in Fds, table[f] # Nobody PROVE Place(f)'
    <3>1. Place(f) /\ table[f] \in Conns
      BY <1>3, <2>2
    <3>2. CASE table[f] = t
      BY <1>1, <2>1, <3>1, <3>2 DEF Place
    <3>3. CASE table[f] # t
      BY <1>1, <2>1, <3>1, <3>3 DEF Place
    <3> QED
      BY <3>2, <3>3
  <2> QED
    BY <2>1, <2>2
<1>10. ASSUME NEW t \in Conns, SendPort(t) \/ HandleRequest(t) \/ ClientClosed(t) \/ RequestFails(t)
       PROVE  \A f \in Fds : table'[f] # Nobody => Place(f)'
  <2>1. /\ pc[t] = "serve" /\ UNCHANGED <<table, args, sock>>
        /\ \A u \in Conns : u # t => pc'[u] = pc[u]
        /\ \A c \in Conns : client[c] = "reset" => client'[c] = "reset"
    BY <1>10 DEF SendPort, HandleRequest, ClientClosed, RequestFails, Answered, TypeOK
  <2>2. pc'[t] \in {"serve", "close"} \/ (server = "data" /\ client'[t] = "reset")
    <3>1. CASE SendPort(t) \/ HandleRequest(t) \/ ClientClosed(t)
      BY <3>1 DEF SendPort, HandleRequest, ClientClosed, TypeOK
    <3>2. CASE RequestFails(t)
      <4>1. table[sock[t]] = t /\ t # Nobody
        BY <1>2, <2>1, DispatchAssumption DEF ServesItsOwn
      <4> QED
        BY <3>2, <4>1 DEF RequestFails
    <3> QED
      BY <1>10, <3>1, <3>2
  <2>3. ASSUME NEW f \in Fds, table[f] # Nobody PROVE Place(f)'
    <3>1. Place(f) /\ table[f] \in Conns
      BY <1>3, <2>3
    <3>2. CASE table[f] = t
      BY <1>1, <2>1, <2>2, <3>1, <3>2 DEF Place
    <3>3. CASE table[f] # t
      BY <1>1, <2>1, <3>1, <3>3 DEF Place
    <3> QED
      BY <3>2, <3>3
  <2> QED
    BY <2>1, <2>3
<1>11. ASSUME NEW t \in Conns, Close(t)
       PROVE  \A f \in Fds : table'[f] # Nobody => Place(f)'
  <2>1. sock[t] \in Fds /\ table' = [table EXCEPT ![sock[t]] = Nobody]
    BY <1>11 DEF Close, Holding
  <2>2. /\ pc[t] = "close" /\ UNCHANGED <<args, sock>>
        /\ \A u \in Conns : u # t => pc'[u] = pc[u]
        /\ \A c \in Conns : client[c] = "reset" => client'[c] = "reset"
    BY <1>11 DEF Close, TypeOK
  <2>3. ASSUME NEW g \in Fds, table'[g] # Nobody PROVE Place(g)'
    <3>1. g # sock[t] /\ table'[g] = table[g] /\ table[g] # Nobody
      BY <2>1, <2>3 DEF TypeOK
    <3>2. Place(g) /\ table[g] \in Conns
      BY <1>3, <3>1
    <3>3. CASE table[g] # t
      BY <1>1, <2>2, <3>1, <3>2, <3>3 DEF Place
    <3>4. CASE table[g] = t
      BY <1>1, <2>2, <3>1, <3>2, <3>4 DEF Place
    <3> QED
      BY <3>3, <3>4
  <2> QED
    BY <2>3
<1> QED
  BY <1>5, <1>6, <1>7, <1>8, <1>9, <1>10, <1>11 DEF Next, Answering

-----------------------------------------------------------------------------
(* Theorems.                                                               *)

(* The invariant holds in every state.                                     *)
THEOREM Invariance == Spec => []IInv
<1>1. IInv /\ [Next]_vars => IInv'
  BY NextInvariant
<1> QED
  BY <1>1, InitInvariant, PTL DEF Spec

(* Every variable keeps its type.                                          *)
THEOREM TypeCorrect == Spec => []TypeOK
<1>1. IInv => TypeOK
  BY DEF IInv
<1> QED
  BY <1>1, Invariance, PTL

(* Every open descriptor has a thread that is going to close it, but for   *)
(* those the code gives up.                                                *)
THEOREM NoLeak == Spec => []DescriptorsClosed
<1>1. Init => OpenInv
  BY InitInvariant, InitKept DEF OpenInv
<1>2. OpenInv /\ [Next]_vars => OpenInv'
  BY NextInvariant, AcceptedOnceStep, KeptStep DEF OpenInv
<1>3. OpenInv => DescriptorsClosed
  <2> SUFFICES ASSUME OpenInv, ~raced, ~(server = "front" /\ end), NEW f \in Fds, table[f] # Nobody
               PROVE  \/ \E t \in Conns :
                            pc[t] = "start" \/ (pc[t] \in {"serve", "close"} /\ sock[t] = f)
                      \/ server = "data" /\ client[table[f]] = "reset"
    BY DEF DescriptorsClosed
  <2>1. table[f] \in Conns
    BY DEF OpenInv, IInv, TypeOK
  <2> QED
    BY <2>1 DEF OpenInv, Kept
<1> QED
  BY <1>1, <1>2, <1>3, PTL DEF Spec

=============================================================================
