------------------------------ MODULE Dispatch ------------------------------
(***************************************************************************)
(* How a connection gets to the thread that serves it: the loop of main in *)
(* front-server.c and data-server.c, and the two answer_call.              *)
(*                                                                         *)
(* main leaves the descriptor it accepted in args, one for all threads,    *)
(* and creates a thread that reads it from there when it first runs.  A    *)
(* descriptor is an index of the process's table; a closed one is given    *)
(* out again, the lowest first.                                            *)
(***************************************************************************)
EXTENDS Integers, Sequences, FiniteSetsExt

CONSTANTS
  Conns,      \* connections; a thread has the name of the one it is made for
  Fds,        \* descriptors the process may have open
  Nobody

ASSUME DispatchAssumption ==
  /\ Fds \subseteq Nat /\ Fds # {}
  /\ Nobody \notin Conns

VARIABLES
  server,     \* which of the two programs this is
  main,       \* main accepts, or has called clean_up
  queue,      \* connections that wait for accept
  table,      \* the descriptors
  args,       \* args->sock_fd
  pc,         \* pc[c]: where the thread made for c is
  sock,       \* sock[c]: its sock_fd
  client,     \* client[c]: what the client does
  end,        \* the server is to leave
  raced       \* for the properties: args was written before a thread read it

vars == <<server, main, queue, table, args, pc, sock, client, end, raced>>

Free == {f \in Fds : table[f] = Nobody}
NoFd == -1

Init ==
  /\ server \in {"front", "data"}
  /\ main = "accept"
  /\ queue = << >>
  /\ table = [f \in Fds |-> Nobody]
  /\ args = NoFd
  /\ pc = [c \in Conns |-> "none"]
  /\ sock = [c \in Conns |-> NoFd]
  /\ client = [c \in Conns |-> "away"]
  /\ end = FALSE /\ raced = FALSE

Goto(c, label) == pc' = [pc EXCEPT ![c] = label]

-----------------------------------------------------------------------------
(* The clients.  One of the front server waits for the port; one of the    *)
(* data server sends requests and waits for their answers.                 *)

Connect(c) ==
  /\ client[c] = "away" /\ main = "accept"
  /\ client' = [client EXCEPT ![c] = "waits"]
  /\ queue' = Append(queue, c)
  /\ UNCHANGED <<server, main, table, args, pc, sock, end, raced>>

(* A client that has its answer may ask again or leave; one that leaves    *)
(* without it resets the connection.                                       *)
Ask(c) ==
  /\ server = "data" /\ client[c] = "answered"
  /\ client' = [client EXCEPT ![c] = "waits"]
  /\ UNCHANGED <<server, main, queue, table, args, pc, sock, end, raced>>

HangUp(c) ==
  /\ \/ client[c] = "answered" /\ client' = [client EXCEPT ![c] = "closed"]
     \/ client[c] = "waits" /\ client' = [client EXCEPT ![c] = "reset"]
  /\ UNCHANGED <<server, main, queue, table, args, pc, sock, end, raced>>

-----------------------------------------------------------------------------
(* main                                                                    *)

(* Fault: main closes what it accepted, as a server that forks would.      *)
AcceptAndClose ==
  /\ main = "accept" /\ queue # << >> /\ Free # {}
  /\ args' = Min(Free) /\ Goto(Head(queue), "start")
  /\ raced' = (raced \/ \E t \in Conns : pc[t] = "start")
  /\ queue' = Tail(queue)
  /\ UNCHANGED <<server, main, table, sock, client, end>>

(* After end was set, the front server makes no more threads.              *)
Accept ==
  /\ main = "accept" /\ queue # << >> /\ Free # {}
  /\ LET f == Min(Free)
         c == Head(queue) IN
     /\ table' = [table EXCEPT ![f] = c]
     /\ IF server = "front" /\ end
        THEN UNCHANGED <<args, pc, raced>>
        ELSE /\ args' = f /\ Goto(c, "start")
             /\ raced' = (raced \/ \E t \in Conns : pc[t] = "start")
  /\ queue' = Tail(queue)
  /\ main' = IF end THEN "left" ELSE "accept"
  /\ UNCHANGED <<server, sock, client, end>>

(* clean_up(-1): the process ends, and all its threads with it.            *)
CleanUp ==
  /\ main' = "failed"
  /\ queue' = << >>
  /\ table' = [f \in Fds |-> Nobody]
  /\ pc' = [c \in Conns |-> "done"]
  /\ client' = [c \in Conns |-> IF client[c] = "waits" THEN "dropped" ELSE client[c]]

(* accept fails when no descriptor is left.  The front server looks at end *)
(* before it looks at what accept returned.                                *)
AcceptFails ==
  /\ main = "accept" /\ queue # << >> /\ Free = {}
  /\ IF server = "front" /\ end
     THEN main' = "left" /\ UNCHANGED <<queue, table, pc, client>>
     ELSE CleanUp
  /\ UNCHANGED <<server, args, sock, end, raced>>

SetEnd ==
  /\ ~end
  /\ end' = TRUE
  /\ UNCHANGED <<server, main, queue, table, args, pc, sock, client, raced>>

-----------------------------------------------------------------------------
(* answer_call                                                             *)

(* It reads the descriptor when it first runs.                             *)
TakeSocket(t) ==
  /\ pc[t] = "start"
  /\ sock' = [sock EXCEPT ![t] = args]
  /\ Goto(t, IF server = "data" /\ end THEN "close" ELSE "serve")
  /\ UNCHANGED <<server, main, queue, table, args, client, end, raced>>

Answered(c) == client' = [client EXCEPT ![c] = IF @ = "waits" THEN "answered" ELSE @]

(* Fault: the thread forgets to close.                                     *)
SendPortOnly(t) ==
  /\ server = "front" /\ pc[t] = "serve"
  /\ IF table[sock[t]] = Nobody THEN UNCHANGED client ELSE Answered(table[sock[t]])
  /\ Goto(t, "done")
  /\ UNCHANGED <<server, main, queue, table, args, sock, end, raced>>

(* The front server sends the port, whoever is at the descriptor.          *)
SendPort(t) ==
  /\ server = "front" /\ pc[t] = "serve"
  /\ IF table[sock[t]] = Nobody THEN UNCHANGED client ELSE Answered(table[sock[t]])
  /\ Goto(t, "close")
  /\ UNCHANGED <<server, main, queue, table, args, sock, end, raced>>

(* The data server handles one request, and asks for end before the next.  *)
HandleRequest(t) ==
  /\ server = "data" /\ pc[t] = "serve"
  /\ table[sock[t]] # Nobody /\ client[table[sock[t]]] = "waits"
  /\ Answered(table[sock[t]])
  /\ Goto(t, IF end THEN "close" ELSE "serve")
  /\ UNCHANGED <<server, main, queue, table, args, sock, end, raced>>

(* -2: the client has closed.                                              *)
ClientClosed(t) ==
  /\ server = "data" /\ pc[t] = "serve"
  /\ table[sock[t]] # Nobody /\ client[table[sock[t]]] = "closed"
  /\ Goto(t, "close")
  /\ UNCHANGED <<server, main, queue, table, args, sock, client, end, raced>>

(* -1, as when the client has reset the connection or another thread has   *)
(* closed the descriptor: the thread returns without closing it.           *)
RequestFails(t) ==
  /\ server = "data" /\ pc[t] = "serve"
  /\ table[sock[t]] # Nobody => client[table[sock[t]]] = "reset"
  /\ Goto(t, "done")
  /\ UNCHANGED <<server, main, queue, table, args, sock, client, end, raced>>

Close(t) ==
  /\ pc[t] = "close"
  /\ table' = [table EXCEPT ![sock[t]] = Nobody]
  /\ Goto(t, "done")
  /\ client' = IF table[sock[t]] = Nobody THEN client
               ELSE [client EXCEPT ![table[sock[t]]] =
                       IF @ = "waits" THEN "dropped" ELSE IF @ = "answered" THEN "closed" ELSE @]
  /\ UNCHANGED <<server, main, queue, args, sock, end, raced>>

Answering(t) ==
  TakeSocket(t) \/ SendPort(t) \/ HandleRequest(t) \/ ClientClosed(t)
    \/ RequestFails(t) \/ Close(t)

Next ==
  \/ \E c \in Conns : Connect(c) \/ Ask(c) \/ HangUp(c)
  \/ SetEnd
  \/ Accept \/ AcceptFails
  \/ \E t \in Conns : Answering(t)

(* The threads of the server run.                                          *)
Fairness ==
  /\ WF_vars(Accept \/ AcceptFails)
  /\ \A t \in Conns : WF_vars(Answering(t))

Spec == Init /\ [][Next]_vars /\ Fairness

-----------------------------------------------------------------------------
(* Properties.                                                             *)

(* Every variable has its type.                                            *)
TypeOK ==
  /\ server \in {"front", "data"}
  /\ main \in {"accept", "left", "failed"}
  /\ queue \in Seq(Conns)
  /\ table \in [Fds -> Conns \cup {Nobody}]
  /\ args \in Fds \cup {NoFd}
  /\ pc \in [Conns -> {"none", "start", "serve", "close", "done"}]
  /\ sock \in [Conns -> Fds \cup {NoFd}]
  /\ client \in [Conns -> {"away", "waits", "answered", "closed", "reset", "dropped"}]
  /\ end \in BOOLEAN /\ raced \in BOOLEAN

(* Every descriptor that is open has a thread that will close it, but for  *)
(* those of the data server whose client has reset the connection (the     *)
(* thread returns without close), and for the client that the front server *)
(* takes last.  The code relies on a new thread to be faster than the next *)
(* connection: once args was overwritten before it was read, two threads   *)
(* have one descriptor and nobody has the other.                           *)
DescriptorsClosed ==
  raced \/ (server = "front" /\ end) \/ \A f \in Fds :
    table[f] # Nobody =>
      \/ \E t \in Conns :
            pc[t] = "start" \/ (pc[t] \in {"serve", "close"} /\ sock[t] = f)
      \/ server = "data" /\ client[table[f]] = "reset"

(* Whoever connects is answered, as long as the server runs and is not     *)
(* told to leave, and no thread lost its descriptor to the next one.       *)
EveryoneAnswered ==
  \A c \in Conns :
    client[c] = "waits" ~> client[c] # "waits" \/ end \/ main = "failed" \/ raced

=============================================================================
