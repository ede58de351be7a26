-------------------------- MODULE HeartbeatProofs --------------------------
(***************************************************************************)
(* The two connection workers keep in step, for any range of ports, any    *)
(* number of crashes of any kind, any scheduling of the main threads, and  *)
(* also when a signal cuts short a call of the front server's worker.      *)
(***************************************************************************)
EXTENDS Heartbeat, SequenceTheorems, TLAPS

Accepted == Server \ {"s_accept"}
Alone == {"unlink", "listen", "loop", "clean_up"}

(* A signal has cut short a call of the front server's worker, which now   *)
(* leaves without a word; the second one was the server.                   *)
Hangs == cut /\ end["front"] /\ pc["front"] \in Alone \cup {"c_close"}
Shut == cut /\ end["front"] /\ pc["front"] \in {"loop", "clean_up"}

(* It has also removed the socket of the data server, which waits in vain. *)
Lost == cut /\ pc["data"] = "s_accept" /\ listener # "data" /\ pending # "data"

Carries(p, name) == box[p] # << >> /\ Head(box[p]).name = name

(* A process that is not there has no end of a connection and no socket.   *)
Down(p) == pc[p] = "down" => ~link[p] /\ listener # p /\ pending # p /\ ~end[p]

(* A new process finds its parent waiting for it, or dead, or leaving.     *)
Newborn(p) ==
  pc[p] \in {"boot", "connect"} =>
    /\ ~link[p] /\ (p = "data" => ~end[p]) /\ pending # Peer(p) /\ pending # p
    /\ pc[Peer(p)] # "down" =>
         pc[Peer(p)] = "s_accept" \/ (p = "data" /\ Shut /\ listener = Peer(p))

(* The other one of a client is its server, as long as it lives.           *)
Paired(p) ==
  pc[p] \in Client =>
    /\ link[p]
    /\ pc[Peer(p)] # "down" =>
         /\ link[Peer(p)]
         /\ \/ pc[Peer(p)] \in Server
            \/ p = "data" /\ Shut /\ ~end[p] /\ ~Carries(p, "EXIT")
         /\ pc[Peer(p)] = "s_accept" =>
              /\ pending = Peer(p) /\ box[p] = << >> /\ pc[p] \in {"c_send", "c_recv"}
              /\ p = "data" => ~end[p]

(* A client gives up its server when that is dead, or when both have been  *)
(* told to end, or when a signal cuts its read short.                      *)
Closing(p) ==
  pc[p] = "c_close" =>
    /\ link[p]
    /\ pc[Peer(p)] # "down" =>
         /\ link[Peer(p)] /\ end[p] /\ pc[Peer(p)] \in Server
         /\ \/ pc[Peer(p)] # "s_accept" /\ end[Peer(p)]
            \/ p = "front" /\ cut /\ (pc[Peer(p)] = "s_accept" => pending = Peer(p))

(* Only the last one left becomes a server that starts the other, unless   *)
(* the front server was cut short.                                         *)
OnItsOwn(p) ==
  pc[p] \in Alone =>
    /\ ~link[p] \/ (p = "front" /\ Shut)
    /\ pc[p] = "clean_up" => end[p]
    /\ IF end[p] THEN pc[Peer(p)] # "down" => end[Peer(p)] \/ (p = "front" /\ cut)
       ELSE \/ pc[Peer(p)] = "down"
            \/ p = "front" /\ Lost
            \/ p = "data" /\ pc[p] = "loop" /\ Hangs
    /\ ~end[p] /\ pc[p] = "loop" => listener = p \/ (p = "data" /\ cut)

Accepting(p) ==
  pc[p] = "s_accept" =>
    /\ listener = p \/ (cut /\ p = "data")
    /\ link[p] <=> pending = p
    /\ \/ pc[Peer(p)] = "down"
       \/ pending = p /\ pc[Peer(p)] \in {"c_send", "c_recv"}
       \/ pending = p /\ p = "data" /\ Hangs
       \/ pending # p /\ pc[Peer(p)] \in {"boot", "connect"}
       \/ p = "data" /\ Lost /\ pc[Peer(p)] \in Alone

(* A server keeps its socket and its client until both are to end, or the  *)
(* client leaves.                                                          *)
Serves(p) ==
  pc[p] \in Accepted =>
    /\ link[p] /\ (~end[p] => listener = p \/ (cut /\ p = "data"))
    /\ \/ pc[Peer(p)] \in Client \cup {"down"}
       \/ end[p] /\ end[Peer(p)] /\ pc[Peer(p)] \in Alone \cup {"c_close"}
       \/ p = "data" /\ Hangs

Role(p) ==
  Down(p) /\ Newborn(p) /\ Paired(p) /\ Closing(p) /\ OnItsOwn(p) /\ Accepting(p) /\ Serves(p)

Twin(p) == pc[p] = "twins" => pc[Peer(p)] \in {"twins", "down"}
Roles == \A p \in Process : Role(p) /\ Twin(p)

(* EXIT and OK are on their way only if their sender is to end.            *)
Orders ==
  /\ end["data"] \/ Carries("data", "EXIT") => end["front"] \/ pc["front"] = "down"
  /\ Carries("front", "OK") => end["data"] \/ pc["data"] = "down"

(* Whose turn it is: it is about to send, or has a token to read.          *)
Speaks(p) == pc[p] \in {"c_send", "c_sleep", "s_send", "s_sleep"}
HasTurn(p) == Speaks(p) \/ box[p] # << >>

InTurn(p) ==
  /\ ~(HasTurn(p) /\ HasTurn(Peer(p)))
  /\ Len(box[p]) <= 1
  /\ Speaks(p) \/ ~link[p] => box[p] = << >>
  /\ pc[p] = "c_recv" /\ pc[Peer(p)] \in {"s_accept", "s_recv"}
       => box[p] # << >> \/ box[Peer(p)] # << >>

Turns == \A p \in Process : InTurn(p)

Waiting(p) == pending = p => pc[p] \in {"s_accept", "twins"} \/ (p = "front" /\ Shut)
Waits == \A p \in Process : Waiting(p)

Ports ==
  /\ main["data"] = "next" => port \in PortBase .. LastPort - 1
  /\ main["data"] = "bind" => port \in FirstPort .. LastPort

(* The roles of two processes, whose turn it is to send, and the types.    *)
IInv == TypeOK /\ Ports /\ Roles /\ Orders /\ Turns /\ Waits

-----------------------------------------------------------------------------
(* The two processes and their boxes.                                      *)

LEMMA Peers ==
  ASSUME NEW p \in Process, NEW q, q = Peer(p)
  PROVE  /\ q \in Process /\ q # p /\ Peer(q) = p
         /\ \A r \in Process : r = p \/ r = q
  BY DEF Process, Peer

LEMMA Boxes ==
  ASSUME TypeOK, NEW p \in Process
  PROVE  /\ box[p] = << >> => \A m \in Token : /\ Append(box[p], m) = <<m>>
                                              /\ Len(<<m>>) = 1 /\ <<m>> # << >>
                                              /\ Head(<<m>>) = m
         /\ box[p] # << >> /\ Len(box[p]) <= 1 =>
              /\ Tail(box[p]) = << >> /\ Len(Tail(box[p])) = 0
              /\ Head(box[p]) \in Token
         /\ Len(<< >>) = 0
<1>1. box[p] \in Seq(Token)
  BY DEF TypeOK
<1>2. ASSUME box[p] # << >>, Len(box[p]) <= 1
      PROVE  /\ Tail(box[p]) = << >> /\ Len(Tail(box[p])) = 0
             /\ Head(box[p]) \in Token
  <2>1. /\ Head(box[p]) \in Token /\ Tail(box[p]) \in Seq(Token)
        /\ Len(Tail(box[p])) = Len(box[p]) - 1
    BY <1>1, <1>2, HeadTailProperties
  <2>2. Len(box[p]) \in Nat /\ Len(box[p]) # 0
    BY <1>1, <1>2, EmptySeq
  <2>3. \A n \in Nat : n # 0 /\ n <= 1 => n - 1 = 0
    OBVIOUS
  <2>4. Len(Tail(box[p])) = 0
    BY <1>2, <2>1, <2>2, <2>3, Zenon
  <2> QED
    BY <2>1, <2>4, EmptySeq
<1>3. ASSUME NEW m \in Token
      PROVE  /\ Append(<< >>, m) = <<m>> /\ Len(<<m>>) = 1
             /\ <<m>> # << >> /\ Head(<<m>>) = m
  OBVIOUS
<1> QED
  BY <1>2, <1>3

LEMMA Tokens ==
  ASSUME TypeOK, NEW p \in Process, HasToken(p) PROVE Outgoing(p) \in Token
  BY PortAssumption DEF TypeOK, HasToken, Outgoing, Token, Msg, Process

LEMMA InitInvariant == Init => IInv
<1> SUFFICES ASSUME Init PROVE IInv
  OBVIOUS
<1>1. TypeOK /\ Ports
  <2>1. box \in [Process -> Seq(Token)]
    BY DEF Init
  <2>2. /\ pc \in [Process -> Worker] /\ main \in [Process -> Main]
        /\ end \in [Process -> BOOLEAN] /\ link \in [Process -> BOOLEAN]
    BY DEF Init, Worker, Main
  <2>3. crashes \in 0 .. MaxCrashes
    BY ScenarioAssumption DEF Init
  <2>4. Ports
    BY DEF Init, Ports, Process
  <2> QED
    BY <2>1, <2>2, <2>3, <2>4 DEF Init, TypeOK
<1>2. Roles
  BY DEF Init, Roles, Role, Process, Peer, Down, Newborn, Paired, Closing, OnItsOwn,
         Accepting, Serves, Client, Server, Accepted, Alone, Twin, Carries
<1>3. Orders /\ Turns /\ Waits
  BY DEF Init, Orders, Carries, Turns, InTurn, HasTurn, Speaks, Waits, Waiting, Process, Peer
<1> QED
  BY <1>1, <1>2, <1>3 DEF IInv

(* The types.                                                              *)
LEMMA TypeStep == TypeOK /\ Ports /\ [Next]_vars => TypeOK' /\ Ports'
<1> SUFFICES ASSUME TypeOK, Ports, [Next]_vars PROVE TypeOK' /\ Ports'
  OBVIOUS
<1> USE PortAssumption, ScenarioAssumption
    DEF Goto, MainGoto, connection, history, TypeOK, Ports, Worker, Main, Client, Server
<1>0. "front" \in Process /\ "data" \in Process /\ "front" # "data"
      /\ \A p \in Process : Peer(p) \in Process
  BY DEF Process, Peer
<1>d. ASSUME NEW p \in Process, Die(p), crashes' \in 0 .. MaxCrashes PROVE TypeOK' /\ Ports'
  <2>1. /\ pc' \in [Process -> Worker] /\ main' \in [Process -> Main]
        /\ end' \in [Process -> BOOLEAN] /\ link' \in [Process -> BOOLEAN]
        /\ pending' \in Process \cup {"none"} /\ listener' \in Process \cup {"none"}
    BY <1>d DEF Die, Gone
  <2>2. box' \in [Process -> Seq(Token)]
    BY <1>d DEF Die, Gone
  <2>3. /\ resend' \in BOOLEAN /\ held' \in BOOLEAN
        /\ port' \in {NoPort} \cup PortBase .. LastPort
        /\ known' \in {NoPort} \cup FirstPort .. LastPort - 1
    BY <1>d DEF Die, Gone
  <2>4. Ports'
    BY <1>0, <1>d DEF Die, Gone
  <2> QED
    BY <1>d, <2>1, <2>2, <2>3, <2>4 DEF Die, Gone
<1>1. ASSUME Boot \/ FrontSocket \/ FrontAssign
      PROVE  TypeOK' /\ Ports'
  BY <1>0, <1>1 DEF Boot, FrontSocket, FrontAssign
<1>a. ASSUME FirstOfPorts \/ NextPort \/ BindPort
      PROVE  TypeOK' /\ Ports'
  <2>1. main' \in [Process -> Main]
    BY <1>a DEF FirstOfPorts, NextPort, BindPort
  <2>2. port' \in {NoPort} \cup PortBase .. LastPort /\ Ports'
    BY <1>0, <1>a DEF FirstOfPorts, NextPort, BindPort, PortBase
  <2> QED
    BY <1>a, <2>1, <2>2 DEF FirstOfPorts, NextPort, BindPort
<1>2. ASSUME NoPortLeft \/ FrontNoSocket \/ MainLeaves PROVE TypeOK' /\ Ports'
  BY <1>0, <1>d, <1>2 DEF NoPortLeft, FrontNoSocket, MainLeaves
<1>3. ASSUME NEW p \in Process, Start(p) PROVE TypeOK' /\ Ports'
  <2>1. pc' \in [Process -> Worker] /\ main' \in [Process -> Main]
    BY <1>3 DEF Start, Exec
  <2>2. Ports'
    BY <1>0, <1>3 DEF Start, Exec
  <2> QED
    BY <1>3, <2>1, <2>2 DEF Start
<1>4. ASSUME NEW p \in Process, Connect(p) PROVE TypeOK' /\ Ports'
  <2>1. pc' \in [Process -> Worker] /\ pending' \in Process \cup {"none"}
    BY <1>4 DEF Connect
  <2>2. link' \in [Process -> BOOLEAN]
    BY <1>4 DEF Connect
  <2>3. box' \in [Process -> Seq(Token)]
    <3>1. box' = box \/ box' = [q \in Process |-> << >>]
      BY <1>4 DEF Connect
    <3>2. << >> \in Seq(Token) /\ box \in [Process -> Seq(Token)]
      OBVIOUS
    <3> QED
      BY <3>1, <3>2
  <2> QED
    BY <1>4, <2>1, <2>2, <2>3 DEF Connect
<1>5. ASSUME NEW p \in Process, Send(p) PROVE TypeOK' /\ Ports'
  <2>1. Outgoing(p) \in Token
    BY <1>5, Tokens DEF Send
  <2>2. box' \in [Process -> Seq(Token)]
    BY <1>0, <1>5, <2>1 DEF Send
  <2>3. pc' \in [Process -> Worker] /\ resend' \in BOOLEAN
    BY <1>5 DEF Send, AfterSend
  <2>4. sent' \in {NoPort} \cup PortBase .. LastPort
    BY <1>5 DEF Send
  <2> QED
    BY <1>5, <2>2, <2>3, <2>4 DEF Send
<1>6. ASSUME NEW p \in Process, BrokenPipe(p) \/ CleanUp(p) \/ Crash(p)
      PROVE  TypeOK' /\ Ports'
  <2>1. crashes' \in 0 .. MaxCrashes
    BY <1>6 DEF BrokenPipe, CleanUp, Crash
  <2> QED
    BY <1>d, <1>6, <2>1 DEF BrokenPipe, CleanUp, Crash
<1>7. ASSUME NEW p \in Process, Receive(p) PROVE TypeOK' /\ Ports'
  <2>1. Head(box[p]) \in Token /\ Tail(box[p]) \in Seq(Token)
    BY <1>7, HeadTailProperties DEF Receive
  <2>2. box' \in [Process -> Seq(Token)]
    BY <1>7, <2>1 DEF Receive
  <2>3. /\ pc' \in [Process -> Worker] /\ end' \in [Process -> BOOLEAN]
        /\ known' \in {NoPort} \cup FirstPort .. LastPort - 1
    <3>1. CASE p = "front"
      <4>1. pc' \in [Process -> Worker]
        BY <1>7, <3>1 DEF Receive, FrontReceives, ToSend, ToSleep
      <4>2. Head(box[p]).port \in {NoPort} \cup PortBase .. LastPort
        BY <2>1 DEF Token
      <4>3. known' \in {NoPort} \cup FirstPort .. LastPort - 1
        BY <1>7, <3>1, <4>2 DEF Receive, FrontReceives, NoPort, PortBase
      <4> QED
        BY <1>7, <3>1, <4>1, <4>3 DEF Receive, FrontReceives
    <3>2. CASE p # "front"
      <4>1. pc' \in [Process -> Worker] /\ end' \in [Process -> BOOLEAN]
        BY <1>7, <3>2 DEF Receive, DataReceives, ToSend, ToSleep
      <4> QED
        BY <1>7, <3>2, <4>1 DEF Receive, DataReceives
    <3> QED
      BY <3>1, <3>2
  <2> QED
    BY <1>7, <2>2, <2>3 DEF Receive
<1>8. ASSUME NEW p \in Process, PeerLost(p) \/ Sleep(p) \/ Close(p) \/ Unlink(p) \/ Listen(p)
      PROVE  TypeOK' /\ Ports'
  <2>1. pc' \in [Process -> Worker] /\ pending' \in Process \cup {"none"} /\ listener' \in Process \cup {"none"}
    BY <1>8 DEF PeerLost, Sleep, Close, Unlink, Listen, ToEnd
  <2>2. link' \in [Process -> BOOLEAN]
    BY <1>8, Zenon DEF PeerLost, Sleep, Close, Unlink, Listen
  <2>3. box' \in [Process -> Seq(Token)]
    <3>1. box' = box \/ box' = [box EXCEPT ![p] = << >>]
      BY <1>8 DEF PeerLost, Sleep, Close, Unlink, Listen
    <3>2. << >> \in Seq(Token) /\ box \in [Process -> Seq(Token)]
      OBVIOUS
    <3> QED
      BY <3>1, <3>2
  <2> QED
    BY <1>8, <2>1, <2>2, <2>3 DEF PeerLost, Sleep, Close, Unlink, Listen
<1>9. ASSUME NEW p \in Process, WakeUp(p) \/ WakeTwin(p) \/ Accept(p) \/ Leave(p)
      PROVE  TypeOK' /\ Ports'
  <2>1. pc' \in [Process -> Worker] /\ main' \in [Process -> Main]
    BY <1>9 DEF WakeUp, WakeTwin, Accept, Leave
  <2>2. Ports'
    BY <1>0, <1>9 DEF WakeUp, WakeTwin, Accept, Leave, Peer
  <2> QED
    BY <1>9, <2>1, <2>2 DEF WakeUp, WakeTwin, Accept, Leave
<1>10. CASE Quit \/ CallInterrupted
  <2>1. end' \in [Process -> BOOLEAN] /\ cut' \in BOOLEAN
    BY <1>0, <1>10 DEF Quit, CallInterrupted
  <2>2. pc' = pc \/ pc' = [pc EXCEPT !["front"] = "c_close"]
        \/ pc' = [pc EXCEPT !["front"] = "loop"]
    BY <1>10 DEF Quit, CallInterrupted
  <2>3. pc' \in [Process -> Worker]
    BY <1>0, <2>2
  <2> QED
    BY <1>0, <1>10, <2>1, <2>3 DEF Quit, CallInterrupted
<1>b. CASE Interrupt
  <2>1. /\ pc' \in [Process -> Worker] /\ main' \in [Process -> Main]
        /\ end' \in [Process -> BOOLEAN] /\ link' \in [Process -> BOOLEAN]
        /\ pending' \in Process \cup {"none"} /\ listener' \in Process \cup {"none"}
    BY <1>b DEF Interrupt, Gone, Process
  <2>2. box' \in [Process -> Seq(Token)]
    <3>1. box' = [box EXCEPT !["data"] = << >>] /\ << >> \in Seq(Token)
      BY <1>b DEF Interrupt, Gone
    <3> QED
      BY <3>1
  <2>3. Ports'
    BY <1>0, <1>b DEF Interrupt, Gone
  <2> QED
    BY <1>b, <2>1, <2>2, <2>3 DEF Interrupt, Gone
<1>11. CASE UNCHANGED vars
  BY <1>11 DEF vars
<1> QED
  BY <1>1, <1>2, <1>3, <1>4, <1>5, <1>6, <1>7, <1>8, <1>9, <1>10, <1>11, <1>a, <1>b
     DEF Next, MainStep, Step

-----------------------------------------------------------------------------
(* The steps of the workers.                                               *)

Good == Roles /\ Orders /\ Turns /\ Waits

(* A client connects to the one that waits for it, or there is none.      *)
LEMMA ConnectStep ==
  ASSUME IInv, NEW p \in Process, Connect(p)
  PROVE  Good'
<1> SUFFICES ASSUME NEW q, q = Peer(p) PROVE Good'
  OBVIOUS
<1>0. /\ q \in Process /\ q # p /\ Peer(q) = p /\ Peer(p) = q
      /\ \A r \in Process : r = p \/ r = q
      /\ Role(p) /\ Role(q) /\ InTurn(p) /\ InTurn(q) /\ Orders
      /\ Waiting(p) /\ Waiting(q) /\ Twin(p) /\ Twin(q)
      /\ \/ p = "front" /\ q = "data"
         \/ p = "data" /\ q = "front"
      /\ p # "none" /\ q # "none"
  BY Peers DEF IInv, Roles, Turns, Waits, Process, Peer
<1>1. /\ cut' = cut /\ pc[p] = "connect" /\ pc'[q] = pc[q] /\ UNCHANGED <<end, listener>>
      /\ IF listener = q THEN /\ pc'[p] = "c_send" /\ link'[p] /\ link'[q] /\ pending' = q
                         /\ box'[p] = << >> /\ box'[q] = << >>
         ELSE pc'[p] = "unlink" /\ UNCHANGED <<link, box, pending>>
  BY <1>0 DEF history, Connect, Goto, connection, TypeOK, IInv
<1>2. Role(p)'
  BY <1>0, <1>1 DEF Role, Down, Newborn, Paired, Closing, OnItsOwn, Accepting, Serves,
         Client, Server, Accepted, Alone, Shut, Hangs, Lost, Carries
<1>3. Role(q)'
  BY <1>0, <1>1 DEF Role, Down, Newborn, Paired, Closing, OnItsOwn, Accepting, Serves,
         Client, Server, Accepted, Alone, Shut, Hangs, Lost, Carries
<1>4. Orders'
  BY <1>0, <1>1 DEF Role, Down, Paired, Orders, Carries, Process
<1>5. InTurn(p)'
  BY <1>0, <1>1 DEF Role, Down, Newborn, Paired, Closing, OnItsOwn, Accepting, Serves,
         Client, Server, Accepted, Alone, Shut, Hangs, Lost, Carries, InTurn, HasTurn, Speaks
<1>6. InTurn(q)'
  BY <1>0, <1>1 DEF Role, Down, Newborn, Paired, Closing, OnItsOwn, Accepting, Serves,
         Client, Server, Accepted, Alone, Shut, Hangs, Lost, Carries, InTurn, HasTurn, Speaks
<1>7. Waiting(p)' /\ Waiting(q)' /\ Twin(p)' /\ Twin(q)'
  BY <1>0, <1>1 DEF Role, Down, Newborn, Paired, Closing, OnItsOwn, Accepting, Serves,
         Client, Server, Accepted, Alone, Shut, Hangs, Lost, Carries, Waiting, Twin
<1> QED
  BY <1>0, <1>2, <1>3, <1>4, <1>5, <1>6, <1>7 DEF Good, Roles, Turns, Waits

(* The socket it removes is nobody's who needs it.                        *)
LEMMA UnlinkStep ==
  ASSUME IInv, NEW p \in Process, Unlink(p)
  PROVE  Good'
<1> SUFFICES ASSUME NEW q, q = Peer(p) PROVE Good'
  OBVIOUS
<1>0. /\ q \in Process /\ q # p /\ Peer(q) = p /\ Peer(p) = q
      /\ \A r \in Process : r = p \/ r = q
      /\ Role(p) /\ Role(q) /\ InTurn(p) /\ InTurn(q) /\ Orders
      /\ Waiting(p) /\ Waiting(q) /\ Twin(p) /\ Twin(q)
      /\ \/ p = "front" /\ q = "data"
         \/ p = "data" /\ q = "front"
      /\ p # "none" /\ q # "none"
  BY Peers DEF IInv, Roles, Turns, Waits, Process, Peer
<1>1. /\ cut' = cut /\ pc[p] = "unlink" /\ pc'[p] = "listen" /\ pc'[q] = pc[q]
      /\ listener' = "none" /\ UNCHANGED <<end, link, box, pending>>
  BY <1>0 DEF history, Unlink, Process, Goto, connection, TypeOK, IInv
<1>2. Role(p)'
  BY <1>0, <1>1 DEF Role, Down, Newborn, Paired, Closing, OnItsOwn, Accepting, Serves,
         Client, Server, Accepted, Alone, Shut, Hangs, Lost, Carries
<1>3. Role(q)'
  <2>1. Down(q)'
    BY <1>0, <1>1 DEF Role, Down, Newborn, Paired, Closing, OnItsOwn, Accepting, Serves,
         Client, Server, Accepted, Alone, Shut, Hangs, Lost, Carries
  <2>2. Newborn(q)'
    BY <1>0, <1>1 DEF Role, Down, Newborn, Paired, Closing, OnItsOwn, Accepting, Serves,
         Client, Server, Accepted, Alone, Shut, Hangs, Lost, Carries
  <2>3. Paired(q)'
    BY <1>0, <1>1 DEF Role, Down, Newborn, Paired, Closing, OnItsOwn, Accepting, Serves,
         Client, Server, Accepted, Alone, Shut, Hangs, Lost, Carries
  <2>4. Closing(q)'
    BY <1>0, <1>1 DEF Role, Down, Newborn, Paired, Closing, OnItsOwn, Accepting, Serves,
         Client, Server, Accepted, Alone, Shut, Hangs, Lost, Carries
  <2>5. OnItsOwn(q)'
    BY <1>0, <1>1 DEF Role, Down, Newborn, Paired, Closing, OnItsOwn, Accepting, Serves,
         Client, Server, Accepted, Alone, Shut, Hangs, Lost, Carries
  <2>6. Accepting(q)'
    BY <1>0, <1>1 DEF Role, Down, Newborn, Paired, Closing, OnItsOwn, Accepting, Serves,
         Client, Server, Accepted, Alone, Shut, Hangs, Lost, Carries
  <2>7. Serves(q)'
    BY <1>0, <1>1 DEF Role, Down, Newborn, Paired, Closing, OnItsOwn, Accepting, Serves,
         Client, Server, Accepted, Alone, Shut, Hangs, Lost, Carries
  <2> QED
    BY <2>1, <2>2, <2>3, <2>4, <2>5, <2>6, <2>7 DEF Role
<1>4. Orders'
  BY <1>0, <1>1 DEF Role, Down, Paired, Orders, Carries, Process
<1>5. InTurn(p)'
  BY <1>0, <1>1 DEF Role, Down, Newborn, Paired, Closing, OnItsOwn, Accepting, Serves,
         Client, Server, Accepted, Alone, Shut, Hangs, Lost, Carries, InTurn, HasTurn, Speaks
<1>6. InTurn(q)'
  BY <1>0, <1>1 DEF Role, Down, Newborn, Paired, Closing, OnItsOwn, Accepting, Serves,
         Client, Server, Accepted, Alone, Shut, Hangs, Lost, Carries, InTurn, HasTurn, Speaks
<1>7. Waiting(p)' /\ Waiting(q)' /\ Twin(p)' /\ Twin(q)'
  BY <1>0, <1>1 DEF Role, Down, Newborn, Paired, Closing, OnItsOwn, Accepting, Serves,
         Client, Server, Accepted, Alone, Shut, Hangs, Lost, Carries, Waiting, Twin
<1> QED
  BY <1>0, <1>2, <1>3, <1>4, <1>5, <1>6, <1>7 DEF Good, Roles, Turns, Waits

(* It is now the one who listens.                                         *)
LEMMA ListenStep ==
  ASSUME IInv, NEW p \in Process, Listen(p)
  PROVE  Good'
<1> SUFFICES ASSUME NEW q, q = Peer(p) PROVE Good'
  OBVIOUS
<1>0. /\ q \in Process /\ q # p /\ Peer(q) = p /\ Peer(p) = q
      /\ \A r \in Process : r = p \/ r = q
      /\ Role(p) /\ Role(q) /\ InTurn(p) /\ InTurn(q) /\ Orders
      /\ Waiting(p) /\ Waiting(q) /\ Twin(p) /\ Twin(q)
      /\ \/ p = "front" /\ q = "data"
         \/ p = "data" /\ q = "front"
      /\ p # "none" /\ q # "none"
  BY Peers DEF IInv, Roles, Turns, Waits, Process, Peer
<1>1. /\ cut' = cut /\ pc[p] = "listen" /\ pc'[p] = "loop" /\ pc'[q] = pc[q]
      /\ listener' = p /\ UNCHANGED <<end, link, box, pending>>
  BY <1>0 DEF history, Listen, Goto, connection, TypeOK, IInv
<1>2. Role(p)'
  BY <1>0, <1>1 DEF Role, Down, Newborn, Paired, Closing, OnItsOwn, Accepting, Serves,
         Client, Server, Accepted, Alone, Shut, Hangs, Lost, Carries
<1>3. Role(q)'
  <2>1. Down(q)'
    BY <1>0, <1>1 DEF Role, Down, Newborn, Paired, Closing, OnItsOwn, Accepting, Serves,
         Client, Server, Accepted, Alone, Shut, Hangs, Lost, Carries
  <2>2. Newborn(q)'
    BY <1>0, <1>1 DEF Role, Down, Newborn, Paired, Closing, OnItsOwn, Accepting, Serves,
         Client, Server, Accepted, Alone, Shut, Hangs, Lost, Carries
  <2>3. Paired(q)'
    BY <1>0, <1>1 DEF Role, Down, Newborn, Paired, Closing, OnItsOwn, Accepting, Serves,
         Client, Server, Accepted, Alone, Shut, Hangs, Lost, Carries
  <2>4. Closing(q)'
    BY <1>0, <1>1 DEF Role, Down, Newborn, Paired, Closing, OnItsOwn, Accepting, Serves,
         Client, Server, Accepted, Alone, Shut, Hangs, Lost, Carries
  <2>5. OnItsOwn(q)'
    BY <1>0, <1>1 DEF Role, Down, Newborn, Paired, Closing, OnItsOwn, Accepting, Serves,
         Client, Server, Accepted, Alone, Shut, Hangs, Lost, Carries
  <2>6. Accepting(q)'
    BY <1>0, <1>1 DEF Role, Down, Newborn, Paired, Closing, OnItsOwn, Accepting, Serves,
         Client, Server, Accepted, Alone, Shut, Hangs, Lost, Carries
  <2>7. Serves(q)'
    BY <1>0, <1>1 DEF Role, Down, Newborn, Paired, Closing, OnItsOwn, Accepting, Serves,
         Client, Server, Accepted, Alone, Shut, Hangs, Lost, Carries
  <2> QED
    BY <2>1, <2>2, <2>3, <2>4, <2>5, <2>6, <2>7 DEF Role
<1>4. Orders'
  BY <1>0, <1>1 DEF Role, Down, Paired, Orders, Carries, Process
<1>5. InTurn(p)'
  BY <1>0, <1>1 DEF Role, Down, Newborn, Paired, Closing, OnItsOwn, Accepting, Serves,
         Client, Server, Accepted, Alone, Shut, Hangs, Lost, Carries, InTurn, HasTurn, Speaks
<1>6. InTurn(q)'
  BY <1>0, <1>1 DEF Role, Down, Newborn, Paired, Closing, OnItsOwn, Accepting, Serves,
         Client, Server, Accepted, Alone, Shut, Hangs, Lost, Carries, InTurn, HasTurn, Speaks
<1>7. Waiting(p)' /\ Waiting(q)' /\ Twin(p)' /\ Twin(q)'
  BY <1>0, <1>1 DEF Role, Down, Newborn, Paired, Closing, OnItsOwn, Accepting, Serves,
         Client, Server, Accepted, Alone, Shut, Hangs, Lost, Carries, Waiting, Twin
<1> QED
  BY <1>0, <1>2, <1>3, <1>4, <1>5, <1>6, <1>7 DEF Good, Roles, Turns, Waits

(* A client closes its end.                                               *)
LEMMA CloseStep ==
  ASSUME IInv, NEW p \in Process, Close(p)
  PROVE  Good'
<1> SUFFICES ASSUME NEW q, q = Peer(p) PROVE Good'
  OBVIOUS
<1>0. /\ q \in Process /\ q # p /\ Peer(q) = p /\ Peer(p) = q
      /\ \A r \in Process : r = p \/ r = q
      /\ Role(p) /\ Role(q) /\ InTurn(p) /\ InTurn(q) /\ Orders
      /\ Waiting(p) /\ Waiting(q) /\ Twin(p) /\ Twin(q)
      /\ \/ p = "front" /\ q = "data"
         \/ p = "data" /\ q = "front"
      /\ p # "none" /\ q # "none"
  BY Peers DEF IInv, Roles, Turns, Waits, Process, Peer
<1>1. /\ cut' = cut /\ pc[p] = "c_close" /\ pc'[p] = "unlink" /\ pc'[q] = pc[q]
      /\ ~link'[p] /\ link'[q] = link[q]
      /\ box'[p] = << >> /\ box'[q] = box[q]
      /\ UNCHANGED <<end, listener, pending>>
      /\ Len(<< >>) = 0
  BY <1>0 DEF history, Close, Goto, connection, TypeOK, IInv
<1>2. Role(p)'
  BY <1>0, <1>1 DEF Role, Down, Newborn, Paired, Closing, OnItsOwn, Accepting, Serves,
         Client, Server, Accepted, Alone, Shut, Hangs, Lost, Carries
<1>3. Role(q)'
  BY <1>0, <1>1 DEF Role, Down, Newborn, Paired, Closing, OnItsOwn, Accepting, Serves,
         Client, Server, Accepted, Alone, Shut, Hangs, Lost, Carries
<1>4. Orders'
  BY <1>0, <1>1 DEF Role, Down, Paired, Orders, Carries, Process
<1>5. InTurn(p)'
  BY <1>0, <1>1 DEF Role, Down, Newborn, Paired, Closing, OnItsOwn, Accepting, Serves,
         Client, Server, Accepted, Alone, Shut, Hangs, Lost, Carries, InTurn, HasTurn, Speaks
<1>6. InTurn(q)'
  BY <1>0, <1>1 DEF Role, Down, Newborn, Paired, Closing, OnItsOwn, Accepting, Serves,
         Client, Server, Accepted, Alone, Shut, Hangs, Lost, Carries, InTurn, HasTurn, Speaks
<1>7. Waiting(p)' /\ Waiting(q)' /\ Twin(p)' /\ Twin(q)'
  BY <1>0, <1>1 DEF Role, Down, Newborn, Paired, Closing, OnItsOwn, Accepting, Serves,
         Client, Server, Accepted, Alone, Shut, Hangs, Lost, Carries, Waiting, Twin
<1> QED
  BY <1>0, <1>2, <1>3, <1>4, <1>5, <1>6, <1>7 DEF Good, Roles, Turns, Waits

(* Between a token read and the answer to it.                             *)
LEMMA SleepStep ==
  ASSUME IInv, NEW p \in Process, Sleep(p)
  PROVE  Good'
<1> SUFFICES ASSUME NEW q, q = Peer(p) PROVE Good'
  OBVIOUS
<1>0. /\ q \in Process /\ q # p /\ Peer(q) = p /\ Peer(p) = q
      /\ \A r \in Process : r = p \/ r = q
      /\ Role(p) /\ Role(q) /\ InTurn(p) /\ InTurn(q) /\ Orders
      /\ Waiting(p) /\ Waiting(q) /\ Twin(p) /\ Twin(q)
      /\ \/ p = "front" /\ q = "data"
         \/ p = "data" /\ q = "front"
      /\ p # "none" /\ q # "none"
  BY Peers DEF IInv, Roles, Turns, Waits, Process, Peer
<1>1. /\ cut' = cut /\ pc[p] \in {"c_sleep", "s_sleep"}
      /\ pc'[p] = IF pc[p] = "c_sleep" THEN "c_send" ELSE "s_send"
      /\ pc'[q] = pc[q] /\ UNCHANGED <<end, link, box, listener, pending>>
  BY <1>0 DEF history, Sleep, Goto, connection, TypeOK, IInv
<1>2. Role(p)'
  BY <1>0, <1>1 DEF Role, Down, Newborn, Paired, Closing, OnItsOwn, Accepting, Serves,
         Client, Server, Accepted, Alone, Shut, Hangs, Lost, Carries
<1>3. Role(q)'
  BY <1>0, <1>1 DEF Role, Down, Newborn, Paired, Closing, OnItsOwn, Accepting, Serves,
         Client, Server, Accepted, Alone, Shut, Hangs, Lost, Carries
<1>4. Orders'
  BY <1>0, <1>1 DEF Role, Down, Paired, Orders, Carries, Process
<1>5. InTurn(p)'
  BY <1>0, <1>1 DEF Role, Down, Newborn, Paired, Closing, OnItsOwn, Accepting, Serves,
         Client, Server, Accepted, Alone, Shut, Hangs, Lost, Carries, InTurn, HasTurn, Speaks
<1>6. InTurn(q)'
  BY <1>0, <1>1 DEF Role, Down, Newborn, Paired, Closing, OnItsOwn, Accepting, Serves,
         Client, Server, Accepted, Alone, Shut, Hangs, Lost, Carries, InTurn, HasTurn, Speaks
<1>7. Waiting(p)' /\ Waiting(q)' /\ Twin(p)' /\ Twin(q)'
  BY <1>0, <1>1 DEF Role, Down, Newborn, Paired, Closing, OnItsOwn, Accepting, Serves,
         Client, Server, Accepted, Alone, Shut, Hangs, Lost, Carries, Waiting, Twin
<1> QED
  BY <1>0, <1>2, <1>3, <1>4, <1>5, <1>6, <1>7 DEF Good, Roles, Turns, Waits

(* The server accepts the one client there is.                            *)
LEMMA AcceptStep ==
  ASSUME IInv, NEW p \in Process, Accept(p)
  PROVE  Good'
<1> SUFFICES ASSUME NEW q, q = Peer(p) PROVE Good'
  OBVIOUS
<1>0. /\ q \in Process /\ q # p /\ Peer(q) = p /\ Peer(p) = q
      /\ \A r \in Process : r = p \/ r = q
      /\ Role(p) /\ Role(q) /\ InTurn(p) /\ InTurn(q) /\ Orders
      /\ Waiting(p) /\ Waiting(q) /\ Twin(p) /\ Twin(q)
      /\ \/ p = "front" /\ q = "data"
         \/ p = "data" /\ q = "front"
      /\ p # "none" /\ q # "none"
  BY Peers DEF IInv, Roles, Turns, Waits, Process, Peer
<1>1. /\ cut' = cut /\ pc[p] = "s_accept" /\ pending = p
      /\ pc'[p] = "s_recv" /\ pc'[q] = pc[q]
      /\ pending' = "none" /\ UNCHANGED <<end, link, box, listener>>
  BY <1>0 DEF history, Accept, Goto, connection, TypeOK, IInv
<1>2. Role(p)'
  BY <1>0, <1>1 DEF Role, Down, Newborn, Paired, Closing, OnItsOwn, Accepting, Serves,
         Client, Server, Accepted, Alone, Shut, Hangs, Lost, Carries
<1>3. Role(q)'
  BY <1>0, <1>1 DEF Role, Down, Newborn, Paired, Closing, OnItsOwn, Accepting, Serves,
         Client, Server, Accepted, Alone, Shut, Hangs, Lost, Carries
<1>4. Orders'
  BY <1>0, <1>1 DEF Role, Down, Paired, Orders, Carries, Process
<1>5. InTurn(p)'
  BY <1>0, <1>1 DEF Role, Down, Newborn, Paired, Closing, OnItsOwn, Accepting, Serves,
         Client, Server, Accepted, Alone, Shut, Hangs, Lost, Carries, InTurn, HasTurn, Speaks
<1>6. InTurn(q)'
  BY <1>0, <1>1 DEF Role, Down, Newborn, Paired, Closing, OnItsOwn, Accepting, Serves,
         Client, Server, Accepted, Alone, Shut, Hangs, Lost, Carries, InTurn, HasTurn, Speaks
<1>7. Waiting(p)' /\ Waiting(q)' /\ Twin(p)' /\ Twin(q)'
  BY <1>0, <1>1 DEF Role, Down, Newborn, Paired, Closing, OnItsOwn, Accepting, Serves,
         Client, Server, Accepted, Alone, Shut, Hangs, Lost, Carries, Waiting, Twin
<1> QED
  BY <1>0, <1>2, <1>3, <1>4, <1>5, <1>6, <1>7 DEF Good, Roles, Turns, Waits

(* It has been told to end.                                               *)
LEMMA LeaveStep ==
  ASSUME IInv, NEW p \in Process, Leave(p)
  PROVE  Good'
<1> SUFFICES ASSUME NEW q, q = Peer(p) PROVE Good'
  OBVIOUS
<1>0. /\ q \in Process /\ q # p /\ Peer(q) = p /\ Peer(p) = q
      /\ \A r \in Process : r = p \/ r = q
      /\ Role(p) /\ Role(q) /\ InTurn(p) /\ InTurn(q) /\ Orders
      /\ Waiting(p) /\ Waiting(q) /\ Twin(p) /\ Twin(q)
      /\ \/ p = "front" /\ q = "data"
         \/ p = "data" /\ q = "front"
      /\ p # "none" /\ q # "none"
  BY Peers DEF IInv, Roles, Turns, Waits, Process, Peer
<1>1. /\ cut' = cut /\ pc[p] = "loop" /\ end[p]
      /\ pc'[p] = "clean_up" /\ pc'[q] = pc[q]
      /\ UNCHANGED <<end, link, box, listener, pending>>
  BY <1>0 DEF history, Leave, Goto, connection, TypeOK, IInv
<1>2. Role(p)'
  BY <1>0, <1>1 DEF Role, Down, Newborn, Paired, Closing, OnItsOwn, Accepting, Serves,
         Client, Server, Accepted, Alone, Shut, Hangs, Lost, Carries
<1>3. Role(q)'
  BY <1>0, <1>1 DEF Role, Down, Newborn, Paired, Closing, OnItsOwn, Accepting, Serves,
         Client, Server, Accepted, Alone, Shut, Hangs, Lost, Carries
<1>4. Orders'
  BY <1>0, <1>1 DEF Role, Down, Paired, Orders, Carries, Process
<1>5. InTurn(p)'
  BY <1>0, <1>1 DEF Role, Down, Newborn, Paired, Closing, OnItsOwn, Accepting, Serves,
         Client, Server, Accepted, Alone, Shut, Hangs, Lost, Carries, InTurn, HasTurn, Speaks
<1>6. InTurn(q)'
  BY <1>0, <1>1 DEF Role, Down, Newborn, Paired, Closing, OnItsOwn, Accepting, Serves,
         Client, Server, Accepted, Alone, Shut, Hangs, Lost, Carries, InTurn, HasTurn, Speaks
<1>7. Waiting(p)' /\ Waiting(q)' /\ Twin(p)' /\ Twin(q)'
  BY <1>0, <1>1 DEF Role, Down, Newborn, Paired, Closing, OnItsOwn, Accepting, Serves,
         Client, Server, Accepted, Alone, Shut, Hangs, Lost, Carries, Waiting, Twin
<1> QED
  BY <1>0, <1>2, <1>3, <1>4, <1>5, <1>6, <1>7 DEF Good, Roles, Turns, Waits

(* It starts the other one, which is not there.                           *)
LEMMA WakeUpStep ==
  ASSUME IInv, NEW p \in Process, WakeUp(p)
  PROVE  Good'
<1> SUFFICES ASSUME NEW q, q = Peer(p) PROVE Good'
  OBVIOUS
<1>0. /\ q \in Process /\ q # p /\ Peer(q) = p /\ Peer(p) = q
      /\ \A r \in Process : r = p \/ r = q
      /\ Role(p) /\ Role(q) /\ InTurn(p) /\ InTurn(q) /\ Orders
      /\ Waiting(p) /\ Waiting(q) /\ Twin(p) /\ Twin(q)
      /\ \/ p = "front" /\ q = "data"
         \/ p = "data" /\ q = "front"
      /\ p # "none" /\ q # "none"
  BY Peers DEF IInv, Roles, Turns, Waits, Process, Peer
<1>1. /\ cut' = cut /\ pc[p] = "loop" /\ ~end[p] /\ pc[q] = "down"
      /\ pc'[p] = "s_accept" /\ pc'[q] \in {"boot", "connect"}
      /\ UNCHANGED <<end, link, box, listener, pending>>
  BY <1>0 DEF history, WakeUp, Goto, connection, TypeOK, IInv
<1>2. Role(p)'
  BY <1>0, <1>1 DEF Role, Down, Newborn, Paired, Closing, OnItsOwn, Accepting, Serves,
         Client, Server, Accepted, Alone, Shut, Hangs, Lost, Carries, Waiting
<1>3. Role(q)'
  BY <1>0, <1>1 DEF Role, Down, Newborn, Paired, Closing, OnItsOwn, Accepting, Serves,
         Client, Server, Accepted, Alone, Shut, Hangs, Lost, Carries, Waiting
<1>4. Orders'
  BY <1>0, <1>1 DEF Role, Down, Paired, Orders, Carries, Process, OnItsOwn, Alone, InTurn,
         Shut, Hangs, Lost
<1>5. InTurn(p)'
  BY <1>0, <1>1 DEF Role, Down, Newborn, Paired, Closing, OnItsOwn, Accepting, Serves,
         Client, Server, Accepted, Alone, Shut, Hangs, Lost, Carries, InTurn, HasTurn, Speaks
<1>6. InTurn(q)'
  BY <1>0, <1>1 DEF Role, Down, Newborn, Paired, Closing, OnItsOwn, Accepting, Serves,
         Client, Server, Accepted, Alone, Shut, Hangs, Lost, Carries, InTurn, HasTurn, Speaks
<1>7. Waiting(p)' /\ Waiting(q)' /\ Twin(p)' /\ Twin(q)'
  BY <1>0, <1>1 DEF Role, Down, Newborn, Paired, Closing, OnItsOwn, Accepting, Serves,
         Client, Server, Accepted, Alone, Shut, Hangs, Lost, Carries, Waiting, Twin
<1> QED
  BY <1>0, <1>2, <1>3, <1>4, <1>5, <1>6, <1>7 DEF Good, Roles, Turns, Waits

(* It reads the end of the connection.                                    *)
LEMMA PeerLostStep ==
  ASSUME IInv, NEW p \in Process, PeerLost(p)
  PROVE  Good'
<1> SUFFICES ASSUME NEW q, q = Peer(p) PROVE Good'
  OBVIOUS
<1>0. /\ q \in Process /\ q # p /\ Peer(q) = p /\ Peer(p) = q
      /\ \A r \in Process : r = p \/ r = q
      /\ Role(p) /\ Role(q) /\ InTurn(p) /\ InTurn(q) /\ Orders
      /\ Waiting(p) /\ Waiting(q) /\ Twin(p) /\ Twin(q)
      /\ \/ p = "front" /\ q = "data"
         \/ p = "data" /\ q = "front"
      /\ p # "none" /\ q # "none"
  BY Peers DEF IInv, Roles, Turns, Waits, Process, Peer
<1>1. /\ cut' = cut /\ pc[p] \in {"c_recv", "s_recv"} /\ box[p] = << >> /\ ~link[q]
      /\ pc'[p] = IF pc[p] = "c_recv" THEN "c_close" ELSE "loop"
      /\ pc'[q] = pc[q] /\ link'[q] = link[q]
      /\ link'[p] = (pc[p] = "c_recv")
      /\ UNCHANGED <<end, box, listener, pending>>
  BY <1>0 DEF history, PeerLost, ToEnd, Goto, connection, TypeOK, IInv
<1>2. Role(p)'
  BY <1>0, <1>1 DEF Role, Down, Newborn, Paired, Closing, OnItsOwn, Accepting, Serves,
         Client, Server, Accepted, Alone, Shut, Hangs, Lost, Carries
<1>3. Role(q)'
  BY <1>0, <1>1 DEF Role, Down, Newborn, Paired, Closing, OnItsOwn, Accepting, Serves,
         Client, Server, Accepted, Alone, Shut, Hangs, Lost, Carries
<1>4. Orders'
  BY <1>0, <1>1 DEF Role, Down, Paired, Orders, Carries, Process
<1>5. InTurn(p)'
  BY <1>0, <1>1 DEF Role, Down, Newborn, Paired, Closing, OnItsOwn, Accepting, Serves,
         Client, Server, Accepted, Alone, Shut, Hangs, Lost, Carries, InTurn, HasTurn, Speaks
<1>6. InTurn(q)'
  BY <1>0, <1>1 DEF Role, Down, Newborn, Paired, Closing, OnItsOwn, Accepting, Serves,
         Client, Server, Accepted, Alone, Shut, Hangs, Lost, Carries, InTurn, HasTurn, Speaks
<1>7. Waiting(p)' /\ Waiting(q)' /\ Twin(p)' /\ Twin(q)'
  BY <1>0, <1>1 DEF Role, Down, Newborn, Paired, Closing, OnItsOwn, Accepting, Serves,
         Client, Server, Accepted, Alone, Shut, Hangs, Lost, Carries, Waiting, Twin
<1> QED
  BY <1>0, <1>2, <1>3, <1>4, <1>5, <1>6, <1>7 DEF Good, Roles, Turns, Waits

(* It dies, for whatever reason.                                          *)
LEMMA GoneStep ==
  ASSUME IInv, NEW p \in Process, Gone(p), ~end'[p],
         end'[Peer(p)] = end[Peer(p)] \/ (Peer(p) = "front" /\ pc[Peer(p)] # "down" /\ end'[Peer(p)])
  PROVE  Good'
<1> SUFFICES ASSUME NEW q, q = Peer(p) PROVE Good'
  OBVIOUS
<1>0. /\ q \in Process /\ q # p /\ Peer(q) = p /\ Peer(p) = q
      /\ \A r \in Process : r = p \/ r = q
      /\ Role(p) /\ Role(q) /\ InTurn(p) /\ InTurn(q) /\ Orders
      /\ Waiting(p) /\ Waiting(q) /\ Twin(p) /\ Twin(q)
      /\ \/ p = "front" /\ q = "data"
         \/ p = "data" /\ q = "front"
      /\ p # "none" /\ q # "none"
  BY Peers DEF IInv, Roles, Turns, Waits, Process, Peer
<1>1. /\ cut' = cut /\ pc'[p] = "down" /\ pc'[q] = pc[q] /\ ~end'[p]
      /\ ~link'[p] /\ link'[q] = link[q]
      /\ box'[p] = << >> /\ box'[q] = box[q] /\ Len(<< >>) = 0
      /\ pending' = IF pending = p THEN "none" ELSE pending
      /\ listener' = IF listener = p THEN "none" ELSE listener
      /\ end'[q] = end[q] \/ (q = "front" /\ pc[q] # "down" /\ end'[q])
  BY <1>0 DEF history, Gone, Process, Goto, connection, TypeOK, IInv
<1>2. Role(p)'
  BY <1>0, <1>1 DEF Role, Down, Newborn, Paired, Closing, OnItsOwn, Accepting, Serves,
         Client, Server, Accepted, Alone, Shut, Hangs, Lost, Carries
<1>3. Role(q)'
  <2>1. Down(q)'
    BY <1>0, <1>1 DEF Role, Down, Newborn, Paired, Closing, OnItsOwn, Accepting, Serves,
         Client, Server, Accepted, Alone, Shut, Hangs, Lost, Carries
  <2>2. Newborn(q)'
    BY <1>0, <1>1 DEF Role, Down, Newborn, Paired, Closing, OnItsOwn, Accepting, Serves,
         Client, Server, Accepted, Alone, Shut, Hangs, Lost, Carries
  <2>3. Paired(q)'
    BY <1>0, <1>1 DEF Role, Down, Newborn, Paired, Closing, OnItsOwn, Accepting, Serves,
         Client, Server, Accepted, Alone, Shut, Hangs, Lost, Carries
  <2>4. Closing(q)'
    BY <1>0, <1>1 DEF Role, Down, Newborn, Paired, Closing, OnItsOwn, Accepting, Serves,
         Client, Server, Accepted, Alone, Shut, Hangs, Lost, Carries
  <2>5. OnItsOwn(q)'
    BY <1>0, <1>1 DEF Role, Down, Newborn, Paired, Closing, OnItsOwn, Accepting, Serves,
         Client, Server, Accepted, Alone, Shut, Hangs, Lost, Carries
  <2>6. Accepting(q)'
    BY <1>0, <1>1 DEF Role, Down, Newborn, Paired, Closing, OnItsOwn, Accepting, Serves,
         Client, Server, Accepted, Alone, Shut, Hangs, Lost, Carries
  <2>7. Serves(q)'
    BY <1>0, <1>1 DEF Role, Down, Newborn, Paired, Closing, OnItsOwn, Accepting, Serves,
         Client, Server, Accepted, Alone, Shut, Hangs, Lost, Carries
  <2> QED
    BY <2>1, <2>2, <2>3, <2>4, <2>5, <2>6, <2>7 DEF Role
<1>4. Orders'
  BY <1>0, <1>1 DEF Role, Down, Paired, Orders, Carries, Process
<1>5. InTurn(p)'
  BY <1>0, <1>1 DEF Role, Down, Newborn, Paired, Closing, OnItsOwn, Accepting, Serves,
         Client, Server, Accepted, Alone, Shut, Hangs, Lost, Carries, InTurn, HasTurn, Speaks
<1>6. InTurn(q)'
  BY <1>0, <1>1 DEF Role, Down, Newborn, Paired, Closing, OnItsOwn, Accepting, Serves,
         Client, Server, Accepted, Alone, Shut, Hangs, Lost, Carries, InTurn, HasTurn, Speaks
<1>7. Waiting(p)' /\ Waiting(q)' /\ Twin(p)' /\ Twin(q)'
  BY <1>0, <1>1 DEF Role, Down, Newborn, Paired, Closing, OnItsOwn, Accepting, Serves,
         Client, Server, Accepted, Alone, Shut, Hangs, Lost, Carries, Waiting, Twin
<1> QED
  BY <1>0, <1>2, <1>3, <1>4, <1>5, <1>6, <1>7 DEF Good, Roles, Turns, Waits

(* The user, or a signal, tells the front server to end.                  *)
LEMMA QuitStep ==
  ASSUME IInv, NEW p \in Process, Quit, p = "front"
  PROVE  Good'
<1> SUFFICES ASSUME NEW q, q = Peer(p) PROVE Good'
  OBVIOUS
<1>0. /\ q \in Process /\ q # p /\ Peer(q) = p /\ Peer(p) = q
      /\ \A r \in Process : r = p \/ r = q
      /\ Role(p) /\ Role(q) /\ InTurn(p) /\ InTurn(q) /\ Orders
      /\ Waiting(p) /\ Waiting(q) /\ Twin(p) /\ Twin(q)
      /\ \/ p = "front" /\ q = "data"
         \/ p = "data" /\ q = "front"
      /\ p # "none" /\ q # "none"
  BY Peers DEF IInv, Roles, Turns, Waits, Process, Peer
<1>1. /\ cut' = cut /\ pc[p] # "down" /\ end'[p] /\ end'[q] = end[q]
      /\ UNCHANGED <<pc, link, box, listener, pending>>
      /\ p = "front" /\ q = "data"
  BY <1>0 DEF history, Quit, Peer, Goto, connection, TypeOK, IInv
<1>2. Role(p)'
  BY <1>0, <1>1 DEF Role, Down, Newborn, Paired, Closing, OnItsOwn, Accepting, Serves,
         Client, Server, Accepted, Alone, Shut, Hangs, Lost, Carries
<1>3. Role(q)'
  BY <1>0, <1>1 DEF Role, Down, Newborn, Paired, Closing, OnItsOwn, Accepting, Serves,
         Client, Server, Accepted, Alone, Shut, Hangs, Lost, Carries
<1>4. Orders'
  BY <1>0, <1>1 DEF Role, Down, Paired, Orders, Carries, Process
<1>5. InTurn(p)'
  BY <1>0, <1>1 DEF Role, Down, Newborn, Paired, Closing, OnItsOwn, Accepting, Serves,
         Client, Server, Accepted, Alone, Shut, Hangs, Lost, Carries, InTurn, HasTurn, Speaks
<1>6. InTurn(q)'
  BY <1>0, <1>1 DEF Role, Down, Newborn, Paired, Closing, OnItsOwn, Accepting, Serves,
         Client, Server, Accepted, Alone, Shut, Hangs, Lost, Carries, InTurn, HasTurn, Speaks
<1>7. Waiting(p)' /\ Waiting(q)' /\ Twin(p)' /\ Twin(q)'
  BY <1>0, <1>1 DEF Role, Down, Newborn, Paired, Closing, OnItsOwn, Accepting, Serves,
         Client, Server, Accepted, Alone, Shut, Hangs, Lost, Carries, Waiting, Twin
<1> QED
  BY <1>0, <1>2, <1>3, <1>4, <1>5, <1>6, <1>7 DEF Good, Roles, Turns, Waits

(* The user starts a process when there is none.                          *)
LEMMA StartStep ==
  ASSUME IInv, NEW p \in Process, Start(p)
  PROVE  Good'
<1> SUFFICES ASSUME NEW q, q = Peer(p) PROVE Good'
  OBVIOUS
<1>0. /\ q \in Process /\ q # p /\ Peer(q) = p /\ Peer(p) = q
      /\ \A r \in Process : r = p \/ r = q
      /\ Role(p) /\ Role(q) /\ InTurn(p) /\ InTurn(q) /\ Orders
      /\ Waiting(p) /\ Waiting(q) /\ Twin(p) /\ Twin(q)
      /\ \/ p = "front" /\ q = "data"
         \/ p = "data" /\ q = "front"
      /\ p # "none" /\ q # "none"
  BY Peers DEF IInv, Roles, Turns, Waits, Process, Peer
<1>1. /\ cut' = cut /\ pc[p] = "down" /\ pc[q] = "down"
      /\ pc'[p] \in {"boot", "connect"} /\ pc'[q] = "down"
      /\ UNCHANGED <<end, link, box, listener, pending>>
  BY <1>0 DEF history, Start, Exec, Goto, connection, TypeOK, IInv
<1>2. Role(p)'
  BY <1>0, <1>1 DEF Role, Down, Newborn, Paired, Closing, OnItsOwn, Accepting, Serves,
         Client, Server, Accepted, Alone, Shut, Hangs, Lost, Carries
<1>3. Role(q)'
  BY <1>0, <1>1 DEF Role, Down, Newborn, Paired, Closing, OnItsOwn, Accepting, Serves,
         Client, Server, Accepted, Alone, Shut, Hangs, Lost, Carries
<1>4. Orders'
  BY <1>0, <1>1 DEF Role, Down, Paired, Orders, Carries, Process, InTurn
<1>5. InTurn(p)'
  BY <1>0, <1>1 DEF Role, Down, Newborn, Paired, Closing, OnItsOwn, Accepting, Serves,
         Client, Server, Accepted, Alone, Shut, Hangs, Lost, Carries, InTurn, HasTurn, Speaks
<1>6. InTurn(q)'
  BY <1>0, <1>1 DEF Role, Down, Newborn, Paired, Closing, OnItsOwn, Accepting, Serves,
         Client, Server, Accepted, Alone, Shut, Hangs, Lost, Carries, InTurn, HasTurn, Speaks
<1>7. Waiting(p)' /\ Waiting(q)' /\ Twin(p)' /\ Twin(q)'
  BY <1>0, <1>1 DEF Role, Down, Newborn, Paired, Closing, OnItsOwn, Accepting, Serves,
         Client, Server, Accepted, Alone, Shut, Hangs, Lost, Carries, Waiting, Twin
<1> QED
  BY <1>0, <1>2, <1>3, <1>4, <1>5, <1>6, <1>7 DEF Good, Roles, Turns, Waits

(* setup_backup is done.                                                  *)
LEMMA BootStep ==
  ASSUME IInv, NEW p \in Process, Boot, p = "data"
  PROVE  Good'
<1> SUFFICES ASSUME NEW q, q = Peer(p) PROVE Good'
  OBVIOUS
<1>0. /\ q \in Process /\ q # p /\ Peer(q) = p /\ Peer(p) = q
      /\ \A r \in Process : r = p \/ r = q
      /\ Role(p) /\ Role(q) /\ InTurn(p) /\ InTurn(q) /\ Orders
      /\ Waiting(p) /\ Waiting(q) /\ Twin(p) /\ Twin(q)
      /\ \/ p = "front" /\ q = "data"
         \/ p = "data" /\ q = "front"
      /\ p # "none" /\ q # "none"
  BY Peers DEF IInv, Roles, Turns, Waits, Process, Peer
<1>1. /\ cut' = cut /\ pc[p] = "boot" /\ pc'[p] = "connect" /\ pc'[q] = pc[q]
      /\ UNCHANGED <<end, link, box, listener, pending>>
  BY <1>0 DEF history, Boot, Goto, connection, TypeOK, IInv
<1>2. Role(p)'
  BY <1>0, <1>1 DEF Role, Down, Newborn, Paired, Closing, OnItsOwn, Accepting, Serves,
         Client, Server, Accepted, Alone, Shut, Hangs, Lost, Carries
<1>3. Role(q)'
  BY <1>0, <1>1 DEF Role, Down, Newborn, Paired, Closing, OnItsOwn, Accepting, Serves,
         Client, Server, Accepted, Alone, Shut, Hangs, Lost, Carries
<1>4. Orders'
  BY <1>0, <1>1 DEF Role, Down, Paired, Orders, Carries, Process
<1>5. InTurn(p)'
  BY <1>0, <1>1 DEF Role, Down, Newborn, Paired, Closing, OnItsOwn, Accepting, Serves,
         Client, Server, Accepted, Alone, Shut, Hangs, Lost, Carries, InTurn, HasTurn, Speaks
<1>6. InTurn(q)'
  BY <1>0, <1>1 DEF Role, Down, Newborn, Paired, Closing, OnItsOwn, Accepting, Serves,
         Client, Server, Accepted, Alone, Shut, Hangs, Lost, Carries, InTurn, HasTurn, Speaks
<1>7. Waiting(p)' /\ Waiting(q)' /\ Twin(p)' /\ Twin(q)'
  BY <1>0, <1>1 DEF Role, Down, Newborn, Paired, Closing, OnItsOwn, Accepting, Serves,
         Client, Server, Accepted, Alone, Shut, Hangs, Lost, Carries, Waiting, Twin
<1> QED
  BY <1>0, <1>2, <1>3, <1>4, <1>5, <1>6, <1>7 DEF Good, Roles, Turns, Waits

(* A token goes out when none is under way.                               *)
LEMMA SendStep ==
  ASSUME IInv, NEW p \in Process, Send(p)
  PROVE  Good'
<1> SUFFICES ASSUME NEW q, q = Peer(p) PROVE Good'
  OBVIOUS
<1>0. /\ q \in Process /\ q # p /\ Peer(q) = p /\ Peer(p) = q
      /\ \A r \in Process : r = p \/ r = q
      /\ Role(p) /\ Role(q) /\ InTurn(p) /\ InTurn(q) /\ Orders
      /\ Waiting(p) /\ Waiting(q) /\ Twin(p) /\ Twin(q)
      /\ \/ p = "front" /\ q = "data"
         \/ p = "data" /\ q = "front"
      /\ p # "none" /\ q # "none"
  BY Peers DEF IInv, Roles, Turns, Waits, Process, Peer
<1>1. /\ cut' = cut /\ pc[p] \in {"c_send", "s_send"} /\ link[q] /\ box[q] = << >> /\ box[p] = << >>
      /\ pc'[p] = IF pc[p] = "s_send" THEN "s_recv"
                  ELSE IF p = "data" /\ end[p] THEN "c_close" ELSE "c_recv"
      /\ pc'[q] = pc[q] /\ box'[p] = << >> /\ UNCHANGED <<end, link, listener, pending>>
      /\ box'[q] # << >> /\ Len(box'[q]) = 1
      /\ Head(box'[q]).name = "EXIT" => p = "front" /\ end[p]
      /\ Head(box'[q]).name = "OK" => p = "data" /\ end[p]
      /\ p = "data" /\ end[p] => end[q] \/ pc[q] = "down"
  <2>1. Outgoing(p) \in Token
    BY Tokens DEF Send, IInv
  <2>2. box[q] = << >> /\ box[p] = << >>
    BY <1>0 DEF Send, InTurn, HasTurn, Speaks
  <2>3. box' = [box EXCEPT ![q] = Append(@, Outgoing(p))]
    BY DEF Send
  <2>4. box'[q] = Append(box[q], Outgoing(p)) /\ box'[p] = box[p]
    BY <1>0, <2>3 DEF IInv, TypeOK
  <2>5. box'[q] # << >> /\ Len(box'[q]) = 1 /\ Head(box'[q]) = Outgoing(p)
    BY <1>0, <2>1, <2>2, <2>4, Boxes DEF IInv
  <2>6. /\ Outgoing(p).name = "EXIT" => p = "front" /\ end[p]
        /\ Outgoing(p).name = "OK" => p = "data" /\ end[p]
    <3>1. CASE p = "front"
      BY <3>1 DEF Outgoing, Msg
    <3>2. CASE p = "data"
      BY <3>2 DEF Outgoing, Msg
    <3> QED
      BY <3>1, <3>2 DEF Process
  <2>7. p = "data" /\ end[p] => end[q] \/ pc[q] = "down"
    BY <1>0 DEF Orders, Peer
  <2>8. /\ pc[p] \in {"c_send", "s_send"} /\ link[q]
        /\ pc'[p] = AfterSend(p) /\ pc'[q] = pc[q]
        /\ UNCHANGED <<end, link, listener, pending, cut>>
    BY <1>0 DEF Send, Goto, IInv, TypeOK
  <2> QED
    BY <2>2, <2>4, <2>5, <2>6, <2>7, <2>8 DEF AfterSend
<1>2. Role(p)'
  <2>1. Down(p)'
    BY <1>0, <1>1 DEF Role, Down, Newborn, Paired, Closing, OnItsOwn, Accepting, Serves,
         Client, Server, Accepted, Alone, Shut, Hangs, Lost, Carries
  <2>2. Newborn(p)'
    BY <1>0, <1>1 DEF Role, Down, Newborn, Paired, Closing, OnItsOwn, Accepting, Serves,
         Client, Server, Accepted, Alone, Shut, Hangs, Lost, Carries
  <2>3. Paired(p)'
    BY <1>0, <1>1 DEF Role, Down, Newborn, Paired, Closing, OnItsOwn, Accepting, Serves,
         Client, Server, Accepted, Alone, Shut, Hangs, Lost, Carries
  <2>4. Closing(p)'
    BY <1>0, <1>1 DEF Role, Down, Newborn, Paired, Closing, OnItsOwn, Accepting, Serves,
         Client, Server, Accepted, Alone, Shut, Hangs, Lost, Carries
  <2>5. OnItsOwn(p)'
    BY <1>0, <1>1 DEF Role, Down, Newborn, Paired, Closing, OnItsOwn, Accepting, Serves,
         Client, Server, Accepted, Alone, Shut, Hangs, Lost, Carries
  <2>6. Accepting(p)'
    BY <1>0, <1>1 DEF Role, Down, Newborn, Paired, Closing, OnItsOwn, Accepting, Serves,
         Client, Server, Accepted, Alone, Shut, Hangs, Lost, Carries
  <2>7. Serves(p)'
    BY <1>0, <1>1 DEF Role, Down, Newborn, Paired, Closing, OnItsOwn, Accepting, Serves,
         Client, Server, Accepted, Alone, Shut, Hangs, Lost, Carries
  <2> QED
    BY <2>1, <2>2, <2>3, <2>4, <2>5, <2>6, <2>7 DEF Role
<1>3. Role(q)'
  <2>1. Down(q)'
    BY <1>0, <1>1 DEF Role, Down, Newborn, Paired, Closing, OnItsOwn, Accepting, Serves,
         Client, Server, Accepted, Alone, Shut, Hangs, Lost, Carries
  <2>2. Newborn(q)'
    BY <1>0, <1>1 DEF Role, Down, Newborn, Paired, Closing, OnItsOwn, Accepting, Serves,
         Client, Server, Accepted, Alone, Shut, Hangs, Lost, Carries
  <2>3. Paired(q)'
    BY <1>0, <1>1 DEF Role, Down, Newborn, Paired, Closing, OnItsOwn, Accepting, Serves,
         Client, Server, Accepted, Alone, Shut, Hangs, Lost, Carries
  <2>4. Closing(q)'
    BY <1>0, <1>1 DEF Role, Down, Newborn, Paired, Closing, OnItsOwn, Accepting, Serves,
         Client, Server, Accepted, Alone, Shut, Hangs, Lost, Carries
  <2>5. OnItsOwn(q)'
    BY <1>0, <1>1 DEF Role, Down, Newborn, Paired, Closing, OnItsOwn, Accepting, Serves,
         Client, Server, Accepted, Alone, Shut, Hangs, Lost, Carries
  <2>6. Accepting(q)'
    BY <1>0, <1>1 DEF Role, Down, Newborn, Paired, Closing, OnItsOwn, Accepting, Serves,
         Client, Server, Accepted, Alone, Shut, Hangs, Lost, Carries
  <2>7. Serves(q)'
    BY <1>0, <1>1 DEF Role, Down, Newborn, Paired, Closing, OnItsOwn, Accepting, Serves,
         Client, Server, Accepted, Alone, Shut, Hangs, Lost, Carries
  <2> QED
    BY <2>1, <2>2, <2>3, <2>4, <2>5, <2>6, <2>7 DEF Role
<1>4. Orders'
  BY <1>0, <1>1 DEF Role, Down, Paired, Orders, Carries, Process
<1>5. InTurn(p)'
  BY <1>0, <1>1 DEF Role, Down, Newborn, Paired, Closing, OnItsOwn, Accepting, Serves,
         Client, Server, Accepted, Alone, Shut, Hangs, Lost, Carries, InTurn, HasTurn, Speaks
<1>6. InTurn(q)'
  BY <1>0, <1>1 DEF Role, Down, Newborn, Paired, Closing, OnItsOwn, Accepting, Serves,
         Client, Server, Accepted, Alone, Shut, Hangs, Lost, Carries, InTurn, HasTurn, Speaks
<1>7. Waiting(p)' /\ Waiting(q)' /\ Twin(p)' /\ Twin(q)'
  BY <1>0, <1>1 DEF Role, Down, Newborn, Paired, Closing, OnItsOwn, Accepting, Serves,
         Client, Server, Accepted, Alone, Shut, Hangs, Lost, Carries, Waiting, Twin
<1> QED
  BY <1>0, <1>2, <1>3, <1>4, <1>5, <1>6, <1>7 DEF Good, Roles, Turns, Waits

(* A token is read by the one it was for.                                 *)
LEMMA ReceiveStep ==
  ASSUME IInv, NEW p \in Process, Receive(p)
  PROVE  Good'
<1> SUFFICES ASSUME NEW q, q = Peer(p) PROVE Good'
  OBVIOUS
<1>0. /\ q \in Process /\ q # p /\ Peer(q) = p /\ Peer(p) = q
      /\ \A r \in Process : r = p \/ r = q
      /\ Role(p) /\ Role(q) /\ InTurn(p) /\ InTurn(q) /\ Orders
      /\ Waiting(p) /\ Waiting(q) /\ Twin(p) /\ Twin(q)
      /\ \/ p = "front" /\ q = "data"
         \/ p = "data" /\ q = "front"
      /\ p # "none" /\ q # "none"
  BY Peers DEF IInv, Roles, Turns, Waits, Process, Peer
<1>1. /\ cut' = cut /\ pc[p] \in {"c_recv", "s_recv"} /\ box[p] # << >>
      /\ \/ pc'[p] \in IF pc[p] = "c_recv" THEN {"c_send", "c_sleep"} ELSE {"s_send", "s_sleep"}
         \/ /\ pc[p] = "c_recv" /\ pc'[p] = "c_close" /\ end[p]
            /\ end[q] \/ pc[q] = "down"
      /\ pc'[q] = pc[q] /\ box'[p] = << >> /\ box'[q] = box[q] /\ Len(<< >>) = 0
      /\ UNCHANGED <<link, listener, pending>> /\ end'[q] = end[q]
      /\ \/ end'[p] = end[p]
         \/ /\ end'[p] /\ p = "data" /\ Carries(p, "EXIT")
            /\ end[q] \/ pc[q] = "down"
  <2>1. Tail(box[p]) = << >> /\ Head(box[p]) \in Token
    BY <1>0, Boxes DEF Receive, InTurn, IInv
  <2>2. /\ pc[p] \in {"c_recv", "s_recv"} /\ box[p] # << >>
        /\ box'[p] = << >> /\ box'[q] = box[q]
        /\ UNCHANGED <<link, listener, pending, cut>>
    BY <1>0, <2>1 DEF Receive, IInv, TypeOK, history
  <2>3. CASE p = "front"
    <3>1. /\ FrontReceives(Head(box[p])) /\ end' = end /\ q = "data"
      BY <1>0, <2>3 DEF Receive, FrontReceives, Peer
    <3>2. Head(box[p]).name = "OK" => end[q] \/ pc[q] = "down"
      BY <1>0, <2>2, <2>3, <3>1 DEF Orders, Carries
    <3>3. pc'[q] = pc[q]
      BY <1>0, <2>3, <3>1 DEF FrontReceives, Goto, IInv, TypeOK
    <3>4. \/ pc'[p] \in IF pc[p] = "c_recv" THEN {"c_send", "c_sleep"}
                         ELSE {"s_send", "s_sleep"}
          \/ pc[p] = "c_recv" /\ pc'[p] = "c_close" /\ end[p] /\ Head(box[p]).name = "OK"
      BY <2>3, <3>1 DEF FrontReceives, Goto, ToSend, ToSleep, IInv, TypeOK
    <3> QED
      BY <2>2, <3>1, <3>2, <3>3, <3>4
  <2>4. CASE p = "data"
    <3>1. DataReceives(Head(box[p])) /\ q = "front"
      BY <1>0, <2>4 DEF Receive, Peer
    <3>2. Head(box[p]).name = "EXIT" => end[q] \/ pc[q] = "down"
      BY <1>0, <2>2, <2>4, <3>1 DEF Orders, Carries
    <3>3. /\ pc'[q] = pc[q] /\ end'[q] = end[q]
          /\ end'[p] = (end[p] \/ Head(box[p]).name = "EXIT")
      BY <1>0, <2>4, <3>1 DEF DataReceives, Goto, IInv, TypeOK
    <3>4. pc'[p] \in IF pc[p] = "c_recv" THEN {"c_send", "c_sleep"}
                     ELSE {"s_send", "s_sleep"}
      BY <2>4, <3>1 DEF DataReceives, Goto, ToSend, ToSleep, IInv, TypeOK
    <3>5. \/ end'[p] = end[p]
          \/ end'[p] /\ Carries(p, "EXIT") /\ (end[q] \/ pc[q] = "down")
      <4>1. CASE Head(box[p]).name = "EXIT"
        <5>1. end'[p] = TRUE
          BY <3>3, <4>1
        <5>2. Carries(p, "EXIT") /\ (end[q] \/ pc[q] = "down")
          BY <2>2, <3>2, <4>1 DEF Carries
        <5> QED
          BY <5>1, <5>2
      <4>2. CASE Head(box[p]).name # "EXIT"
        BY <3>3, <4>2 DEF IInv, TypeOK
      <4> QED
        BY <4>1, <4>2
    <3> QED
      BY <2>2, <2>4, <3>3, <3>4, <3>5
  <2> QED
    BY <2>3, <2>4 DEF Process
<1>2. Role(p)'
  BY <1>0, <1>1 DEF Role, Down, Newborn, Paired, Closing, OnItsOwn, Accepting, Serves,
         Client, Server, Accepted, Alone, Shut, Hangs, Lost, Carries
<1>3. Role(q)'
  BY <1>0, <1>1 DEF Role, Down, Newborn, Paired, Closing, OnItsOwn, Accepting, Serves,
         Client, Server, Accepted, Alone, Shut, Hangs, Lost, Carries
<1>4. Orders'
  BY <1>0, <1>1 DEF Role, Down, Paired, Orders, Carries, Process, Newborn, Closing, OnItsOwn, Serves
<1>5. InTurn(p)'
  BY <1>0, <1>1 DEF Role, Down, Newborn, Paired, Closing, OnItsOwn, Accepting, Serves,
         Client, Server, Accepted, Alone, Shut, Hangs, Lost, Carries, InTurn, HasTurn, Speaks
<1>6. InTurn(q)'
  BY <1>0, <1>1 DEF Role, Down, Newborn, Paired, Closing, OnItsOwn, Accepting, Serves,
         Client, Server, Accepted, Alone, Shut, Hangs, Lost, Carries, InTurn, HasTurn, Speaks
<1>7. Waiting(p)' /\ Waiting(q)' /\ Twin(p)' /\ Twin(q)'
  BY <1>0, <1>1 DEF Role, Down, Newborn, Paired, Closing, OnItsOwn, Accepting, Serves,
         Client, Server, Accepted, Alone, Shut, Hangs, Lost, Carries, Waiting, Twin
<1> QED
  BY <1>0, <1>2, <1>3, <1>4, <1>5, <1>6, <1>7 DEF Good, Roles, Turns, Waits

(* The other one runs already.                                            *)
LEMMA WakeTwinStep ==
  ASSUME IInv, NEW p \in Process, WakeTwin(p)
  PROVE  Good'
<1> SUFFICES ASSUME NEW q, q = Peer(p) PROVE Good'
  OBVIOUS
<1>0. /\ q \in Process /\ q # p /\ Peer(q) = p /\ Peer(p) = q
      /\ \A r \in Process : r = p \/ r = q
      /\ Role(p) /\ Role(q) /\ InTurn(p) /\ InTurn(q) /\ Orders
      /\ Waiting(p) /\ Waiting(q) /\ Twin(p) /\ Twin(q)
      /\ \/ p = "front" /\ q = "data"
         \/ p = "data" /\ q = "front"
      /\ p # "none" /\ q # "none"
  BY Peers DEF IInv, Roles, Turns, Waits, Process, Peer
<1>1. /\ cut' = cut /\ pc[p] = "loop" /\ ~end[p] /\ pc[q] # "down"
      /\ pc'[p] = "twins" /\ pc'[q] = "twins"
      /\ UNCHANGED <<end, link, box, listener, pending>>
  BY <1>0 DEF WakeTwin, connection, history
<1>2. Role(p)'
  BY <1>0, <1>1 DEF Role, Down, Newborn, Paired, Closing, OnItsOwn, Accepting, Serves,
         Client, Server, Accepted, Alone, Shut, Hangs, Lost, Carries
<1>3. Role(q)'
  BY <1>0, <1>1 DEF Role, Down, Newborn, Paired, Closing, OnItsOwn, Accepting, Serves,
         Client, Server, Accepted, Alone, Shut, Hangs, Lost, Carries
<1>4. Orders'
  BY <1>0, <1>1 DEF Role, OnItsOwn, Alone, Orders, Carries, Process
<1>5. InTurn(p)' /\ InTurn(q)'
  BY <1>0, <1>1 DEF Role, Down, Newborn, Paired, Closing, OnItsOwn, Accepting, Serves,
         Client, Server, Accepted, Alone, Shut, Hangs, Lost, Carries, InTurn, HasTurn, Speaks
<1>6. Waiting(p)' /\ Waiting(q)' /\ Twin(p)' /\ Twin(q)'
  BY <1>0, <1>1 DEF Role, Down, Newborn, Paired, Closing, OnItsOwn, Accepting, Serves,
         Client, Server, Accepted, Alone, Shut, Hangs, Lost, Carries, Waiting, Twin
<1> QED
  BY <1>0, <1>2, <1>3, <1>4, <1>5, <1>6 DEF Good, Roles, Turns, Waits

(* A signal ends a call of the front server's worker.                     *)
LEMMA CallInterruptedStep ==
  ASSUME IInv, NEW p \in Process, CallInterrupted, p = "front"
  PROVE  Good'
<1> SUFFICES ASSUME NEW q, q = Peer(p) PROVE Good'
  OBVIOUS
<1>0. /\ q \in Process /\ q # p /\ Peer(q) = p /\ Peer(p) = q
      /\ \A r \in Process : r = p \/ r = q
      /\ Role(p) /\ Role(q) /\ InTurn(p) /\ InTurn(q) /\ Orders
      /\ Waiting(p) /\ Waiting(q) /\ Twin(p) /\ Twin(q)
      /\ p = "front" /\ q = "data"
      /\ p # "none" /\ q # "none"
  BY Peers DEF IInv, Roles, Turns, Waits, Process, Peer
<1>1. /\ cut' /\ ~end[p] /\ end'[p] /\ end'[q] = end[q]
      /\ \/ pc[p] = "c_recv" /\ pc'[p] = "c_close" /\ box[p] = << >> /\ link[q]
         \/ pc[p] = "s_recv" /\ pc'[p] = "loop" /\ box[p] = << >> /\ link[q]
         \/ pc[p] = "s_accept" /\ pc'[p] = "loop" /\ pending # p
      /\ pc'[q] = pc[q] /\ UNCHANGED <<link, box, listener, pending>>
  BY <1>0 DEF CallInterrupted, Goto, connection, TypeOK, IInv
<1>2. Role(p)'
  BY <1>0, <1>1 DEF Role, Down, Newborn, Paired, Closing, OnItsOwn, Accepting, Serves,
         Client, Server, Accepted, Alone, Shut, Hangs, Lost, Carries, Orders
<1>3. Role(q)'
  BY <1>0, <1>1 DEF Role, Down, Newborn, Paired, Closing, OnItsOwn, Accepting, Serves,
         Client, Server, Accepted, Alone, Shut, Hangs, Lost, Carries, Orders
<1>4. Orders'
  BY <1>0, <1>1 DEF Role, Down, Orders, Carries, Process
<1>5. InTurn(p)' /\ InTurn(q)'
  BY <1>0, <1>1 DEF Role, Down, Newborn, Paired, Closing, OnItsOwn, Accepting, Serves,
         Client, Server, Accepted, Alone, Shut, Hangs, Lost, Carries, InTurn, HasTurn, Speaks
<1>6. Waiting(p)' /\ Waiting(q)' /\ Twin(p)' /\ Twin(q)'
  BY <1>0, <1>1 DEF Role, Down, Newborn, Paired, Closing, OnItsOwn, Accepting, Serves,
         Client, Server, Accepted, Alone, Shut, Hangs, Lost, Carries, Waiting, Twin
<1> QED
  BY <1>0, <1>2, <1>3, <1>4, <1>5, <1>6 DEF Good, Roles, Turns, Waits

(* Nothing that the roles speak of changes.                                *)
LEMMA SameRoles ==
  ASSUME IInv, UNCHANGED <<pc, end, connection, cut>>
  PROVE  Good'
<1>1. UNCHANGED <<pc, end, link, box, pending, listener, cut>>
  BY DEF connection
<1>2. ASSUME NEW p \in Process PROVE Role(p)' /\ InTurn(p)' /\ Twin(p)'
  <2>1. Role(p) /\ InTurn(p) /\ Twin(p)
    BY DEF IInv, Good, Roles, Turns
  <2>2. Role(p)'
    BY <1>1, <2>1 DEF Role, Down, Newborn, Paired, Closing, OnItsOwn, Accepting, Serves,
       Shut, Hangs, Lost, Carries
  <2>3. InTurn(p)' /\ Twin(p)'
    BY <1>1, <2>1 DEF InTurn, HasTurn, Speaks, Twin
  <2> QED
    BY <2>2, <2>3
<1>3. Orders' /\ Waits'
  BY <1>1 DEF IInv, Orders, Carries, Waits, Waiting, Shut
<1> QED
  BY <1>2, <1>3 DEF Good, Roles, Turns

(* IInv is inductive.                                                      *)
LEMMA NextInvariant == IInv /\ [Next]_vars => IInv'
<1> SUFFICES ASSUME IInv, [Next]_vars PROVE IInv'
  OBVIOUS
<1>0. "front" \in Process /\ "data" \in Process
      /\ \A p \in Process : Peer(p) \in Process /\ Peer(p) # p
  BY DEF Process, Peer
<1>1. TypeOK' /\ Ports'
  BY TypeStep DEF IInv
<1>2. ASSUME NEW p \in Process, Die(p) PROVE Good'
  <2>1. /\ Gone(p) /\ ~end'[p]
        /\ end'[Peer(p)] = end[Peer(p)]
    BY <1>0, <1>2 DEF Die, IInv, TypeOK
  <2> QED
    BY <2>1, GoneStep
<1>3. ASSUME MainStep \/ MainLeaves PROVE Good'
  <2>1. CASE Boot
    BY <1>0, <2>1, BootStep
  <2>2. CASE FirstOfPorts \/ NextPort \/ BindPort \/ FrontSocket \/ FrontAssign
    BY <2>2, SameRoles DEF FirstOfPorts, NextPort, BindPort, FrontSocket, FrontAssign, history
  <2>3. CASE NoPortLeft \/ FrontNoSocket \/ MainLeaves
    BY <1>0, <1>2, <2>3 DEF NoPortLeft, FrontNoSocket, MainLeaves
  <2> QED
    BY <1>3, <2>1, <2>2, <2>3 DEF MainStep
<1>4. ASSUME NEW p \in Process, Step(p) \/ Start(p) \/ Crash(p) PROVE Good'
  <2>1. CASE BrokenPipe(p) \/ CleanUp(p) \/ Crash(p)
    BY <1>2, <2>1 DEF BrokenPipe, CleanUp, Crash
  <2> QED
    BY <1>4, <2>1, ConnectStep, SendStep, ReceiveStep, PeerLostStep, SleepStep,
       CloseStep, UnlinkStep, ListenStep, WakeUpStep, WakeTwinStep, AcceptStep, LeaveStep,
       StartStep
       DEF Step
<1>5. ASSUME Quit PROVE Good'
  BY <1>0, <1>5, QuitStep
<1>6. ASSUME Interrupt PROVE Good'
  <2>1. /\ Gone("data") /\ ~end'["data"] /\ end'["front"]
        /\ Peer("data") = "front" /\ pc["front"] # "down"
    BY <1>0, <1>6 DEF Interrupt, Peer
  <2> QED
    BY <1>0, <2>1, GoneStep
<1>7. ASSUME CallInterrupted PROVE Good'
  BY <1>0, <1>7, CallInterruptedStep
<1>8. ASSUME UNCHANGED vars PROVE Good'
  BY <1>8, SameRoles DEF vars, connection, history
<1> QED
  BY <1>1, <1>3, <1>4, <1>5, <1>6, <1>7, <1>8 DEF Next, IInv, Good

-----------------------------------------------------------------------------
(* Theorems.                                                               *)

(* The roles of the two processes are always those of IInv.                *)
THEOREM Invariance == Spec => []IInv
  BY InitInvariant, NextInvariant, PTL DEF Spec

(* Every variable keeps its type; setup_server never leaves its range of   *)
(* ports.                                                                  *)
THEOREM TypeCorrect == Spec => []TypeOK
<1>1. IInv => TypeOK
  BY DEF IInv
<1> QED
  BY <1>1, Invariance, PTL

(* Whatever crashes and whenever, at most one token is under way between   *)
(* the two workers, so that a read of up to eight bytes never gets two.    *)
THEOREM OneToken == Spec => []Lockstep
<1>1. IInv => Lockstep
  <2> SUFFICES ASSUME IInv PROVE Lockstep
    OBVIOUS
  <2>1. InTurn("front") /\ box["front"] \in Seq(Token) /\ box["data"] \in Seq(Token)
        /\ InTurn("data") /\ Peer("front") = "data"
    BY DEF IInv, Turns, TypeOK, Process, Peer
  <2>2. box["front"] = << >> \/ box["data"] = << >>
    BY <2>1 DEF InTurn, HasTurn
  <2>3. Len(box["front"]) \in Nat /\ Len(box["data"]) \in Nat /\ Len(<< >>) = 0
    BY <2>1
  <2>4. Len(box["front"]) = 0 \/ Len(box["data"]) = 0
    BY <2>2, <2>3
  <2>5. Len(box["front"]) <= 1 /\ Len(box["data"]) <= 1
    BY <2>1 DEF InTurn
  <2>6. \A m, n \in Nat : (m = 0 \/ n = 0) /\ m <= 1 /\ n <= 1 => m + n <= 1
    OBVIOUS
  <2> HIDE DEF Lockstep
  <2>7. Len(box["front"]) + Len(box["data"]) <= 1
    BY <2>3, <2>4, <2>5, <2>6, Zenon
  <2> QED
    BY <2>7 DEF Lockstep
<1> QED
  BY <1>1, Invariance, PTL

(* The two workers never read from each other with nothing under way.      *)
THEOREM NoDeadlock == Spec => []NoMutualWait
<1>1. IInv => NoMutualWait
  <2> SUFFICES ASSUME IInv, \A p \in Process :
                 pc[p] \in {"c_recv", "s_recv"} /\ box[p] = << >> /\ link[p]
               PROVE  FALSE
    BY DEF NoMutualWait
  <2>1. Role("front") /\ Role("data") /\ InTurn("front") /\ InTurn("data")
        /\ Peer("front") = "data" /\ Peer("data") = "front"
        /\ "front" \in Process /\ "data" \in Process
    BY DEF IInv, Roles, Turns, Process, Peer
  <2> QED
    BY <2>1 DEF Role, Paired, Serves, InTurn, Client, Server, Accepted, Alone
<1> QED
  BY <1>1, Invariance, PTL

(* Never are both processes the server of their connection, where one of   *)
(* them would wait for a client that does not come, unless a signal has    *)
(* ended a call of the front server's worker.                              *)
THEOREM OneServer == Spec => []OneListener
<1>1. IInv => OneListener
  <2> SUFFICES ASSUME IInv, ~cut, \A p \in Process :
                 pc[p] \in Server \/ (pc[p] = "loop" /\ ~end[p])
               PROVE  FALSE
    BY DEF IInv, OneListener
  <2>1. Role("front") /\ Role("data")
        /\ Peer("front") = "data" /\ Peer("data") = "front"
        /\ "front" \in Process /\ "data" \in Process
    BY DEF IInv, Roles, Process, Peer
  <2> QED
    BY <2>1 DEF Role, OnItsOwn, Accepting, Serves, Client, Server, Accepted, Alone,
           Shut, Hangs, Lost
<1> QED
  BY <1>1, Invariance, PTL

(* wakeup_data_server and wakeup_front_server never start a server while   *)
(* another of its kind is alive, unless a signal has ended such a call.    *)
THEOREM NoTwin == Spec => WakesOnlyTheDead
<1>1. IInv => \A p \in Process : WakeTwin(p) => cut
  <2> SUFFICES ASSUME IInv, NEW p \in Process, WakeTwin(p) PROVE cut
    OBVIOUS
  <2> QED
    BY DEF IInv, Roles, Role, WakeTwin, OnItsOwn, Alone, Lost, Hangs
<1> QED
  <2>1. IInv /\ [Next]_vars => [\A p \in Process : WakeTwin(p) => cut]_vars
    BY <1>1
  <2> QED
    BY <2>1, Invariance, PTL DEF Spec, WakesOnlyTheDead

-----------------------------------------------------------------------------
(***************************************************************************)
(* The port that the front server gives to clients.                        *)
(***************************************************************************)

(* Who starts, or has just been started, is sent the port.                 *)
Resends ==
  pc["data"] \in {"down", "boot", "connect"} \/ pc["front"] \in {"boot", "connect"} => resend

Expected == FirstPort .. LastPort - 1

(* A front server that was sent a port knows it, or is about to read it,   *)
(* or has thrown it away.                                                  *)
Tells ==
  ~resend /\ pc["front"] # "down" /\ ~end["front"] =>
    IF Carries("front", "PORT") THEN Head(box["front"]).port = sent
    ELSE known = sent \/ sent \notin Expected

Told == Resends /\ Tells

LEMMA TheTwo ==
  /\ Process = {"front", "data"}
  /\ Peer("front") = "data" /\ Peer("data") = "front"
  /\ "front" \in Process /\ "data" \in Process
BY DEF Process, Peer

LEMMA Deaths ==
  ASSUME TypeOK, NEW p \in Process, Gone(p)
  PROVE  /\ pc'[p] = "down" /\ pc'[Peer(p)] = pc[Peer(p)]
         /\ box'[p] = << >> /\ box'[Peer(p)] = box[Peer(p)] /\ sent' = sent
         /\ p = "data" => resend' /\ known' = known
         /\ p = "front" => resend' = resend
BY DEF Gone, Goto, TypeOK, Process, Peer, history

(* The steps that leave all of this alone.                                 *)
LEMMA ToldKept ==
  ASSUME Told, UNCHANGED <<known, resend, sent>>, box'["front"] = box["front"],
         pc'["data"] \in {"down", "boot", "connect"} => pc["data"] \in {"down", "boot", "connect"},
         pc'["front"] \in {"boot", "connect"} => pc["front"] \in {"boot", "connect"} \/ resend,
         pc'["front"] # "down" /\ ~end'["front"]
           => (pc["front"] # "down" /\ ~end["front"]) \/ resend
  PROVE  Told'
<1>1. Resends'
  BY DEF Told, Resends
<1>2. Tells'
  BY DEF Told, Tells, Carries
<1> QED
  BY <1>1, <1>2 DEF Told

LEMMA ToldGone ==
  ASSUME TypeOK, Told, NEW p \in Process, Gone(p), end'["front"] \/ end'["front"] = end["front"]
  PROVE  Told'
<1>1. CASE p = "data"
  BY <1>1, Deaths, TheTwo DEF Told, Resends, Tells
<1>2. CASE p = "front"
  BY <1>2, Deaths, TheTwo DEF Told, Resends, Tells
<1> QED
  BY <1>1, <1>2, TheTwo

LEMMA ToldSend ==
  ASSUME IInv, Told, NEW p \in Process, Send(p)
  PROVE  Told'
<1>1. TypeOK /\ InTurn(p) /\ Role("front") /\ Role("data")
  BY TheTwo DEF IInv, Turns, Roles
<1>2. /\ pc[p] \in {"c_send", "s_send"} /\ link[Peer(p)]
      /\ box' = [box EXCEPT ![Peer(p)] = Append(@, Outgoing(p))]
      /\ resend' = (resend /\ (p = "data" => end[p]))
      /\ sent' = IF Outgoing(p).name = "PORT" THEN port ELSE sent
      /\ UNCHANGED <<end, known>>
  BY DEF Send
<1>3. /\ pc'[p] \in {"s_recv", "c_recv", "c_close"} /\ pc'[Peer(p)] = pc[Peer(p)]
  BY <1>1, TheTwo DEF Send, Goto, AfterSend, TypeOK
<1>4. CASE p = "front"
  <2>1. box'["front"] = box["front"] /\ resend' = resend /\ Outgoing(p).name # "PORT"
    BY <1>1, <1>2, <1>4, TheTwo DEF TypeOK, Outgoing, Msg
  <2> QED
    BY <1>2, <1>3, <1>4, <2>1, ToldKept, TheTwo
<1>5. CASE p = "data"
  <2>1. box["front"] = << >> /\ Outgoing(p) \in Token
    BY <1>1, <1>2, <1>5, Tokens, TheTwo DEF InTurn, HasTurn, Speaks, Send
  <2>2. box'["front"] = Append(box["front"], Outgoing(p))
    BY <1>1, <1>2, <1>5, TheTwo DEF TypeOK
  <2>3. box'["front"] # << >> /\ Head(box'["front"]) = Outgoing(p)
    BY <1>1, <2>1, <2>2, Boxes, TheTwo
  <2>4. Resends'
    <3>1. pc["front"] \notin {"boot", "connect"}
      BY <1>1, <1>2, <1>5, TheTwo DEF Role, Newborn
    <3> QED
      BY <1>3, <1>5, <3>1, TheTwo DEF Resends
  <2>5. CASE resend /\ ~end["data"]
    <3>1. Outgoing(p) = [name |-> "PORT", port |-> port]
      BY <1>5, <2>5 DEF Outgoing
    <3>2. Carries("front", "PORT")' /\ Head(box'["front"]).port = sent'
      BY <1>2, <2>3, <3>1 DEF Carries
    <3> QED
      BY <2>4, <3>2 DEF Told, Tells
  <2>6. CASE resend /\ end["data"]
    BY <1>2, <1>5, <2>4, <2>6 DEF Told, Tells
  <2>7. CASE ~resend
    <3>1. Outgoing(p).name # "PORT"
      BY <1>5, <2>7 DEF Outgoing, Msg
    <3>2. ~Carries("front", "PORT")' /\ ~Carries("front", "PORT") /\ sent' = sent
      BY <1>2, <2>1, <2>3, <3>1 DEF Carries
    <3>3. ~resend' /\ pc'["front"] = pc["front"]
      BY <1>2, <1>3, <1>5, <2>7, TheTwo
    <3> QED
      BY <1>2, <2>4, <2>7, <3>2, <3>3 DEF Told, Tells
  <2> QED
    BY <2>5, <2>6, <2>7
<1> QED
  BY <1>4, <1>5, TheTwo

LEMMA ToldReceive ==
  ASSUME IInv, Told, NEW p \in Process, Receive(p)
  PROVE  Told'
<1>1. TypeOK /\ InTurn(p) /\ Tells /\ Resends
  BY DEF IInv, Turns, Told
<1>2. /\ pc[p] \in {"c_recv", "s_recv"} /\ box[p] # << >>
      /\ box' = [box EXCEPT ![p] = Tail(@)]
      /\ UNCHANGED <<resend, sent>>
  BY DEF Receive, history
<1>3. CASE p = "front"
  <2>1. /\ known' = IF /\ ~end["front"] /\ Head(box["front"]).name = "PORT"
                       /\ FirstPort <= Head(box["front"]).port
                       /\ Head(box["front"]).port < LastPort
                    THEN Head(box["front"]).port ELSE known
        /\ end' = end
    BY <1>3 DEF Receive, FrontReceives
  <2>2. pc'["front"] \notin {"boot", "connect", "down"} /\ pc'["data"] = pc["data"]
    BY <1>1, <1>2, <1>3, TheTwo DEF Receive, FrontReceives, ToSend, ToSleep, Goto, TypeOK
  <2>3. box'["front"] = << >> /\ Head(box["front"]) \in Token
    BY <1>1, <1>2, <1>3, Boxes DEF InTurn, TypeOK
  <2>4. ~Carries("front", "PORT")'
    BY <2>3 DEF Carries
  <2>5. ASSUME ~resend, ~end["front"]
        PROVE  known' = sent \/ sent \notin Expected
    <3>1. pc["front"] # "down"
      BY <1>2, <1>3
    <3>2. CASE Carries("front", "PORT")
      <4>1. Head(box["front"]).port = sent /\ Head(box["front"]).name = "PORT"
        BY <1>1, <2>5, <3>1, <3>2 DEF Tells, Carries
      <4>2. sent \in Expected => FirstPort <= sent /\ sent < LastPort
        BY PortAssumption DEF Expected
      <4> QED
        BY <2>1, <2>5, <4>1, <4>2
    <3>3. CASE ~Carries("front", "PORT")
      BY <1>1, <1>2, <1>3, <2>1, <2>5, <3>1, <3>3 DEF Tells, Carries
    <3> QED
      BY <3>2, <3>3
  <2>6. Tells'
    BY <1>2, <2>1, <2>4, <2>5 DEF Tells, Expected
  <2> QED
    BY <1>1, <1>2, <2>2, <2>6 DEF Told, Resends
<1>4. CASE p = "data"
  <2>1. /\ end'["front"] = end["front"] /\ pc'["front"] = pc["front"] /\ known' = known
        /\ box'["front"] = box["front"]
    BY <1>1, <1>2, <1>4, TheTwo DEF Receive, DataReceives, Goto, TypeOK
  <2>2. pc'["data"] \notin {"down", "boot", "connect"}
    BY <1>1, <1>2, <1>4, TheTwo DEF Receive, DataReceives, ToSend, ToSleep, Goto, TypeOK
  <2> QED
    BY <1>2, <2>1, <2>2, ToldKept
<1> QED
  BY <1>3, <1>4, TheTwo

LEMMA ToldStep ==
  ASSUME IInv, Told, NEW p \in Process, Step(p)
  PROVE  Told'
<1>1. TypeOK /\ Role(p) /\ Tells /\ Resends
  BY DEF IInv, Roles, Told
<1>2. ASSUME Connect(p)
      PROVE  Told'
  <2>1. resend /\ resend' = resend
    BY <1>1, <1>2, TheTwo DEF Connect, Resends
  <2> QED
    BY <2>1 DEF Told, Tells, Resends
<1>3. ASSUME BrokenPipe(p) \/ CleanUp(p)
      PROVE  Told'
  <2>1. Gone(p) /\ end' = [end EXCEPT ![p] = FALSE]
    BY <1>3 DEF BrokenPipe, CleanUp, Die
  <2>2. CASE p = "data"
    BY <1>1, <2>1, <2>2, ToldGone, TheTwo DEF TypeOK
  <2>3. CASE p = "front"
    BY <1>1, <2>1, <2>3, Deaths, TheTwo DEF Told, Resends, Tells
  <2> QED
    BY <2>2, <2>3, TheTwo
<1>4. ASSUME PeerLost(p) \/ Sleep(p) \/ Unlink(p) \/ Listen(p) \/ Accept(p) \/ Leave(p)
      PROVE  Told'
  <2>1. UNCHANGED <<known, resend, sent, box, end>>
    BY <1>4 DEF PeerLost, Sleep, Unlink, Listen, Accept, Leave, connection, history
  <2>2. /\ pc[p] # "down" /\ pc'[p] \notin {"down", "boot", "connect"}
        /\ pc'[Peer(p)] = pc[Peer(p)]
    BY <1>1, <1>4, TheTwo
    DEF PeerLost, ToEnd, Sleep, Unlink, Listen, Accept, Leave, Goto, TypeOK
  <2> QED
    BY <2>1, <2>2, ToldKept, TheTwo
<1>5. ASSUME Close(p)
      PROVE  Told'
  <2>1. /\ pc[p] = "c_close" /\ pc'[p] = "unlink" /\ pc'[Peer(p)] = pc[Peer(p)]
        /\ UNCHANGED <<known, resend, sent, end>>
        /\ box' = [box EXCEPT ![p] = << >>]
    BY <1>1, <1>5, TheTwo DEF Close, Goto, TypeOK, history
  <2>2. CASE p = "data"
    BY <1>1, <2>1, <2>2, ToldKept, TheTwo DEF TypeOK
  <2>3. CASE p = "front"
    <3>1. pc["data"] = "down" \/ end["front"]
      BY <1>1, <2>1, <2>3, TheTwo DEF Role, Closing
    <3>2. Tells'
      BY <1>1, <2>1, <3>1 DEF Tells, Resends
    <3> QED
      BY <1>1, <2>1, <2>3, <3>2, TheTwo DEF Told, Resends
  <2> QED
    BY <2>2, <2>3, TheTwo
<1>6. ASSUME WakeUp(p)
      PROVE  Told'
  <2>1. /\ pc[p] = "loop" /\ pc[Peer(p)] = "down" /\ pc'[p] = "s_accept"
        /\ resend' = (resend \/ p = "data") /\ UNCHANGED <<known, sent, end, box>>
        /\ p = "front" => pc'["data"] = "boot"
        /\ p = "data" => pc'["front"] = "connect"
    BY <1>1, <1>6, TheTwo DEF WakeUp, TypeOK, connection, history
  <2>2. resend'
    BY <1>1, <2>1, TheTwo DEF Resends
  <2> QED
    BY <2>2 DEF Told, Tells, Resends
<1>7. ASSUME WakeTwin(p)
      PROVE  Told'
  <2>1. /\ pc[p] = "loop" /\ pc[Peer(p)] # "down"
        /\ pc'["front"] = "twins" /\ pc'["data"] = "twins"
        /\ UNCHANGED <<known, resend, sent, end, box>>
    BY <1>1, <1>7, TheTwo DEF WakeTwin, TypeOK, connection, history
  <2> QED
    BY <2>1, ToldKept, TheTwo
<1> QED
  BY <1>2, <1>3, <1>4, <1>5, <1>6, <1>7, ToldSend, ToldReceive DEF Step

LEMMA ToldNext ==
  ASSUME IInv, Told, [Next]_vars
  PROVE  Told'
<1>1. TypeOK
  BY DEF IInv
<1>2. ASSUME NEW p \in Process, Die(p)
      PROVE  Told'
  <2>1. CASE p = "data"
    BY <1>1, <1>2, <2>1, ToldGone, TheTwo DEF Die, TypeOK
  <2>2. CASE p = "front"
    BY <1>1, <1>2, <2>2, Deaths, TheTwo DEF Die, Told, Resends, Tells
  <2> QED
    BY <2>1, <2>2, TheTwo
<1>3. ASSUME FirstOfPorts \/ NextPort \/ BindPort \/ FrontSocket \/ FrontAssign \/ UNCHANGED vars
      PROVE  Told'
  <2>1. UNCHANGED <<known, resend, sent, box, end, pc>>
    BY <1>3 DEF FirstOfPorts, NextPort, BindPort, FrontSocket, FrontAssign, connection,
       history, vars
  <2> QED
    BY <2>1, ToldKept
<1>4. ASSUME Boot
      PROVE  Told'
  <2>1. UNCHANGED <<known, resend, sent, box, end>> /\ pc["data"] = "boot"
        /\ pc'["front"] = pc["front"]
    BY <1>1, <1>4, TheTwo DEF Boot, Goto, TypeOK, connection, history
  <2> QED
    BY <2>1, ToldKept
<1>5. ASSUME NoPortLeft \/ FrontNoSocket \/ MainLeaves \/ \E p \in Process : Crash(p)
      PROVE  Told'
  BY <1>2, <1>5, TheTwo DEF NoPortLeft, FrontNoSocket, MainLeaves, Crash
<1>6. ASSUME NEW p \in Process, Start(p)
      PROVE  Told'
  <2>1. resend /\ resend' = resend
    BY <1>1, <1>6, TheTwo DEF Start, Told, Resends
  <2> QED
    BY <2>1 DEF Told, Tells, Resends
<1>7. ASSUME Quit \/ CallInterrupted
      PROVE  Told'
  <2>1. /\ UNCHANGED <<known, resend, sent, box>> /\ pc'["data"] = pc["data"]
        /\ pc'["front"] \in {pc["front"], "c_close", "loop"} /\ end'["front"]
    BY <1>1, <1>7, TheTwo DEF Quit, CallInterrupted, Goto, TypeOK, connection, history
  <2> QED
    BY <2>1, ToldKept
<1>8. ASSUME Interrupt
      PROVE  Told'
  <2>1. Gone("data") /\ end'["front"]
    BY <1>8, TheTwo DEF Interrupt
  <2> QED
    BY <1>1, <2>1, ToldGone, TheTwo
<1> QED
  BY <1>3, <1>4, <1>5, <1>6, <1>7, <1>8, ToldStep DEF Next, MainStep

(* Once a port is sent and read, it is the one that the front server gives *)
(* to its clients, unless it is out of the range that it expects: whatever *)
(* crashed before and whoever was started again.                           *)
THEOREM PortsAgree == Spec => []PortPassedOn
<1>1. Init => Told
  BY TheTwo DEF Init, Told, Resends, Tells
<1>2. IInv /\ Told /\ [Next]_vars => Told'
  BY ToldNext
<1>3. IInv /\ Told => PortPassedOn
  <2> SUFFICES ASSUME IInv, Told,
                      \A p \in Process : link[p] /\ pc[p] \in Client \cup Server,
                      ~resend, ~end["front"], box["front"] = << >>
               PROVE  known = sent \/ sent \notin Expected
    BY DEF PortPassedOn, Expected
  <2>1. pc["front"] # "down"
    BY TheTwo DEF Client, Server
  <2> QED
    BY <2>1 DEF Told, Tells, Carries
<1> QED
  BY <1>1, <1>2, <1>3, Invariance, PTL DEF Spec

=============================================================================
