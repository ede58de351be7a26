----------------------------- MODULE Heartbeat ------------------------------
(***************************************************************************)
(* How the two servers keep each other alive: connection_worker of         *)
(* front-lib.c and of data-lib.c, what starts and ends the processes, and  *)
(* how the port of the data server reaches the front server.               *)
(*                                                                         *)
(* A worker first tries to be the client on a Unix socket; if nobody       *)
(* listens there it becomes the server, starts the other process and       *)
(* accepts its connection.  Client and server then take turns, one token   *)
(* each.  A connection has two ends; a read finds what the peer has sent,  *)
(* or learns that its end is closed; a write to a closed end raises        *)
(* SIGPIPE, which nobody handles, and ends the process.                    *)
(***************************************************************************)
EXTENDS Integers, Sequences

CONSTANTS
  FirstPort,     \* 10000
  LastPort,      \* 11000, where setup_server of the data server gives up
  Crashes,       \* what may go wrong, see Scenario
  MaxCrashes     \* bound of the model

ASSUME PortAssumption ==
  FirstPort \in Nat /\ LastPort \in Nat /\ 0 < FirstPort /\ FirstPort < LastPort

(* What is tested when a crash happens: CrashKind.  All ports taken:       *)
(* BindPort.  Ctrl-C at the terminal: Interrupt.  A signal that ends a     *)
(* system call: CallInterrupted.                                           *)
Scenario == {"seen", "unseen", "unborn", "ports", "terminal", "eintr"}

ASSUME ScenarioAssumption ==
  Crashes \subseteq Scenario /\ MaxCrashes \in Nat

VARIABLES
  pc,        \* pc[p]: where the connection worker of p is
  main,      \* main[p]: how far the main thread of p is with its server
  end,       \* end[p]
  link,      \* link[p]: the end of p of its connection is open
  box,       \* box[p]: tokens on their way to p
  pending,   \* at whose socket a connection waits to be accepted
  listener,  \* whose socket is bound to SOCK_PATH and listens
  resend,    \* the data server has still to send its port
  port,      \* port of the data server
  known,     \* data_server_port of the front server
  held,      \* the data server holds a copy of the front server's socket
  crashes    \* counter for the bound

(* For the properties only: the port that the data server sent last, and   *)
(* whether a signal has ever ended a call of the front server's worker.    *)
VARIABLES sent, cut

history == <<sent, cut>>

vars == <<pc, main, end, link, box, pending, listener, resend, port, known,
          held, crashes, history>>
connection == <<link, box, pending, listener>>

Process == {"front", "data"}
Peer(p) == IF p = "front" THEN "data" ELSE "front"

NoPort == -1
PortBase == FirstPort - 1        \* 9999, where setup_server counts from

Token == [name : {"PING", "EXIT", "OK", "PORT"}, port : {NoPort} \cup PortBase .. LastPort]
Msg(name) == [name |-> name, port |-> NoPort]

Client == {"c_send", "c_recv", "c_sleep"}
Server == {"s_accept", "s_recv", "s_sleep", "s_send"}
Worker == {"down", "boot", "connect", "c_close", "unlink", "listen", "loop", "clean_up",
           "twins"}
            \cup Client \cup Server
Main == {"down", "socket", "assign", "ports", "next", "bind", "serving"}

Goto(p, label) == pc' = [pc EXCEPT ![p] = label]
MainGoto(p, label) == main' = [main EXCEPT ![p] = label]

Init ==
  /\ pc = [p \in Process |-> "down"]
  /\ main = [p \in Process |-> "down"]
  /\ end = [p \in Process |-> FALSE]
  /\ link = [p \in Process |-> FALSE]
  /\ box = [p \in Process |-> << >>]
  /\ pending = "none"
  /\ listener = "none"
  /\ resend = TRUE
  /\ port = NoPort /\ known = NoPort
  /\ held = FALSE
  /\ crashes = 0
  /\ sent = NoPort /\ cut = FALSE

-----------------------------------------------------------------------------
(* Processes begin and end.                                                *)

(* What execv makes of p.  The front server starts its worker at once, the *)
(* data server after setup_backup; the latter's globals are set before.    *)
Exec(p) ==
  /\ Goto(p, IF p = "front" THEN "connect" ELSE "boot")
  /\ MainGoto(p, IF p = "front" THEN "socket" ELSE "down")

(* The user starts one of the servers.                                     *)
Start(p) ==
  /\ \A q \in Process : pc[q] = "down"
  /\ Exec(p)
  /\ UNCHANGED <<end, connection, resend, port, known, held, crashes, history>>

(* The process is gone: its ends of connections are closed, its memory is  *)
(* lost.  What it had sent before can still be read.                       *)
Gone(p) ==
  /\ Goto(p, "down") /\ MainGoto(p, "down")
  /\ link' = [link EXCEPT ![p] = FALSE]
  /\ box' = [box EXCEPT ![p] = << >>]
  /\ pending' = IF pending = p THEN "none" ELSE pending
  /\ listener' = IF listener = p THEN "none" ELSE listener
  /\ IF p = "data"
     THEN resend' = TRUE /\ port' = NoPort /\ held' = FALSE /\ UNCHANGED known
     ELSE known' = NoPort /\ UNCHANGED <<resend, port, held>>
  /\ UNCHANGED history

Die(p) == Gone(p) /\ end' = [end EXCEPT ![p] = FALSE]

(* setup_backup is done: the worker is created, then setup_server runs.    *)
Boot ==
  /\ pc["data"] = "boot"
  /\ Goto("data", "connect")
  /\ MainGoto("data", "ports")
  /\ UNCHANGED <<end, connection, resend, port, known, held, crashes, history>>

-----------------------------------------------------------------------------
(* The main threads set up their servers.                                  *)

FirstOfPorts ==
  /\ main["data"] = "ports"
  /\ port' = PortBase
  /\ MainGoto("data", "next")
  /\ UNCHANGED <<pc, end, connection, resend, known, held, crashes, history>>

NextPort ==
  /\ main["data"] = "next"
  /\ port' = port + 1
  /\ MainGoto("data", "bind")
  /\ UNCHANGED <<pc, end, connection, resend, known, held, crashes, history>>

(* Others may have taken the port.  That they have all of them is a        *)
(* scenario of its own.                                                    *)
BindPort ==
  /\ main["data"] = "bind"
  /\ port < LastPort
  /\ \/ MainGoto("data", "serving")
     \/ /\ port + 1 < LastPort \/ "ports" \in Crashes
        /\ MainGoto("data", "next")
  /\ UNCHANGED <<pc, end, connection, resend, port, known, held, crashes, history>>

(* The last port ends the loop whether it was free or not: clean_up(-1).   *)
NoPortLeft ==
  /\ main["data"] = "bind" /\ port = LastPort
  /\ Die("data")
  /\ UNCHANGED crashes

(* TCPcreate has its socket, bound to FRONT_SERVER_PORT; the variable      *)
(* server is assigned when it returns.                                     *)
FrontSocket ==
  /\ main["front"] = "socket"
  /\ ~held
  /\ MainGoto("front", "assign")
  /\ UNCHANGED <<pc, end, connection, resend, port, known, held, crashes, history>>

FrontAssign ==
  /\ main["front"] = "assign"
  /\ MainGoto("front", "serving")
  /\ UNCHANGED <<pc, end, connection, resend, port, known, held, crashes, history>>

(* The port is in use by the socket that a data server holds: clean_up(-2).*)
FrontNoSocket ==
  /\ main["front"] = "socket"
  /\ held
  /\ Die("front")
  /\ UNCHANGED crashes

-----------------------------------------------------------------------------
(* The worker.                                                             *)

(* Fault: it does not try to be the client first.                          *)
ListenAtOnce(p) ==
  /\ pc[p] = "connect"
  /\ Goto(p, "unlink")
  /\ UNCHANGED <<main, end, connection, resend, port, known, held, crashes, history>>

Connect(p) ==
  /\ pc[p] = "connect"
  /\ IF listener = Peer(p)
     THEN /\ Goto(p, "c_send")
          /\ link' = [q \in Process |-> TRUE]
          /\ box' = [q \in Process |-> << >>]
          /\ pending' = Peer(p)
     ELSE Goto(p, "unlink") /\ UNCHANGED <<link, box, pending>>
  /\ UNCHANGED <<main, end, listener, resend, port, known, held, crashes, history>>

(* The token that p sends.                                                 *)
Outgoing(p) ==
  IF p = "front"
  THEN IF end[p] THEN Msg("EXIT") ELSE Msg("PING")
  ELSE IF end[p] THEN Msg("OK")
       ELSE IF resend THEN [name |-> "PORT", port |-> port]
       ELSE Msg("PING")

(* Fault: a server waits for the answer that it has to give first.         *)
ToSendLate(p) == IF pc[p] = "c_recv" THEN "c_send" ELSE "s_recv"

(* Where it goes on: the data server as a client does not wait for an      *)
(* answer to its OK.                                                       *)
AfterSend(p) ==
  IF pc[p] = "s_send" THEN "s_recv"
  ELSE IF p = "data" /\ end[p] THEN "c_close" ELSE "c_recv"

(* The data server waits in a loop until it has a port to send.            *)
HasToken(p) == p = "data" /\ resend /\ ~end[p] => port # NoPort

Send(p) ==
  /\ pc[p] \in {"c_send", "s_send"}
  /\ HasToken(p)
  /\ link[Peer(p)]
  /\ box' = [box EXCEPT ![Peer(p)] = Append(@, Outgoing(p))]
  /\ Goto(p, AfterSend(p))
  /\ resend' = (resend /\ (p = "data" => end[p]))
  /\ sent' = IF Outgoing(p).name = "PORT" THEN port ELSE sent
  /\ UNCHANGED <<main, end, link, pending, listener, port, known, held, crashes, cut>>

(* The peer has closed its end: SIGPIPE.                                   *)
BrokenPipe(p) ==
  /\ pc[p] \in {"c_send", "s_send"}
  /\ HasToken(p)
  /\ ~link[Peer(p)]
  /\ Die(p)
  /\ UNCHANGED crashes

ToSend(p) == IF pc[p] = "c_recv" THEN "c_send" ELSE "s_send"

ToSleep(p) == IF pc[p] = "c_recv" THEN "c_sleep" ELSE "s_sleep"
ToEnd(p) == IF pc[p] = "c_recv" THEN "c_close" ELSE "loop"

(* Fault: a token that is not PING ends the connection.                    *)
FrontReceivesPing(m) ==
  /\ Goto("front", IF m.name = "PING" THEN ToSleep("front") ELSE ToEnd("front"))
  /\ known' = IF m.name = "PORT" /\ FirstPort <= m.port /\ m.port < LastPort
              THEN m.port ELSE known
  /\ UNCHANGED end

(* What the front server does with a token.  A port outside of the range   *)
(* it expects is ignored.                                                  *)
FrontReceives(m) ==
  /\ IF end["front"]
     THEN Goto("front", IF pc["front"] = "c_recv" /\ m.name = "OK"
                        THEN "c_close" ELSE ToSend("front"))
     ELSE Goto("front", IF m.name = "PING" THEN ToSleep("front") ELSE ToSend("front"))
  /\ known' = IF ~end["front"] /\ m.name = "PORT" /\ FirstPort <= m.port /\ m.port < LastPort
              THEN m.port ELSE known
  /\ UNCHANGED end

DataReceives(m) ==
  /\ Goto("data", IF m.name = "PING" THEN ToSleep("data") ELSE ToSend("data"))
  /\ end' = [end EXCEPT !["data"] = @ \/ m.name = "EXIT"]
  /\ UNCHANGED known

Receive(p) ==
  /\ pc[p] \in {"c_recv", "s_recv"}
  /\ box[p] # << >>
  /\ box' = [box EXCEPT ![p] = Tail(@)]
  /\ IF p = "front" THEN FrontReceives(Head(box[p])) ELSE DataReceives(Head(box[p]))
  /\ UNCHANGED <<main, link, pending, listener, resend, port, held, crashes, history>>

(* Fault: the server waits for a new client without starting the peer.     *)
PeerLostForgotten(p) ==
  /\ pc[p] \in {"c_recv", "s_recv"}
  /\ box[p] = << >> /\ ~link[Peer(p)]
  /\ Goto(p, IF pc[p] = "c_recv" THEN "c_close" ELSE "s_accept")
  /\ link' = [link EXCEPT ![p] = pc[p] = "c_recv"]
  /\ UNCHANGED <<main, end, box, pending, listener, resend, port, known, held, crashes, history>>

(* The read returns 0: the peer has closed its end.  A server goes back to *)
(* its loop and starts the peer again.                                     *)
PeerLost(p) ==
  /\ pc[p] \in {"c_recv", "s_recv"}
  /\ box[p] = << >> /\ ~link[Peer(p)]
  /\ Goto(p, ToEnd(p))
  /\ link' = [link EXCEPT ![p] = pc[p] = "c_recv"]
  /\ UNCHANGED <<main, end, box, pending, listener, resend, port, known, held, crashes, history>>

Sleep(p) ==
  /\ pc[p] \in {"c_sleep", "s_sleep"}
  /\ Goto(p, IF pc[p] = "c_sleep" THEN "c_send" ELSE "s_send")
  /\ UNCHANGED <<main, end, connection, resend, port, known, held, crashes, history>>

(* A client that lost its server, or has said good-bye, closes its end and *)
(* becomes a server itself.                                                *)
Close(p) ==
  /\ pc[p] = "c_close"
  /\ Goto(p, "unlink")
  /\ link' = [link EXCEPT ![p] = FALSE]
  /\ box' = [box EXCEPT ![p] = << >>]
  /\ UNCHANGED <<main, end, pending, listener, resend, port, known, held, crashes, history>>

Unlink(p) ==
  /\ pc[p] = "unlink"
  /\ Goto(p, "listen")
  /\ listener' = "none"
  /\ UNCHANGED <<main, end, link, box, pending, resend, port, known, held, crashes, history>>

Listen(p) ==
  /\ pc[p] = "listen"
  /\ Goto(p, "loop")
  /\ listener' = p
  /\ UNCHANGED <<main, end, link, box, pending, resend, port, known, held, crashes, history>>

(* Fault: the new front server is not told the port.                       *)
WakeUpForgetful(p) ==
  /\ pc[p] = "loop" /\ ~end[p]
  /\ pc' = [pc EXCEPT ![p] = "s_accept",
                      ![Peer(p)] = IF p = "data" THEN "connect" ELSE "boot"]
  /\ MainGoto(Peer(p), IF p = "data" THEN "socket" ELSE "down")
  /\ UNCHANGED <<end, connection, resend, port, known, held, crashes, history>>

(* wakeup_data_server and wakeup_front_server: fork, close the servers in  *)
(* the child, execv.  A socket that server does not name yet stays open.   *)
WakeUp(p) ==
  /\ pc[p] = "loop" /\ ~end[p]
  /\ pc[Peer(p)] = "down"
  /\ pc' = [pc EXCEPT ![p] = "s_accept",
                      ![Peer(p)] = IF p = "data" THEN "connect" ELSE "boot"]
  /\ MainGoto(Peer(p), IF p = "data" THEN "socket" ELSE "down")
  /\ held' = (held \/ (p = "front" /\ main[p] = "assign"))
  /\ resend' = (resend \/ p = "data")
  /\ UNCHANGED <<end, connection, port, known, crashes, history>>

(* The same while the other server still runs: there are two of its kind,  *)
(* and what they do to each other is beyond this model.                    *)
WakeTwin(p) ==
  /\ pc[p] = "loop" /\ ~end[p]
  /\ pc[Peer(p)] # "down"
  /\ pc' = [q \in Process |-> "twins"]
  /\ main' = [q \in Process |-> "down"]
  /\ UNCHANGED <<end, connection, resend, port, known, held, crashes, history>>

(* Fault: both sides speak first.                                          *)
AcceptAndSend(p) ==
  /\ pc[p] = "s_accept" /\ pending = p
  /\ Goto(p, "s_send")
  /\ pending' = "none"
  /\ UNCHANGED <<main, end, link, box, listener, resend, port, known, held, crashes, history>>

Accept(p) ==
  /\ pc[p] = "s_accept" /\ pending = p
  /\ Goto(p, "s_recv")
  /\ pending' = "none"
  /\ UNCHANGED <<main, end, link, box, listener, resend, port, known, held, crashes, history>>

Leave(p) ==
  /\ pc[p] = "loop" /\ end[p]
  /\ Goto(p, "clean_up")
  /\ UNCHANGED <<main, end, connection, resend, port, known, held, crashes, history>>

CleanUp(p) ==
  /\ pc[p] = "clean_up"
  /\ Die(p)
  /\ UNCHANGED crashes

(* A client connects after EXIT: the main thread of the data server leaves *)
(* its loop and cleans up, without waiting for the worker.                 *)
MainLeaves ==
  /\ main["data"] = "serving" /\ end["data"]
  /\ Die("data")
  /\ UNCHANGED crashes

-----------------------------------------------------------------------------
(* The environment.                                                        *)

(* command_handler reads quit, or the process receives SIGINT and another  *)
(* thread than the worker runs exit_gracefuly.                             *)
Quit ==
  /\ pc["front"] \notin {"down", "twins"} /\ ~end["front"]
  /\ end' = [end EXCEPT !["front"] = TRUE]
  /\ UNCHANGED <<pc, main, connection, resend, port, known, held, crashes, history>>

(* The worker runs exit_gracefuly while it waits in accept or in a read.    *)
(* The handler is installed without SA_RESTART: the call returns -1, which *)
(* the worker takes for a connection that failed.  It never sends EXIT.    *)
CallInterrupted ==
  /\ "eintr" \in Crashes
  /\ ~end["front"]
  /\ \/ pc["front"] \in {"c_recv", "s_recv"} /\ box["front"] = << >> /\ link["data"]
     \/ pc["front"] = "s_accept" /\ pending # "front"
  /\ Goto("front", IF pc["front"] = "c_recv" THEN "c_close" ELSE "loop")
  /\ end' = [end EXCEPT !["front"] = TRUE]
  /\ cut' = TRUE
  /\ UNCHANGED <<main, connection, resend, port, known, held, crashes, sent>>

(* Ctrl-C at the terminal: SIGINT reaches the front server and the process *)
(* it shares the terminal with, where set_int_handler is not called.       *)
Interrupt ==
  /\ "terminal" \in Crashes
  /\ pc["front"] \notin {"down", "twins"} /\ ~end["front"] /\ pc["data"] # "down"
  /\ Gone("data")
  /\ end' = [p \in Process |-> p = "front"]
  /\ UNCHANGED crashes

(* Kinds of crash of p, by what its peer is about to do.  It notices one   *)
(* when it next reads; a write would come first in the second kind; in the *)
(* third, it waits for p to connect.                                       *)
NextWrites(q) ==
  pc[q] \in {"c_send", "c_sleep", "s_send", "s_sleep"} \/ box[q] # << >>

CrashKind(p) ==
  IF pc[Peer(p)] = "s_accept" /\ pending # Peer(p) THEN "unborn"
  ELSE IF NextWrites(Peer(p)) THEN "unseen" ELSE "seen"

Crash(p) ==
  /\ pc[p] \notin {"down", "twins"}
  /\ crashes < MaxCrashes
  /\ CrashKind(p) \in Crashes
  /\ crashes' = crashes + 1
  /\ Die(p)

-----------------------------------------------------------------------------

MainStep ==
  \/ Boot \/ FirstOfPorts \/ NextPort \/ BindPort \/ NoPortLeft
  \/ FrontSocket \/ FrontAssign \/ FrontNoSocket

Step(p) ==
  \/ Connect(p) \/ Send(p) \/ BrokenPipe(p) \/ Receive(p) \/ PeerLost(p)
  \/ Sleep(p) \/ Close(p) \/ Unlink(p) \/ Listen(p) \/ WakeUp(p) \/ WakeTwin(p)
  \/ Accept(p) \/ Leave(p) \/ CleanUp(p)

Next ==
  \/ MainStep
  \/ \E p \in Process : Step(p) \/ Start(p) \/ Crash(p)
  \/ MainLeaves \/ Quit \/ CallInterrupted \/ Interrupt

(* The operating system runs the threads.  Ports are not taken for ever.   *)
(* The user and crashes are free.                                          *)
Fairness ==
  /\ WF_vars(MainStep)
  /\ \A p \in Process : WF_vars(Step(p))

Spec == Init /\ [][Next]_vars /\ Fairness

-----------------------------------------------------------------------------
(* Properties.                                                             *)

(* Every variable has its type; the port of a data server is one it has    *)
(* tried (setup_server), the one the front server gives to clients is in   *)
(* the range it checks, or still -1.                                       *)
TypeOK ==
  /\ pc \in [Process -> Worker]
  /\ main \in [Process -> Main]
  /\ end \in [Process -> BOOLEAN]
  /\ link \in [Process -> BOOLEAN]
  /\ box \in [Process -> Seq(Token)]
  /\ pending \in Process \cup {"none"}
  /\ listener \in Process \cup {"none"}
  /\ resend \in BOOLEAN
  /\ port \in {NoPort} \cup PortBase .. LastPort
  /\ known \in {NoPort} \cup FirstPort .. LastPort - 1
  /\ held \in BOOLEAN
  /\ crashes \in 0 .. MaxCrashes
  /\ sent \in {NoPort} \cup PortBase .. LastPort /\ cut \in BOOLEAN

(* connection_worker reads up to eight bytes and compares them with one    *)
(* token: there are never two of one connection under way, in either       *)
(* direction.                                                              *)
Lockstep == Len(box["front"]) + Len(box["data"]) <= 1

(* The two workers never wait for each other's token at the same time.     *)
NoMutualWait ==
  ~ \A p \in Process : pc[p] \in {"c_recv", "s_recv"} /\ box[p] = << >> /\ link[p]

(* At most one process is the server of the connection, though each one    *)
(* unlinks and binds the same path, as long as no signal has cut short a   *)
(* call of the front server's worker.                                      *)
OneListener ==
  cut \/ ~ \A p \in Process : pc[p] \in Server \/ (pc[p] = "loop" /\ ~end[p])

(* Once the data server has sent a port and the token was read, the front  *)
(* server gives its clients that one: a front server that was started      *)
(* again is told anew, and the port of a data server that is gone is       *)
(* forgotten.  A number outside of the range it expects leaves the front   *)
(* server with what it knew.                                               *)
PortPassedOn ==
  (/\ \A p \in Process : link[p] /\ pc[p] \in Client \cup Server
   /\ ~resend /\ ~end["front"] /\ box["front"] = << >>)
    => known = sent \/ sent \notin FirstPort .. LastPort - 1

(* fork and execv start a process only if there is none of its kind, as    *)
(* long as no signal has cut short a call of the front server's worker.    *)
WakesOnlyTheDead == [][\A p \in Process : WakeTwin(p) => cut]_vars

(* A worker that reads the end of its connection starts the other server   *)
(* again, whatever else fails meanwhile, unless its own server has been    *)
(* told to end or dies as well.                                            *)
Relaunches ==
  \A p \in Process :
    (/\ pc[p] \in {"c_recv", "s_recv"} /\ box[p] = << >>
     /\ pc[Peer(p)] = "down" /\ ~end[p])
      ~> pc[Peer(p)] # "down" \/ end[p] \/ pc[p] = "down"

(* A server ends only when it crashes or is to leave: when the other one   *)
(* crashes, it stays and starts that again (Relatorio.tex, section Fault   *)
(* Tolerance).                                                             *)
EndsOnlyWhenTold ==
  [][\A p \in Process : pc[p] # "down" /\ pc'[p] = "down"
       => end[p] \/ crashes' # crashes]_vars

=============================================================================
