------------------------------- MODULE Bridge -------------------------------
(***************************************************************************)
(* The two threads of can_tcp_bridge.py and the socket they share.         *)
(*                                                                         *)
(* The main thread reads the CAN bus, takes self.sock under sock_lock and  *)
(* sends outside it; after Ctrl-C it runs stop(), which uses self.sock     *)
(* without the lock.  The tcp-manager thread opens a connection, stores it *)
(* in self.sock, blocks in recv() and closes it again.  What a "with       *)
(* self.sock_lock" block does is one step: nothing in it blocks.           *)
(*                                                                         *)
(* Framing is not repeated here (see PyLink): recv() returns good data, a  *)
(* record the bridge rejects, or the end of the connection; a record is    *)
(* written in two pieces so that sendall() can be overtaken in between.    *)
(***************************************************************************)
EXTENDS Integers, Sequences

CONSTANTS
  MaxConns,                \* bound: connections made
  MaxMsgs                  \* bound: frames read from the CAN bus

ASSUME BridgeAssumption == MaxConns \in Nat \ {0} /\ MaxMsgs \in Nat

Conns == 1 .. MaxConns
NoSock == 0

VARIABLES
  cfg,         \* role and tcp_keepalive of config.yaml
  stopEvent,   \* stop_event
  sock,        \* self.sock
  local,       \* our end of each connection: "none", "open" or "closed"
  shut,        \* the connections shutdown() was called on
  peer,        \* "up", "closed", "vanished" without a word, or "reset": an error is known
  out,         \* (history) per connection, the records written: number and completeness
  pcC, sC,     \* main thread: place, the socket it took
  msg,         \* number of the frame last read from the bus
  pcM, sM      \* manager thread: place, the socket it uses

sockVars == <<sock, local, shut, peer>>
mainVars == <<stopEvent, out, pcC, sC, msg>>
vars == <<cfg, sockVars, mainVars, pcM, sM>>

Init ==
  /\ cfg \in [role : {"server", "client"}, keepalive : BOOLEAN]
  /\ stopEvent = FALSE
  /\ sock = NoSock
  /\ local = [c \in Conns |-> "none"]
  /\ shut = {}
  /\ peer = [c \in Conns |-> "up"]
  /\ out = [c \in Conns |-> << >>]
  /\ pcC = "recv" /\ sC = NoSock /\ msg = 0
  /\ pcM = "check" /\ sM = NoSock

Close(s) == IF s = NoSock THEN local ELSE [local EXCEPT ![s] = "closed"]

-----------------------------------------------------------------------------
(* The main thread: _loop_can_to_tcp.                                       *)

BusRecv ==
  /\ pcC = "recv"
  /\ msg < MaxMsgs
  /\ msg' = msg + 1
  /\ pcC' = "take"
  /\ UNCHANGED <<sockVars, stopEvent, out, sC>>

(* with sock_lock: s = self.sock; if s: ...                                 *)
TakeSockThen(next) ==
  /\ pcC = "take"
  /\ sC' = sock
  /\ pcC' = next
  /\ UNCHANGED <<sockVars, stopEvent, out, msg>>

NoCheckForNone == TakeSockThen("send")                   \* mutant

TakeSock == TakeSockThen(IF sock = NoSock THEN "recv" ELSE "send")

(* The kernel accepts bytes on an open socket until it knows of an error.   *)
Writable(c) == local[c] = "open" /\ c \notin shut /\ peer[c] # "reset"

(* sendall(payload) has handed over a part of the record ...                *)
SendSome ==
  /\ pcC = "send"
  /\ Writable(sC)
  /\ out' = [out EXCEPT ![sC] = Append(@, [num |-> msg, whole |-> FALSE])]
  /\ pcC' = "sending"
  /\ UNCHANGED <<sockVars, stopEvent, sC, msg>>

(* ... and then the rest.                                                   *)
SendRestTo(c) ==
  /\ pcC = "sending"
  /\ Writable(c)
  /\ out' = IF c = sC THEN [out EXCEPT ![c][Len(out[c])].whole = TRUE]
                      ELSE [out EXCEPT ![c] = Append(@, [num |-> msg, whole |-> FALSE])]
  /\ pcC' = "recv"
  /\ UNCHANGED <<sockVars, stopEvent, sC, msg>>

RereadsSock == sock # NoSock /\ SendRestTo(sock)         \* mutant

SendRest == SendRestTo(sC)

(* sendall raised OSError, which is logged.  The peer's silence turns into  *)
(* a known error here when the kernel gives up retransmitting.              *)
SendFailsThen(next) ==
  /\ pcC \in {"send", "sending"}
  /\ local[sC] # "open" \/ sC \in shut \/ peer[sC] # "up"
  /\ peer' = IF peer[sC] = "up" THEN peer ELSE [peer EXCEPT ![sC] = "reset"]
  /\ pcC' = next
  /\ UNCHANGED <<sock, local, shut, stopEvent, out, sC, msg>>

TriesAgain == SendFailsThen("take")                      \* mutant

SendFails == SendFailsThen("recv")

(* KeyboardInterrupt breaks the loop wherever it is; main() calls stop().   *)
Interrupt ==
  /\ pcC \in {"recv", "take", "send", "sending"}
  /\ pcC' = "setEvent"
  /\ UNCHANGED <<sockVars, stopEvent, out, sC, msg>>

-----------------------------------------------------------------------------
(* stop(), which does not take sock_lock.  The exceptions it swallows are   *)
(* the cases in which a step below has nothing to act on.                   *)

StopSetEvent ==
  /\ pcC = "setEvent"
  /\ stopEvent' = TRUE
  /\ pcC' = "shutdown"
  /\ UNCHANGED <<sockVars, out, sC, msg>>

ShutdownOf(socks) ==
  /\ pcC = "shutdown"
  /\ shut' = shut \cup { c \in socks : local[c] = "open" }
  /\ pcC' = "close"
  /\ UNCHANGED <<sock, local, peer, stopEvent, out, sC, msg>>

OnlyCloses == ShutdownOf({})                             \* mutant

StopShutdown == ShutdownOf({sock} \cap Conns)

StopClose ==
  /\ pcC = "close"
  /\ local' = Close(sock)
  /\ pcC' = "done"
  /\ UNCHANGED <<sock, shut, peer, stopEvent, out, sC, msg>>

MainSends == TakeSock \/ SendSome \/ SendRest \/ SendFails
MainStops == StopSetEvent \/ StopShutdown \/ StopClose

-----------------------------------------------------------------------------
(* The manager thread: _tcp_manager, _accept_once, _connect_once and        *)
(* _loop_tcp_to_can.                                                        *)

ManagerGoes(from, to) == pcM = from /\ pcM' = to

(* while not stop_event.is_set()                                            *)
ManagerCheck ==
  /\ ManagerGoes("check", IF stopEvent THEN "done" ELSE "open")
  /\ UNCHANGED <<sockVars, sM>>

(* Server: bind and listen, which may raise.  Client: nothing to prepare.   *)
OpenListener ==
  /\ \/ ManagerGoes("open", "wait")
     \/ cfg.role = "server" /\ ManagerGoes("open", "cleanup")
  /\ UNCHANGED <<sockVars, sM>>

(* The loop around accept() or create_connection().  A client's conn of an  *)
(* earlier round (see SetupFailsInClient) goes when the function returns.   *)
WaitCheck ==
  /\ pcM = "wait"
  /\ \/ /\ stopEvent /\ pcM' = "loop"
        /\ local' = Close(sM)
        /\ sM' = NoSock
     \/ /\ ~ stopEvent /\ pcM' = "connecting"
        /\ UNCHANGED <<local, sM>>
  /\ UNCHANGED <<sock, shut, peer>>

(* socket.timeout from accept(), or OSError from create_connection().       *)
NoConnection ==
  /\ ManagerGoes("connecting", "wait")
  /\ UNCHANGED <<sockVars, sM>>

(* conn is bound to the new socket; the one of an earlier round is closed.  *)
Connected ==
  /\ ManagerGoes("connecting", "store")
  /\ \E c \in Conns :
       /\ local[c] = "none" /\ \A d \in Conns : d < c => local[d] # "none"
       /\ sM' = c
       /\ local' = [Close(sM) EXCEPT ![c] = "open"]
  /\ UNCHANGED <<sock, shut, peer>>

(* A socket option cannot be set.  The server leaves _accept_once with the  *)
(* exception, and the socket nobody refers to any more is closed ...        *)
SetupFailsInServer ==
  /\ cfg.role = "server"
  /\ ManagerGoes("store", "cleanup")
  /\ local' = Close(sM)
  /\ sM' = NoSock
  /\ UNCHANGED <<sock, shut, peer>>

(* ... the client catches it inside its loop: conn still holds the socket   *)
(* while it waits and tries again.                                          *)
SetupFailsInClient ==
  /\ cfg.role = "client"
  /\ ManagerGoes("store", "wait")
  /\ UNCHANGED <<sockVars, sM>>

SetupFails == SetupFailsInServer \/ SetupFailsInClient

(* with sock_lock: close what self.sock still holds; self.sock = conn       *)
StoreSock ==
  /\ ManagerGoes("store", "loop")
  /\ local' = Close(sock)
  /\ sock' = sM
  /\ sM' = NoSock
  /\ UNCHANGED <<shut, peer>>

(* while not stop_event.is_set() of _loop_tcp_to_can                        *)
LoopCheck ==
  /\ ManagerGoes("loop", IF stopEvent THEN "cleanup" ELSE "grab")
  /\ UNCHANGED <<sockVars, sM>>

(* with sock_lock: s = self.sock                                            *)
GrabSock ==
  /\ ManagerGoes("grab", IF sock = NoSock THEN "cleanup" ELSE "recv")
  /\ sM' = sock
  /\ UNCHANGED sockVars

(* s.recv(4096) raises at once on a closed socket object, else it blocks.   *)
RecvCall ==
  /\ ManagerGoes("recv", IF local[sM] = "closed" THEN "cleanup" ELSE "blocked")
  /\ UNCHANGED <<sockVars, sM>>

(* Bytes arrived and their records were forwarded, or one was rejected.     *)
RecvData ==
  /\ \E next \in {"loop", "cleanup"} : ManagerGoes("blocked", next)
  /\ peer[sM] = "up"
  /\ UNCHANGED <<sockVars, sM>>

(* recv() returns b"" or raises: the peer closed, an error is known, or our *)
(* end was shut down.  A mere close() by another thread does not wake it.   *)
RecvEnds ==
  /\ ManagerGoes("blocked", "cleanup")
  /\ peer[sM] \in {"closed", "reset"} \/ sM \in shut
  /\ UNCHANGED <<sockVars, sM>>

(* with sock_lock: if self.sock: close it; self.sock = None                 *)
CleanUpTo(s, next) ==
  /\ ManagerGoes("cleanup", "delay")
  /\ local' = Close(s)
  /\ sock' = next
  /\ sM' = NoSock
  /\ UNCHANGED <<shut, peer>>

ForgetsToClose == CleanUpTo(NoSock, NoSock)              \* mutant

CleanUp == CleanUpTo(sock, NoSock)

(* reconnect_delay_sec, cut short by stop_event.                            *)
Delay ==
  /\ ManagerGoes("delay", "check")
  /\ UNCHANGED <<sockVars, sM>>

ManagerStep ==
  \/ ManagerCheck \/ OpenListener \/ WaitCheck \/ NoConnection
  \/ StoreSock \/ SetupFails \/ LoopCheck \/ GrabSock \/ RecvCall \/ RecvEnds
  \/ CleanUp \/ Delay

-----------------------------------------------------------------------------
(* The end of the process, the other end and the kernel.                    *)

(* main() returns after stop(); the manager is a daemon thread, which does  *)
(* not keep the interpreter alive, and the kernel closes what is open.      *)
ProcessExits ==
  /\ pcC = "done"
  /\ pcC' = "exited"
  /\ pcM' = "done"
  /\ local' = [c \in Conns |-> IF local[c] = "open" THEN "closed" ELSE local[c]]
  /\ UNCHANGED <<cfg, sock, shut, peer, stopEvent, out, sC, msg, sM>>

PeerCloses(c) ==
  /\ local[c] = "open" /\ peer[c] = "up"
  /\ peer' = [peer EXCEPT ![c] = "closed"]

PeerVanishes(c) ==
  /\ local[c] = "open" /\ peer[c] = "up"
  /\ peer' = [peer EXCEPT ![c] = "vanished"]

(* SO_KEEPALIVE, set by set_tcp_keepalive: 30 s idle, 3 probes 10 s apart.  *)
ProbesOf(configured, c) ==
  /\ configured
  /\ local[c] = "open" /\ peer[c] = "vanished"
  /\ peer' = [peer EXCEPT ![c] = "reset"]
  /\ UNCHANGED <<cfg, sock, local, shut, mainVars, pcM, sM>>

NeverProbes(c) == ProbesOf(FALSE, c)                     \* mutant

KeepAliveExpires(c) == ProbesOf(cfg.keepalive, c)

Peer ==
  /\ \E c \in Conns : PeerCloses(c) \/ PeerVanishes(c)
  /\ UNCHANGED <<cfg, sock, local, shut, mainVars, pcM, sM>>

Main == (BusRecv \/ MainSends \/ Interrupt \/ MainStops) /\ UNCHANGED <<cfg, pcM, sM>>

Manager == (ManagerStep \/ Connected \/ RecvData) /\ UNCHANGED <<cfg, mainVars>>

KeepAlive == \E c \in Conns : KeepAliveExpires(c)

(* self.sock has its options; a connection that is only conn may not.       *)
KeepAliveInUse == \E c \in {sock} \cap Conns : KeepAliveExpires(c)

Next == Main \/ Manager \/ ProcessExits \/ Peer \/ KeepAlive

(* The manager thread runs whenever it is not blocked in accept or recv     *)
(* with nothing to return (NoConnection is accept's own timeout), stop()    *)
(* runs to its end, and the kernel's probes give up on the silent peer of   *)
(* self.sock.                                                               *)
(* Nobody owes the bridge a connection, data, a frame or an interrupt, and  *)
(* nothing is made to depend on how soon the interpreter exits.             *)
Fairness ==
  /\ WF_vars(ManagerStep /\ UNCHANGED <<cfg, mainVars>>)
  /\ WF_vars(MainStops /\ UNCHANGED <<cfg, pcM, sM>>)
  /\ WF_vars(KeepAliveInUse)

Spec == Init /\ [][Next]_vars /\ Fairness

-----------------------------------------------------------------------------
TypeOK ==
  /\ cfg \in [role : {"server", "client"}, keepalive : BOOLEAN]
  /\ stopEvent \in BOOLEAN
  /\ sock \in Conns \cup {NoSock}
  /\ local \in [Conns -> {"none", "open", "closed"}]
  /\ shut \in SUBSET Conns
  /\ peer \in [Conns -> {"up", "closed", "vanished", "reset"}]
  /\ \A c \in Conns : \A i \in 1 .. Len(out[c]) :
       out[c][i] \in [num : 1 .. MaxMsgs, whole : BOOLEAN]
  /\ pcC \in {"recv", "take", "send", "sending", "setEvent", "shutdown", "close", "done", "exited"}
  /\ pcM \in {"check", "open", "wait", "connecting", "store", "loop", "grab", "recv",
              "blocked", "cleanup", "delay", "done"}
  /\ pcC \in {"send", "sending"} => sC \in Conns
  /\ pcM \in {"store", "recv", "blocked"} => sM \in Conns
  /\ msg \in 0 .. MaxMsgs

(* On every connection the peer finds whole records in the order of the     *)
(* bus; only the last thing it finds may be cut off.                        *)
StreamsOfWholeRecords ==
  \A c \in Conns : \A i, j \in 1 .. Len(out[c]) :
    i < j => out[c][i].whole /\ out[c][i].num < out[c][j].num

(* A frame is written to one connection only, and a later connection only   *)
(* has later frames, although the thread that sends holds on to a socket    *)
(* that the other may replace at any time.                                  *)
NothingSentTwice ==
  \A c, d \in Conns : c < d =>
    \A i \in 1 .. Len(out[c]), j \in 1 .. Len(out[d]) : out[c][i].num < out[d][j].num

(* The manager is inside the function that opened conn.                     *)
OpeningConn == pcM = "store" \/ (cfg.role = "client" /\ pcM \in {"wait", "connecting"})

(* No socket is leaked: an open one is self.sock, or the one the manager is *)
(* about to store there, or, in a client only, the last one whose options   *)
(* could not be set, while the function that opened it still runs; so at    *)
(* most one is kept besides self.sock.  And self.sock is open, unless       *)
(* stop() closed it behind the manager's back.                              *)
OpenSocketIsOwned ==
  /\ \A c \in Conns :
       local[c] = "open" => c = sock \/ (c = sM /\ sock = NoSock /\ OpeningConn)
  /\ sock # NoSock /\ local[sock] = "closed" => stopEvent

(* Once stop() was begun the manager ends and every socket is closed, by    *)
(* itself: even a connection accepted while stop() was running, and even if *)
(* the manager was blocked in recv().                                       *)
StopEndsManager ==
  stopEvent ~> pcM = "done" /\ \A c \in Conns : local[c] # "open"

(* With keepalive a dead peer does not occupy the bridge for ever.          *)
DeadPeerIsDropped ==
  \A c \in Conns :
    (cfg.keepalive /\ sock = c /\ peer[c] # "up") ~> local[c] = "closed"
=============================================================================
