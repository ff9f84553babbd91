------------------------------ MODULE EspMain ------------------------------
(***************************************************************************)
(* The life of the ESP32 program: main() of main.c from the connection     *)
(* manager (ConnMgr) through connecting, starting the CAN controller and   *)
(* the bridge loop to the place where everything is given back.  What is   *)
(* inside a record is EspReceiver's and EspUplink's subject; here the loop *)
(* is drain, send, poll and receive.                                       *)
(*                                                                         *)
(*   at      place in main()                                               *)
(*   socks   how many sockets are open                                     *)
(*   can, filter   controller started, receive filter installed            *)
(*   q       number of frames in can_rx_q                                  *)
(*   conn    (external) "up", "ended" (recv would report it) or "error"    *)
(*           (poll reports only ZSOCK_POLLERR); input: bytes are waiting   *)
(***************************************************************************)
EXTENDS ConnMgr

CONSTANT RxMsgqLen         \* RX_MSGQ_LEN: 32 in the code

ASSUME EspMainAssumption == RxMsgqLen \in Nat \ {0}

VARIABLES at, socks, can, filter, q, conn, input

mainVars == <<at, socks, can, filter, q, conn, input>>
vars == <<connVars, mainVars>>

Init ==
  /\ ConnInit
  /\ at = "manager" /\ socks = 0
  /\ can = FALSE /\ filter = FALSE
  /\ q = 0
  /\ conn = "up" /\ input = FALSE

Goes(from, to) == at = from /\ at' = to

-----------------------------------------------------------------------------
(* connection_manager_init returned.                                        *)
ManagerDone ==
  /\ stage \in {"ok", "failed"}
  /\ Goes("manager", IF stage = "ok" THEN "dial" ELSE "returned")
  /\ UNCHANGED <<socks, can, filter, q, conn, input>>

(* while (sock < 0) sock = tcp_connect(): bad address or no socket ...      *)
NoSocket ==
  /\ Goes("dial", "dial")
  /\ UNCHANGED <<socks, can, filter, q, conn, input>>

(* ... or a socket, which is closed again when zsock_connect fails.         *)
OpenSocket ==
  /\ Goes("dial", "dialing")
  /\ socks' = socks + 1
  /\ UNCHANGED <<can, filter, q, conn, input>>

ConnectFails ==
  /\ Goes("dialing", "dial")
  /\ socks' = socks - 1
  /\ UNCHANGED <<can, filter, q, conn, input>>

ConnectSucceeds ==
  /\ Goes("dialing", "canReady")
  /\ UNCHANGED <<socks, can, filter, q, conn, input>>

(* device_is_ready, can_start, can_add_rx_filter: each may fail, and what   *)
(* was acquired before is given back in the reverse order.                  *)
NotReady ==
  /\ Goes("canReady", "close")
  /\ UNCHANGED <<socks, can, filter, q, conn, input>>

Ready ==
  /\ Goes("canReady", "canStart")
  /\ UNCHANGED <<socks, can, filter, q, conn, input>>

CanStart ==
  /\ \/ Goes("canStart", "addFilter") /\ can' = TRUE
     \/ Goes("canStart", "close") /\ UNCHANGED can
  /\ UNCHANGED <<socks, filter, q, conn, input>>

FilterFailsTo(place) ==
  /\ Goes("addFilter", place)
  /\ UNCHANGED <<socks, can, filter, q, conn, input>>

ForgetsCanStop == FilterFailsTo("close")                 \* mutant

FilterFails == FilterFailsTo("canStop")

AddFilter ==
  /\ Goes("addFilter", "drain")
  /\ filter' = TRUE
  /\ UNCHANGED <<socks, can, q, conn, input>>

-----------------------------------------------------------------------------
(* while (k_msgq_get(...) == 0) (void)tcp_send_can_frame(sock, &cf);        *)
Drain ==
  /\ Goes("drain", "send")
  /\ q > 0
  /\ q' = q - 1
  /\ UNCHANGED <<socks, can, filter, conn, input>>

SendFrame ==
  /\ Goes("send", "drain")
  /\ UNCHANGED <<socks, can, filter, q, conn, input>>

Drained ==
  /\ Goes("drain", "poll")
  /\ q = 0
  /\ UNCHANGED <<socks, can, filter, q, conn, input>>

(* zsock_poll: nothing within 10 ms, or something that is not POLLIN.       *)
PollNothing ==
  /\ Goes("poll", "drain")
  /\ ~ input /\ conn # "ended"
  /\ UNCHANGED <<socks, can, filter, q, conn, input>>

PollFails ==
  /\ Goes("poll", "removeFilter")
  /\ UNCHANGED <<socks, can, filter, q, conn, input>>

PollIn ==
  /\ Goes("poll", "receive")
  /\ input \/ conn = "ended"
  /\ UNCHANGED <<socks, can, filter, q, conn, input>>

(* A record was received and sent to the CAN bus, refused or thrown away.   *)
(* Until its last byte has come the loop does nothing else.                 *)
Receive ==
  /\ Goes("receive", "drain")
  /\ input
  /\ input' = FALSE
  /\ UNCHANGED <<socks, can, filter, q, conn>>

(* recv_all failed, which leaves the loop.                                  *)
ReceiveFailsTo(place) ==
  /\ Goes("receive", place)
  /\ conn # "up"
  /\ UNCHANGED <<socks, can, filter, q, conn, input>>

KeepsRunning == ReceiveFailsTo("drain")                  \* mutant

ReceiveFails == ReceiveFailsTo("removeFilter")

RemoveFilter ==
  /\ Goes("removeFilter", "canStop")
  /\ filter' = FALSE
  /\ UNCHANGED <<socks, can, q, conn, input>>

CanStop ==
  /\ Goes("canStop", "close")
  /\ can' = FALSE
  /\ UNCHANGED <<socks, filter, q, conn, input>>

CloseSocket ==
  /\ Goes("close", "returned")
  /\ socks' = socks - 1
  /\ UNCHANGED <<can, filter, q, conn, input>>

MainStep ==
  \/ ManagerDone \/ NoSocket \/ OpenSocket \/ ConnectFails \/ ConnectSucceeds
  \/ NotReady \/ Ready \/ CanStart \/ FilterFails \/ AddFilter
  \/ Drain \/ SendFrame \/ Drained \/ PollNothing \/ PollFails \/ PollIn
  \/ Receive \/ ReceiveFails \/ RemoveFilter \/ CanStop \/ CloseSocket

-----------------------------------------------------------------------------
(* The CAN driver calls can_rx_cb for a frame; a full queue refuses it.     *)
CanRxCb ==
  /\ filter
  /\ q' = IF q < RxMsgqLen THEN q + 1 ELSE q
  /\ UNCHANGED <<at, socks, can, filter, conn, input>>

Connected == socks > 0 /\ at \notin {"dialing", "returned"}

PeerWrites ==
  /\ Connected /\ conn = "up"
  /\ input' = TRUE
  /\ UNCHANGED <<at, socks, can, filter, q, conn>>

PeerEnds ==
  /\ Connected /\ conn = "up"
  /\ conn' \in {"ended", "error"}
  /\ UNCHANGED <<at, socks, can, filter, q, input>>

Manager == at = "manager" /\ ConnInitStep /\ UNCHANGED mainVars
Main == MainStep /\ UNCHANGED connVars
World == (CanRxCb \/ PeerWrites \/ PeerEnds) /\ UNCHANGED connVars

Next == Manager \/ Main \/ World \/ (NetworkStep /\ UNCHANGED mainVars)

(* The main thread runs whenever the call it is in can return.  Neither the *)
(* network nor the CAN bus owes it anything.                                *)
Spec == Init /\ [][Next]_vars /\ WF_vars(Manager) /\ WF_vars(Main)

-----------------------------------------------------------------------------
(* Every way out of main() gives back exactly what was acquired before it,  *)
(* and the receive callback is installed only while the controller runs and *)
(* there is a connection to forward to.                                     *)
GivesBackInOrder ==
  /\ at = "returned" => socks = 0 /\ ~ can /\ ~ filter
  /\ filter => can /\ socks = 1

(* What connection_manager_init reports is what happened, although both     *)
(* statics read "success" from the start: success only with an address      *)
(* after an association, failure only when one was reported to it (or there *)
(* is no interface).                                                        *)
ResultIsTrue ==
  /\ stage = "ok" => net.wasUp /\ net.address
  /\ stage = "failed" /\ wifi.cb => net.wasDown

(* No answer is missed: whoever waits on a semaphore for something that has *)
(* already happened finds it given.                                         *)
NoMissedAnswer ==
  /\ stage = "waitWifi" /\ net.result # "none" => wifi.sem = 1
  /\ stage = "waitDhcp" /\ net.address => dhcp.sem = 1

(* The end of the connection ends the program, unless frames keep coming in *)
(* faster than the draining loop sends them.                                *)
DrainsForEver == <>[](at \in {"drain", "send"})

EndIsNoticed == DrainsForEver \/ (conn = "ended" ~> at = "returned")
=============================================================================
