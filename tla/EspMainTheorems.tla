--------------------------- MODULE EspMainTheorems ---------------------------
(***************************************************************************)
(* The ESP32 program from the connection manager to its end, for every     *)
(* number of tries, events and frames in the queue.  The invariant says    *)
(* for each place of main() what is acquired there, and for each stage of  *)
(* connection_manager_init what the network has done and what the two      *)
(* semaphores and statuses know of it.                                     *)
(***************************************************************************)
EXTENDS EspMain, TLAPS

Places ==
  {"manager", "dial", "dialing", "canReady", "canStart", "addFilter", "drain", "send",
   "poll", "receive", "removeFilter", "canStop", "close", "returned"}
Stages ==
  {"start", "request", "waitWifi", "haveWifi", "startDhcp", "waitDhcp", "ok", "failed"}
Forwarding == {"drain", "send", "poll", "receive", "removeFilter"}

Signals == [cb : BOOLEAN, sem : {0, 1}, status : {"ok", "failed"}]
Network ==
  [accepted : BOOLEAN, result : {"none", "ok", "failed"}, wasUp : BOOLEAN,
   wasDown : BOOLEAN, client : BOOLEAN, address : BOOLEAN, events : Nat]

(* main(): what is acquired at each place.                                  *)
Holds ==
  /\ at \in Places
  /\ can => at \in Forwarding \cup {"addFilter", "canStop"}
  /\ at \in Forwarding \cup {"addFilter"} => can
  /\ filter => at \in Forwarding

Sockets ==
  /\ at \in Places
  /\ socks = IF at \in {"manager", "dial", "returned"} THEN 0 ELSE 1

Acquired == Holds /\ Sockets

ConnTypes ==
  /\ stage \in Stages
  /\ wifi \in Signals /\ dhcp \in Signals /\ net \in Network

(* The Wi-Fi semaphore and status, against the results reported so far.     *)
WifiKnows ==
  /\ stage = "start" => ~ wifi.cb /\ ~ net.accepted
  /\ stage \notin {"start", "failed"} => wifi.cb
  /\ net.accepted => wifi.cb
  /\ net.result # "none" => net.accepted /\ wifi.status = net.result
  /\ net.result = "none" => wifi.sem = 0
  /\ net.result = "ok" => net.wasUp
  /\ net.result = "failed" => net.wasDown
  /\ stage \in {"start", "request", "waitWifi"} /\ net.result # "none" => wifi.sem = 1
  /\ stage = "haveWifi" => net.result # "none"

(* The same of DHCP, of which only a new address is ever reported.          *)
DhcpKnows ==
  /\ dhcp.status = "ok"
  /\ stage \in {"startDhcp", "waitDhcp", "ok"} => net.wasUp
  /\ stage \in {"startDhcp", "waitDhcp"} => dhcp.cb
  /\ stage \in {"start", "request", "waitWifi", "haveWifi", "startDhcp"} => ~ net.client
  /\ net.address => net.client
  /\ dhcp.sem = 1 => net.address
  /\ stage = "waitDhcp" /\ net.address => dhcp.sem = 1
  /\ stage = "ok" => net.address
  /\ stage = "failed" /\ wifi.cb => net.wasDown

ConnInv == ConnTypes /\ WifiKnows /\ DhcpKnows

IInv == Acquired /\ ConnInv

(* At boot nothing is acquired and nothing has happened.                    *)
LEMMA InitIInv == Init => IInv
<1>. SUFFICES ASSUME Init PROVE IInv
  OBVIOUS
<1>1. Acquired
  <2>1. Holds
    BY DEF Init, Holds, Places, Forwarding
  <2>2. Sockets
    BY DEF Init, Sockets, Places
  <2>. QED
    BY <2>1, <2>2 DEF Acquired
<1>2. ConnInv
  BY DEF Init, ConnInit, SignalWith, Signal, ConnInv, ConnTypes, WifiKnows, DhcpKnows,
      Stages, Signals, Network
<1>. QED
  BY <1>1, <1>2 DEF IInv

(* Every step of main() acquires and gives back what its place says.        *)
LEMMA MainKeepsAcquired == Acquired /\ MainStep => Acquired'
<1>. SUFFICES ASSUME Acquired, MainStep PROVE Acquired'
  OBVIOUS
<1>1. Holds'
  <2>. USE DEF Acquired, Holds, Places, Forwarding, Goes
  <2>1. CASE ManagerDone \/ NoSocket \/ OpenSocket \/ ConnectFails \/ ConnectSucceeds
    BY <2>1 DEF ManagerDone, NoSocket, OpenSocket, ConnectFails, ConnectSucceeds
  <2>2. CASE NotReady \/ Ready \/ CanStart
    BY <2>2 DEF NotReady, Ready, CanStart
  <2>3. CASE FilterFails \/ AddFilter
    BY <2>3 DEF FilterFails, FilterFailsTo, AddFilter
  <2>4. CASE Drain \/ SendFrame \/ Drained \/ PollNothing \/ PollFails \/ PollIn
    BY <2>4 DEF Drain, SendFrame, Drained, PollNothing, PollFails, PollIn
  <2>5. CASE Receive \/ ReceiveFails
    BY <2>5 DEF Receive, ReceiveFails, ReceiveFailsTo
  <2>6. CASE RemoveFilter \/ CanStop \/ CloseSocket
    BY <2>6 DEF RemoveFilter, CanStop, CloseSocket
  <2>. QED
    BY <2>1, <2>2, <2>3, <2>4, <2>5, <2>6 DEF MainStep
<1>2. Sockets'
  BY DEF Acquired, Sockets, Places, Goes, MainStep,
         ManagerDone, NoSocket, OpenSocket, ConnectFails, ConnectSucceeds,
         NotReady, Ready, CanStart, FilterFails, FilterFailsTo, AddFilter,
         Drain, SendFrame, Drained, PollNothing, PollFails, PollIn,
         Receive, ReceiveFails, ReceiveFailsTo, RemoveFilter, CanStop, CloseSocket
<1>. QED
  BY <1>1, <1>2 DEF Acquired

(* The CAN bus and the peer acquire nothing.                                *)
LEMMA WorldKeepsAcquired == Acquired /\ World => Acquired'
<1>1. World => UNCHANGED <<at, socks, can, filter>>
  BY DEF World, CanRxCb, PeerWrites, PeerEnds
<1>. QED
  BY <1>1 DEF Acquired, Holds, Sockets

(* A step of connection_manager_init, up to the Wi-Fi result ...            *)
LEMMA WifiStepKeepsConnInv ==
  ASSUME ConnInv,
         \/ NoInterface \/ BeginConnect \/ RequestAccepted \/ RequestRefused
         \/ TakeWifi \/ WifiFailed
  PROVE  ConnInv'
<1>. USE DEF ConnInv, ConnTypes, WifiKnows, DhcpKnows, Stages, Signals, Network
<1>1. CASE NoInterface
  BY <1>1 DEF NoInterface
<1>2. CASE BeginConnect
  BY <1>2 DEF BeginConnect
<1>3. CASE RequestAccepted
  BY <1>3 DEF RequestAccepted
<1>4. CASE RequestRefused
  BY <1>4 DEF RequestRefused
<1>5. CASE TakeWifi
  BY <1>5 DEF TakeWifi
<1>6. CASE WifiFailed
  BY <1>6 DEF WifiFailed
<1>. QED
  BY <1>1, <1>2, <1>3, <1>4, <1>5, <1>6

(* ... and from there to the address.                                       *)
LEMMA DhcpStepKeepsConnInv ==
  ASSUME ConnInv, RegisterDhcp \/ StartDhcp \/ TakeDhcp
  PROVE  ConnInv'
<1>. USE DEF ConnInv, ConnTypes, WifiKnows, DhcpKnows, Stages, Signals, Network
<1>1. CASE RegisterDhcp
  BY <1>1 DEF RegisterDhcp
<1>2. CASE StartDhcp
  BY <1>2 DEF StartDhcp
<1>3. CASE TakeDhcp
  BY <1>3 DEF TakeDhcp
<1>. QED
  BY <1>1, <1>2, <1>3

(* An event at any time, also while no one waits for it.                    *)
LEMMA EventKeepsConnInv == ConnInv /\ NetworkStep => ConnInv'
<1>. SUFFICES ASSUME ConnInv, NetworkStep PROVE ConnInv'
  OBVIOUS
<1>. USE DEF ConnInv, ConnTypes, WifiKnows, DhcpKnows, Stages, Signals, Network
<1>1. net.events + 1 \in Nat
  OBVIOUS
<1>2. CASE ConnectResult
  <2>1. PICK status \in {"ok", "failed"} :
          /\ net.accepted
          /\ wifi' = Notify(wifi, status)
          /\ net' = [net EXCEPT !.result = status, !.events = @ + 1,
                                !.wasUp = @ \/ status = "ok",
                                !.wasDown = @ \/ status = "failed"]
          /\ UNCHANGED <<stage, dhcp>>
    BY <1>2 DEF ConnectResult
  <2>2. /\ net' \in Network /\ net'.result = status
        /\ net'.accepted = net.accepted /\ net'.client = net.client
        /\ net'.address = net.address
    BY <1>1, <2>1
  <2>3. /\ net'.wasUp <=> net.wasUp \/ status = "ok"
        /\ net'.wasDown <=> net.wasDown \/ status = "failed"
    BY <1>1, <2>1
  <2>4. wifi' = [cb |-> TRUE, sem |-> 1, status |-> status]
    BY <2>1 DEF Notify
  <2>. QED
    BY <2>1, <2>2, <2>3, <2>4
<1>3. CASE AddressAdded
  BY <1>1, <1>3 DEF AddressAdded, Notify
<1>. QED
  BY <1>2, <1>3 DEF NetworkStep

LEMMA NextIInv == IInv /\ [Next]_vars => IInv'
<1>. SUFFICES ASSUME IInv, [Next]_vars PROVE IInv'
  OBVIOUS
<1>. USE DEF IInv
<1>1. UNCHANGED connVars => ConnInv'
  BY DEF connVars, ConnInv, ConnTypes, WifiKnows, DhcpKnows
<1>2. UNCHANGED mainVars => Acquired'
  BY DEF mainVars, Acquired, Holds, Sockets
<1>3. CASE Manager
  BY <1>2, <1>3, WifiStepKeepsConnInv, DhcpStepKeepsConnInv DEF Manager, ConnInitStep
<1>4. CASE Main
  BY <1>1, <1>4, MainKeepsAcquired DEF Main
<1>5. CASE World
  BY <1>1, <1>5, WorldKeepsAcquired DEF World
<1>6. CASE NetworkStep /\ UNCHANGED mainVars
  BY <1>2, <1>6, EventKeepsConnInv
<1>7. CASE UNCHANGED vars
  BY <1>1, <1>2, <1>7 DEF vars
<1>. QED
  BY <1>3, <1>4, <1>5, <1>6, <1>7 DEF Next

-----------------------------------------------------------------------------
(* In every reachable state main() holds exactly what its place says, and   *)
(* the semaphores and statuses of the connection manager say what happened. *)
THEOREM SpecIInv == Spec => []IInv
<1>. QED
  BY InitIInv, NextIInv, PTL DEF Spec

(* Every way out of main() gives back what was acquired, and the receive    *)
(* callback only runs with a started controller and a connection.           *)
THEOREM EverythingGivenBack == Spec => []GivesBackInOrder
<1>1. IInv => GivesBackInOrder
  BY DEF IInv, Acquired, Holds, Sockets, Places, Forwarding, GivesBackInOrder
<1>. QED
  BY <1>1, SpecIInv, PTL

(* connection_manager_init reports what happened, whatever the order of     *)
(* results, addresses and waits.                                            *)
THEOREM ManagerTellsTruth == Spec => []ResultIsTrue
<1>1. IInv => ResultIsTrue
  BY DEF IInv, ConnInv, ConnTypes, WifiKnows, DhcpKnows, ResultIsTrue
<1>. QED
  BY <1>1, SpecIInv, PTL

(* Whoever waits on a semaphore for what has already happened finds it      *)
(* given.                                                                   *)
THEOREM NoAnswerMissed == Spec => []NoMissedAnswer
<1>1. IInv => NoMissedAnswer
  BY DEF IInv, ConnInv, ConnTypes, WifiKnows, DhcpKnows, NoMissedAnswer
<1>. QED
  BY <1>1, SpecIInv, PTL
=============================================================================
