------------------------------ MODULE ConnMgr ------------------------------
(***************************************************************************)
(* The ESP32's connection manager (connection_manager_wifi.c, wifi.c,      *)
(* dhcp.c): connection_manager_init asks for a Wi-Fi connection, waits on  *)
(* a semaphore for its result, starts DHCP and waits on a second one for   *)
(* an address.  The two callbacks run in the network management thread.    *)
(*                                                                         *)
(*   stage   where connection_manager_init is; "ok" and "failed" are its   *)
(*           results                                                       *)
(*   tries   nr_tries of cm_wifi_connect                                   *)
(*   wifi, dhcp   registered callback, semaphore and static status of each *)
(*   net     (external) what the radio and the DHCP server have done       *)
(***************************************************************************)
EXTENDS Integers

CONSTANTS
  NumTries,                \* CONFIG_WIFI_NUM_TRIES: 10 by default
  MaxEvents                \* bound: events of the radio and the DHCP server

ASSUME ConnMgrAssumption == NumTries \in Nat /\ MaxEvents \in Nat

VARIABLES stage, tries, wifi, dhcp, net

connVars == <<stage, tries, wifi, dhcp, net>>

(* Both statics are zero at boot, which is WIFI_CONNECTED and DHCP_OK.      *)
SignalWith(sem) == [cb |-> FALSE, sem |-> sem, status |-> "ok"]

GivenAtBoot == SignalWith(1)                             \* mutant

Signal == SignalWith(0)

ConnInit ==
  /\ stage = "start"
  /\ tries = 0
  /\ wifi = Signal
  /\ dhcp = Signal
  /\ net = [accepted |-> FALSE, result |-> "none", wasUp |-> FALSE, wasDown |-> FALSE,
            client |-> FALSE, address |-> FALSE, events |-> 0]

(* The callback of an event: store the status, give the semaphore, whose    *)
(* limit is one.  Without a registered callback the event is gone.          *)
GivesOnSuccess(s, status) ==                             \* mutant
  IF s.cb /\ status = "ok" THEN [s EXCEPT !.status = status, !.sem = 1] ELSE s

Notify(s, status) == IF s.cb THEN [s EXCEPT !.status = status, !.sem = 1] ELSE s

-----------------------------------------------------------------------------
(* net_if_get_default(), then the beginning of cm_wifi_connect.             *)
NoInterface ==
  /\ stage = "start"
  /\ stage' = "failed"
  /\ UNCHANGED <<tries, wifi, dhcp, net>>

BeginConnect ==
  /\ stage = "start"
  /\ wifi' = [wifi EXCEPT !.cb = TRUE]
  /\ tries' = NumTries
  /\ stage' = "request"
  /\ UNCHANGED <<dhcp, net>>

(* do { ... } while ((status != 0) && (nr_tries-- > 0));                    *)
RequestAccepted ==
  /\ stage = "request"
  /\ net' = [net EXCEPT !.accepted = TRUE]
  /\ stage' = "waitWifi"
  /\ UNCHANGED <<tries, wifi, dhcp>>

RequestRefused ==
  /\ stage = "request"
  /\ tries' = tries - 1
  /\ stage' = IF tries > 0 THEN "request" ELSE "waitWifi"
  /\ UNCHANGED <<wifi, dhcp, net>>

(* k_sem_take(&wifi_connected_sem, K_FOREVER)                               *)
TakeWifi ==
  /\ stage = "waitWifi"
  /\ wifi.sem = 1
  /\ wifi' = [wifi EXCEPT !.sem = 0]
  /\ stage' = "haveWifi"
  /\ UNCHANGED <<tries, dhcp, net>>

(* wifi_status is read only now; a later result may have replaced it.       *)
WifiFailed ==
  /\ stage = "haveWifi"
  /\ wifi.status # "ok"
  /\ stage' = "failed"
  /\ UNCHANGED <<tries, wifi, dhcp, net>>

(* dhcp_client_start: register the callback, then start the client.         *)
RegisterDhcp ==
  /\ stage = "haveWifi"
  /\ wifi.status = "ok"
  /\ dhcp' = [dhcp EXCEPT !.cb = TRUE]
  /\ stage' = "startDhcp"
  /\ UNCHANGED <<tries, wifi, net>>

StartDhcp ==
  /\ stage = "startDhcp"
  /\ net' = [net EXCEPT !.client = TRUE]
  /\ stage' = "waitDhcp"
  /\ UNCHANGED <<tries, wifi, dhcp>>

TakeDhcp ==
  /\ stage = "waitDhcp"
  /\ dhcp.sem = 1
  /\ dhcp' = [dhcp EXCEPT !.sem = 0]
  /\ stage' = IF dhcp.status = "ok" THEN "ok" ELSE "failed"
  /\ UNCHANGED <<tries, wifi, net>>

ConnInitStep ==
  \/ NoInterface \/ BeginConnect \/ RequestAccepted \/ RequestRefused
  \/ TakeWifi \/ WifiFailed \/ RegisterDhcp \/ StartDhcp \/ TakeDhcp

-----------------------------------------------------------------------------
(* NET_EVENT_WIFI_CONNECT_RESULT: the answer to the request, and later ones *)
(* when the driver loses the access point and connects again by itself.     *)
ConnectResult ==
  /\ net.accepted
  /\ net.events < MaxEvents
  /\ \E status \in {"ok", "failed"} :
       /\ wifi' = Notify(wifi, status)
       /\ net' = [net EXCEPT !.result = status, !.events = @ + 1,
                             !.wasUp = @ \/ status = "ok",
                             !.wasDown = @ \/ status = "failed"]
  /\ UNCHANGED <<stage, tries, dhcp>>

(* NET_EVENT_IPV4_ADDR_ADD, the only event dhcp_mgmt_events_cb hears of; a  *)
(* server that never answers makes none.                                    *)
AddressAdded ==
  /\ net.client /\ net.result = "ok"
  /\ net.events < MaxEvents
  /\ dhcp' = Notify(dhcp, "ok")
  /\ net' = [net EXCEPT !.address = TRUE, !.events = @ + 1]
  /\ UNCHANGED <<stage, tries, wifi>>

NetworkStep == ConnectResult \/ AddressAdded

=============================================================================
