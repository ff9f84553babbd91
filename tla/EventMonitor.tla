---------------------------- MODULE EventMonitor ----------------------------
(***************************************************************************)
(* The event monitor of co.py: subscriptions to the heartbeat and the      *)
(* TPDOs of nodes, the thread of the CAN library that calls their          *)
(* callbacks, the thread that redraws the menu, and the main loop that     *)
(* subscribes, unsubscribes and replaces nodes.  The code has the same     *)
(* functions twice, once over dictionaries by node and once by node and    *)
(* PDO number; here a key is a node and a feed.  Every access to the shown *)
(* data is one section under self.lock.                                    *)
(*                                                                         *)
(*   registered  callbacks held by node objects: [key, obj, id]            *)
(*   current     hb_callbacks, pdo_callbacks: a key's callback, or 0       *)
(*   data        subscribed_hbs, subscribed_pdos: the last event, or 0     *)
(*   force       force_refresh                                             *)
(*   nodesObj    nodes: which object stands for a node, 0 before add_node  *)
(*   lacking     the TPDOs that the EDS of a node's object does not have   *)
(*   netObj      the object the network delivers to (external)             *)
(*   shown       what the screen last showed of data                       *)
(*   gone        history: keys of which the user was last told that they   *)
(*               are unsubscribed                                          *)
(*   left        history: callbacks whose removal failed                   *)
(*   pcM, arg, inMenu          main loop; arg is the key it works on       *)
(*   pcN, call, stamp          the library's thread                        *)
(*   pcR                       refresh_loop                                *)
(***************************************************************************)
EXTENDS Integers, FiniteSets

CONSTANTS
  Nodes,                   \* node ids
  Feeds,                   \* "heartbeat" and the TPDOs of a node
  MaxEvents,               \* bound: heartbeats and PDOs received
  MaxSubscriptions,        \* bound: subscriptions of one key
  MaxObjects,              \* bound: objects made for one node
  MayFail,                 \* feeds of which the removal of a callback may fail
  Repeats                  \* the user subscribes to what is subscribed already

ASSUME MonitorAssumption ==
  /\ {MaxEvents, MaxSubscriptions, MaxObjects} \subseteq Nat
  /\ MayFail \subseteq Feeds
  /\ Repeats \in BOOLEAN

VARIABLES registered, current, data, force, nodesObj, lacking, netObj, shown, gone, left,
          pcM, arg, inMenu, pcN, call, stamp, pcR

objects == <<nodesObj, lacking, netObj>>
mainVars == <<pcM, arg, inMenu, gone, left>>
notifierVars == <<pcN, call, stamp>>
vars == <<registered, current, data, force, objects, shown, mainVars, notifierVars, pcR>>

Keys == [node : Nodes, feed : Feeds]
Pdos == {k \in Keys : k.feed # "heartbeat"}
NoKey == [node |-> 0, feed |-> "none"]
NoCall == [key |-> NoKey, obj |-> 0, last |-> 0]

Init ==
  /\ registered = {}
  /\ current = [k \in Keys |-> 0] /\ data = [k \in Keys |-> 0]
  /\ nodesObj = [n \in Nodes |-> 0] /\ netObj = [n \in Nodes |-> 0]
  /\ lacking = {}
  /\ force = FALSE
  /\ shown = [k \in Keys |-> 0] /\ gone = {} /\ left = {}
  /\ pcM = "top" /\ arg = NoKey /\ inMenu = TRUE
  /\ pcN = "idle" /\ call = NoCall /\ stamp = 0
  /\ pcR = "wait"

-----------------------------------------------------------------------------
(* The main loop.                                                           *)

Main(from, to) == pcM = from /\ pcM' = to

(* in_main_menu[0] = True                                                   *)
EnterMenu ==
  /\ Main("top", "refresh")
  /\ inMenu' = TRUE
  /\ UNCHANGED <<registered, current, data, force, objects, shown, gone, left, arg, notifierVars, pcR>>

(* monitor.manual_refresh()                                                 *)
RefreshTo(screen) ==
  /\ Main("refresh", "input")
  /\ shown' = screen
  /\ UNCHANGED <<registered, current, data, force, objects, gone, left, arg, inMenu, notifierVars, pcR>>

LeavesItToTheThread == RefreshTo(shown)                  \* mutant

ManualRefresh == RefreshTo(data)

(* op = input(""); in_main_menu[0] = False                                  *)
Choose ==
  /\ Main("input", "dialog")
  /\ inMenu' = FALSE
  /\ UNCHANGED <<registered, current, data, force, objects, shown, gone, left, arg, notifierVars, pcR>>

(* What neither subscribes, unsubscribes nor replaces a node.               *)
OtherDialog ==
  /\ Main("dialog", "top")
  /\ UNCHANGED <<registered, current, data, force, objects, shown, gone, left, arg, inMenu, notifierVars, pcR>>

Newest(n) == IF nodesObj[n] > netObj[n] THEN nodesObj[n] ELSE netObj[n]

(* add_node: also for an id that is there already, and with another EDS.    *)
AddNode(n) ==
  /\ Main("dialog", "top")
  /\ Newest(n) < MaxObjects
  /\ \E missing \in SUBSET {k \in Pdos : k.node = n} :
       lacking' = {k \in lacking : k.node # n} \cup missing
  /\ nodesObj' = [nodesObj EXCEPT ![n] = Newest(n) + 1]
  /\ netObj' = [netObj EXCEPT ![n] = Newest(n) + 1]
  /\ UNCHANGED <<registered, current, data, force, shown, gone, left, arg, inMenu, notifierVars, pcR>>

(* flash_firmware: the network gets an object of its own for the node.      *)
FlashNode(n) ==
  /\ Main("dialog", "top")
  /\ nodesObj[n] > 0 /\ Newest(n) < MaxObjects
  /\ netObj' = [netObj EXCEPT ![n] = Newest(n) + 1]
  /\ UNCHANGED <<registered, current, data, force, nodesObj, lacking, shown, gone, left, arg, inMenu, notifierVars, pcR>>

(* subscribe_heartbeat, subscribe_tpdo: the callback is added ...           *)
Ids(k) == {c.id : c \in {r \in registered : r.key = k}} \cup {current[k]}

AddCallbackIf(k, there) ==
  /\ Main("dialog", "noted")
  /\ there
  /\ Repeats \/ current[k] = 0
  /\ \E id \in 1 .. MaxSubscriptions :
       /\ id - 1 \in Ids(k) /\ \A i \in Ids(k) : i < id
       /\ registered' = registered \cup {[key |-> k, obj |-> nodesObj[k.node], id |-> id]}
  /\ arg' = k
  /\ gone' = gone \ {k}
  /\ UNCHANGED <<current, data, force, objects, shown, left, inMenu, notifierVars, pcR>>

AddCallback(k) == AddCallbackIf(k, nodesObj[k.node] > 0 /\ k \notin lacking)

(* ... and then noted.                                                      *)
NoteCallback ==
  /\ Main("noted", "top")
  /\ \E id \in Ids(arg) :
       /\ \A i \in Ids(arg) : i <= id
       /\ current' = [current EXCEPT ![arg] = id]
  /\ arg' = NoKey
  /\ UNCHANGED <<registered, data, force, objects, shown, gone, left, inMenu, notifierVars, pcR>>

Stored == {k \in Keys : data[k] # 0}

(* unsubscribe_heartbeat, unsubscribe_tpdo: the choice is among the keys    *)
(* heard of.                                                                *)
ChooseSubscription(k) ==
  /\ Main("dialog", "remove")
  /\ k \in Stored
  /\ arg' = k
  /\ UNCHANGED <<registered, current, data, force, objects, shown, gone, left, inMenu, notifierVars, pcR>>

(* node.tpdo[pdo_num] is evaluated outside the try: for a node replaced     *)
(* with an EDS without this TPDO it raises, which ends main().              *)
UnsubscribeRaises ==
  /\ Main("remove", "done")
  /\ arg \in lacking
  /\ UNCHANGED <<registered, current, data, force, objects, shown, gone, left, arg, inMenu, notifierVars, pcR>>

UnsubscribeNothing ==
  /\ Main("remove", "top")
  /\ arg \notin lacking /\ current[arg] = 0
  /\ gone' = gone \cup {arg}
  /\ arg' = NoKey
  /\ UNCHANGED <<registered, current, data, force, objects, shown, left, inMenu, notifierVars, pcR>>

(* Whatever goes wrong with the removal is swallowed.  That a callback is   *)
(* not at this object is no more than that; but the library may also have   *)
(* no removal for this feed, or refuse it, and the callback stays.          *)
RemoveOf(callbacks, failed) ==
  /\ Main("remove", "pop")
  /\ arg \notin lacking /\ current[arg] # 0
  /\ registered' = registered \ callbacks
  /\ left' = left \cup failed
  /\ UNCHANGED <<current, data, force, objects, shown, gone, arg, inMenu, notifierVars, pcR>>

ForgetsFirst == RemoveOf({}, {})                         \* mutant

Noted == [key |-> arg, obj |-> nodesObj[arg.node], id |-> current[arg]]

RemoveCallback ==
  \/ RemoveOf({Noted}, {})
  \/ arg.feed \in MayFail /\ RemoveOf({}, {Noted} \cap registered)

PopBoth ==
  /\ Main("pop", "set")
  /\ data' = [data EXCEPT ![arg] = 0]
  /\ current' = [current EXCEPT ![arg] = 0]
  /\ UNCHANGED <<registered, force, objects, shown, gone, left, arg, inMenu, notifierVars, pcR>>

Unsubscribed ==
  /\ Main("set", "top")
  /\ force' = TRUE
  /\ gone' = gone \cup {arg}
  /\ arg' = NoKey
  /\ UNCHANGED <<registered, current, data, objects, shown, left, inMenu, notifierVars, pcR>>

(* Option 14, or Ctrl-C: network.disconnect() waits for the library's       *)
(* thread; then the process ends.                                           *)
Quit ==
  /\ pcM # "done" /\ pcM' = "done"
  /\ pcN = "idle"
  /\ UNCHANGED <<registered, current, data, force, objects, shown, gone, left, arg, inMenu, notifierVars, pcR>>

(* What nobody catches ends main() at once: the exceptions of add_node, and *)
(* the end of the input at the menu.                                        *)
EndsUncaught ==
  /\ pcM \in {"input", "dialog"} /\ pcM' = "done"
  /\ UNCHANGED <<registered, current, data, force, objects, shown, gone, left, arg, inMenu, notifierVars, pcR>>

MainStep ==
  \/ EnterMenu \/ ManualRefresh \/ NoteCallback
  \/ UnsubscribeRaises \/ UnsubscribeNothing \/ RemoveCallback \/ PopBoth \/ Unsubscribed

User ==
  \/ Choose \/ OtherDialog \/ Quit \/ EndsUncaught
  \/ \E n \in Nodes : AddNode(n) \/ FlashNode(n)
  \/ \E k \in Keys : AddCallback(k) \/ ChooseSubscription(k)

-----------------------------------------------------------------------------
(* The library's thread: a heartbeat or a PDO is given to the callbacks of  *)
(* the node's object, one after another.                                    *)

Event(k) ==
  /\ pcM # "done"
  /\ pcN = "idle" /\ pcN' = "next"
  /\ netObj[k.node] > 0 /\ stamp < MaxEvents
  /\ stamp' = stamp + 1
  /\ call' = [key |-> k, obj |-> netObj[k.node], last |-> 0]
  /\ UNCHANGED <<registered, current, data, force, objects, shown, mainVars, pcR>>

ToCall == {c \in registered : c.key = call.key /\ c.obj = call.obj /\ c.id > call.last}

CallNext ==
  /\ pcN = "next" /\ pcN' = "called"
  /\ \E c \in ToCall :
       /\ \A d \in ToCall : c.id <= d.id
       /\ call' = [call EXCEPT !.last = c.id]
  /\ UNCHANGED <<registered, current, data, force, objects, shown, mainVars, stamp, pcR>>

NoMoreToCall ==
  /\ pcN = "next" /\ ToCall = {}
  /\ pcN' = "idle" /\ call' = NoCall
  /\ UNCHANGED <<registered, current, data, force, objects, shown, mainVars, stamp, pcR>>

(* hb_callback, pdo_callback: under the lock ...                            *)
Store ==
  /\ pcN = "called" /\ pcN' = "signal"
  /\ data' = [data EXCEPT ![call.key] = stamp]
  /\ UNCHANGED <<registered, current, force, objects, shown, mainVars, call, stamp, pcR>>

(* ... and after it.                                                        *)
Signal ==
  /\ pcN = "signal" /\ pcN' = "next"
  /\ force' = TRUE
  /\ UNCHANGED <<registered, current, data, objects, shown, mainVars, call, stamp, pcR>>

Notifier == CallNext \/ NoMoreToCall \/ Store \/ Signal

-----------------------------------------------------------------------------
(* refresh_loop: wait(), clear(), look whether the menu is there, draw.     *)

Wake ==
  /\ pcR = "wait" /\ force /\ pcR' = "clear"
  /\ UNCHANGED <<registered, current, data, force, objects, shown, mainVars, notifierVars>>

Clear ==
  /\ pcR = "clear" /\ pcR' = "look"
  /\ force' = FALSE
  /\ UNCHANGED <<registered, current, data, objects, shown, mainVars, notifierVars>>

Look ==
  /\ pcR = "look" /\ pcR' = IF inMenu THEN "draw" ELSE "wait"
  /\ UNCHANGED <<registered, current, data, force, objects, shown, mainVars, notifierVars>>

Draw ==
  /\ pcR = "draw" /\ pcR' = "wait"
  /\ shown' = data
  /\ UNCHANGED <<registered, current, data, force, objects, mainVars, notifierVars>>

Refresher == Wake \/ Clear \/ Look \/ Draw

-----------------------------------------------------------------------------
Next ==
  \/ MainStep \/ User \/ Notifier \/ (\E k \in Keys : Event(k))
  \/ pcM # "done" /\ Refresher

(* The threads run; the user and the bus owe nothing.                       *)
Spec ==
  /\ Init /\ [][Next]_vars
  /\ WF_vars(MainStep) /\ WF_vars(Notifier) /\ WF_vars(pcM # "done" /\ Refresher)

-----------------------------------------------------------------------------
(* While the menu waits for input, every event stored comes to the          *)
(* screen: no wake-up of the redrawing thread is lost.                      *)
UpToDate == []<>(pcM = "input" => shown = data)

(* An earlier removal of this key's callback from this object failed.       *)
LeftOn(k, obj) == \E c \in left : c.key = k /\ c.obj = obj

(* After an unsubscription only a callback that was already running can     *)
(* bring the key back to the screen, once; it stays there and is renewed    *)
(* only by an object that a removal of this key's callback failed on.       *)
AtMostOneLateEvent ==
  [][\A k \in Keys :
       k \in gone \cap gone' /\ data'[k] # data[k]
         => pcM = "pop" \/ data[k] = 0 \/ LeftOn(k, call.obj)]_vars

-----------------------------------------------------------------------------
(* What the tool tells its user.                                            *)

(* "Unsubscribed from Node ..." means that nothing calls the monitor for    *)
(* this key any more.                                                       *)
UnsubscribedMeansDetached ==
  \A k \in gone :
    ~ \E c \in registered : c.key = k /\ c.obj = netObj[k.node]
=============================================================================
