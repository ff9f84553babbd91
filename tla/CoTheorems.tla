----------------------------- MODULE CoTheorems -----------------------------
(***************************************************************************)
(* The two models of co.py: EventMonitor and CoMenu.                       *)
(*                                                                         *)
(* The event monitor for every set of nodes and feeds and every number of  *)
(* events, subscriptions and replaced node objects, as long as the user    *)
(* does not subscribe to what is subscribed already (Repeats = FALSE), and *)
(* whichever removals fail: apart from the callbacks a failed removal left *)
(* behind, one object holds at most one callback of a key, and that of the *)
(* object the tool now uses is the one it has noted (OneCallback,          *)
(* NotedCallback).  So removing the noted one detaches the key, and a call *)
(* already under way, perhaps on a replaced object, has at most one        *)
(* callback of an unsubscribed key left to run (LateOnce), unless a        *)
(* removal failed on that very object.  While such a call waits to store   *)
(* its event nothing of the key is shown (LateUnseen), so that it cannot   *)
(* be chosen again to be unsubscribed.                                     *)
(*                                                                         *)
(* The dialogs for every set of devices, every number of EDS files and     *)
(* every size of an object: the elements write_sdo has tried so far are    *)
(* settled (WrittenSoFar), main() knows the option and the node of the     *)
(* dialog it is in (InDialog), and is connected until it ends.             *)
(***************************************************************************)
EXTENDS EventMonitor, CoMenu, TLAPS

Callbacks == [key : Keys, obj : Nat, id : Nat \ {0}]

(* What no failed removal left behind.                                      *)
Sound == registered \ left

Types ==
  /\ registered \subseteq Callbacks
  /\ current \in [Keys -> Nat] /\ data \in [Keys -> Nat]
  /\ nodesObj \in [Nodes -> Nat] /\ netObj \in [Nodes -> Nat]
  /\ gone \subseteq Keys /\ stamp \in Nat

Places ==
  /\ pcM \in {"noted", "remove", "pop", "set"} => arg \in Keys
  /\ pcN # "idle" => call.key \in Keys /\ call = [key |-> call.key, obj |-> call.obj, last |-> call.last]
  /\ pcM = "set" => current[arg] = 0
  /\ pcM = "noted" => \E c \in registered : c.key = arg

ObjectOrder ==
  /\ \A n \in Nodes : nodesObj[n] <= netObj[n]
  /\ \A c \in registered : c.obj <= nodesObj[c.key.node]

OneCallback ==
  \A c, d \in Sound : c.key = d.key /\ c.obj = d.obj => c = d

Adding(k) == pcM = "noted" /\ arg = k

NotedCallback ==
  \A c \in Sound :
    c.obj = nodesObj[c.key.node] /\ pcM # "done" =>
      /\ ~ Adding(c.key) => c.id = current[c.key]
      /\ Adding(c.key) => \A i \in Ids(c.key) : i <= c.id
      /\ ~ (pcM = "pop" /\ arg = c.key)

GoneIsIdle == \A k \in gone : current[k] = 0 /\ ~ Adding(k)

(* No removal of this key's callback failed on the object that is calling.  *)
CleanCall == ~ LeftOn(call.key, call.obj)

LateOnce ==
  CleanCall =>
    \A k \in Keys :
      current[k] = 0 /\ ~ Adding(k) /\ data[k] # 0 /\ pcN # "idle" /\ call.key = k
        => pcN # "called" /\ ToCall = {}

LateUnseen ==
  pcN = "called" /\ ToCall # {} /\ CleanCall =>
    /\ data[call.key] = 0
    /\ ~ (pcM \in {"remove", "pop"} /\ arg = call.key)
    /\ current[call.key] # 0 \/ Adding(call.key)

IInv ==
  /\ Types /\ Places /\ ObjectOrder /\ OneCallback /\ NotedCallback /\ GoneIsIdle
  /\ LateOnce /\ LateUnseen

-----------------------------------------------------------------------------
(* co.py:55, 62: the monitor starts with nothing subscribed.                *)
LEMMA InitIInv == Init => IInv
  <1> SUFFICES ASSUME Init PROVE IInv
    OBVIOUS
  <1> USE DEF Init
  <1>1. Types
    BY DEF Types
  <1>2. Places /\ ObjectOrder /\ OneCallback /\ NotedCallback /\ GoneIsIdle
    BY DEF Places, ObjectOrder, OneCallback, NotedCallback, GoneIsIdle, Sound
  <1>3. LateOnce /\ LateUnseen
    BY DEF LateOnce, LateUnseen
  <1> QED
    BY <1>1, <1>2, <1>3 DEF IInv

(* What the steps of the menu, of the redrawing thread and of nobody have   *)
(* in common.                                                               *)
Elsewhere == {"top", "refresh", "input", "dialog"}

Untouched == UNCHANGED <<registered, current, data, objects, gone, left, arg, notifierVars>>

(* A step that changes neither subscriptions nor events keeps the invariant *)
(* (co.py:137-149, 697-703).                                                *)
LEMMA UntouchedIInv ==
  ASSUME IInv, Untouched, pcM' = pcM \/ (pcM \in Elsewhere /\ pcM' \in Elsewhere)
  PROVE  IInv'
  <1> USE DEF IInv, Untouched, objects, notifierVars, Elsewhere
  <1>1. Types'
    BY DEF Types
  <1>2. Places'
    BY DEF Places
  <1>3. ObjectOrder' /\ OneCallback'
    BY DEF ObjectOrder, OneCallback, Sound
  <1>4. \A k : Adding(k)' = Adding(k) /\ Ids(k)' = Ids(k)
    BY DEF Adding, Ids
  <1>5. NotedCallback'
    BY <1>4 DEF NotedCallback, Sound
  <1>6. GoneIsIdle'
    BY <1>4 DEF GoneIsIdle
  <1>7. ToCall' = ToCall /\ CleanCall' = CleanCall
    BY DEF ToCall, CleanCall, LeftOn
  <1>8. LateOnce' /\ LateUnseen'
    BY <1>4, <1>7 DEF LateOnce, LateUnseen
  <1> QED
    BY <1>1, <1>2, <1>3, <1>5, <1>6, <1>8

(* co.py:137-149, 697-703: the menu and the redrawing thread.               *)
LEMMA MenuIInv ==
  ASSUME IInv,
         \/ EnterMenu \/ ManualRefresh \/ Choose \/ OtherDialog
         \/ Refresher \/ UNCHANGED vars
  PROVE  IInv'
  <1>1. Untouched
    BY DEF EnterMenu, ManualRefresh, RefreshTo, Choose, OtherDialog, Main, Refresher, Wake,
           Clear, Look, Draw, vars, mainVars, Untouched, objects, notifierVars
  <1>2. pcM' = pcM \/ (pcM \in Elsewhere /\ pcM' \in Elsewhere)
    BY DEF EnterMenu, ManualRefresh, RefreshTo, Choose, OtherDialog, Main, Refresher, Wake,
           Clear, Look, Draw, vars, mainVars, Elsewhere
  <1> QED
    BY <1>1, <1>2, UntouchedIInv

(* co.py:733-739: the end of the tool, with the library's thread at rest.   *)
LEMMA QuitIInv == ASSUME IInv, Quit PROVE IInv'
  <1> USE DEF IInv, Quit, objects, notifierVars
  <1>1. Types'
    BY DEF Types
  <1>2. Places'
    BY DEF Places
  <1>3. ObjectOrder' /\ OneCallback' /\ NotedCallback'
    BY DEF ObjectOrder, OneCallback, NotedCallback, Sound
  <1>4. GoneIsIdle'
    BY DEF GoneIsIdle, Adding
  <1>5. LateOnce' /\ LateUnseen'
    BY DEF LateOnce, LateUnseen
  <1> QED
    BY <1>1, <1>2, <1>3, <1>4, <1>5

(* co.py:76, 173-177, 701: an exception ends main() while the library's     *)
(* thread may be at work.                                                   *)
LEMMA RaisesIInv == ASSUME IInv, UnsubscribeRaises \/ EndsUncaught PROVE IInv'
  <1> USE DEF IInv
  <1>0. /\ pcM \in {"input", "dialog", "remove"} /\ pcM' = "done"
        /\ UNCHANGED <<registered, current, data, nodesObj, netObj, gone, left, arg, pcN, call, stamp>>
    BY DEF UnsubscribeRaises, EndsUncaught, Main, objects, notifierVars
  <1>1. Types' /\ Places'
    BY <1>0 DEF Types, Places
  <1>2. ObjectOrder' /\ OneCallback' /\ NotedCallback'
    BY <1>0 DEF ObjectOrder, OneCallback, NotedCallback, Sound
  <1>3. \A k : ~ Adding(k) /\ ~ Adding(k)'
    BY <1>0 DEF Adding
  <1>4. ToCall' = ToCall /\ CleanCall' = CleanCall
    BY <1>0 DEF ToCall, CleanCall, LeftOn
  <1>5. GoneIsIdle' /\ LateOnce'
    BY <1>0, <1>3, <1>4 DEF GoneIsIdle, LateOnce
  <1>6. LateUnseen'
    BY <1>0, <1>3, <1>4 DEF LateUnseen
  <1> QED
    BY <1>1, <1>2, <1>5, <1>6

-----------------------------------------------------------------------------
(* The objects of a node.                                                   *)

(* co.py:173-180: add_node makes an object newer than every callback's, so  *)
(* none of them is on the one the tool now uses.                            *)
LEMMA AddNodeIInv == ASSUME IInv, NEW n \in Nodes, AddNode(n) PROVE IInv'
  <1> USE DEF IInv
  <1>0. Main("dialog", "top") /\ UNCHANGED <<registered, current, data, gone, left, arg, pcN, call, stamp>>
    BY DEF AddNode, notifierVars
  <1>1. /\ nodesObj' = [nodesObj EXCEPT ![n] = Newest(n) + 1]
        /\ netObj' = [netObj EXCEPT ![n] = Newest(n) + 1]
    BY DEF AddNode
  <1>2. Newest(n) \in Nat /\ nodesObj[n] <= Newest(n) /\ netObj[n] <= Newest(n)
    BY DEF Newest, Types
  <1>3. Types'
    BY <1>0, <1>1, <1>2 DEF Types
  <1>4. Places'
    BY <1>0 DEF Places, Main
  <1>5. \A m \in Nodes : /\ nodesObj'[m] = netObj'[m] \/ (nodesObj'[m] = nodesObj[m] /\ netObj'[m] = netObj[m])
                         /\ nodesObj'[m] = nodesObj[m] \/ nodesObj'[m] > nodesObj[m]
    BY <1>1, <1>2 DEF Types
  <1>6. \A c \in registered : c.key \in Keys /\ c.key.node \in Nodes /\ c.obj \in Nat
    BY DEF Types, Callbacks, Keys
  <1>7. \A m \in Nodes : {nodesObj[m], netObj[m], nodesObj'[m], netObj'[m]} \subseteq Nat
    BY <1>3 DEF Types
  <1>8. ObjectOrder'
    BY <1>0, <1>5, <1>6, <1>7 DEF ObjectOrder
  <1>9. OneCallback' /\ Sound' = Sound
    BY <1>0 DEF OneCallback, Sound
  <1>10. \A k : ~ Adding(k) /\ ~ Adding(k)'
    BY <1>0 DEF Adding, Main
  <1>11. NotedCallback'
    <2> SUFFICES ASSUME NEW c \in Sound, c.obj = nodesObj'[c.key.node]
                 PROVE  c.id = current[c.key]
      BY <1>0, <1>9, <1>10 DEF NotedCallback, Main
    <2>1. c \in registered /\ c.obj <= nodesObj[c.key.node]
      BY DEF ObjectOrder, Sound
    <2>2. c.obj = nodesObj[c.key.node]
      BY <2>1, <1>5, <1>6, <1>7
    <2> QED
      BY <2>2, <1>0, <1>10 DEF NotedCallback, Main
  <1>12. GoneIsIdle'
    BY <1>0, <1>10 DEF GoneIsIdle
  <1>13. ToCall' = ToCall /\ CleanCall' = CleanCall
    BY <1>0 DEF ToCall, CleanCall, LeftOn
  <1>14. LateOnce'
    BY <1>0, <1>10, <1>13 DEF LateOnce
  <1>15. LateUnseen'
    BY <1>0, <1>10, <1>13 DEF LateUnseen, Main
  <1> QED
    BY <1>3, <1>4, <1>8, <1>9, <1>11, <1>12, <1>14, <1>15

(* co.py:569-590: flash_firmware only makes the network's object newer.     *)
LEMMA FlashNodeIInv == ASSUME IInv, NEW n \in Nodes, FlashNode(n) PROVE IInv'
  <1> USE DEF IInv
  <1>0. /\ Main("dialog", "top")
        /\ UNCHANGED <<registered, current, data, nodesObj, gone, left, arg, pcN, call, stamp>>
    BY DEF FlashNode, notifierVars
  <1>1. netObj' = [netObj EXCEPT ![n] = Newest(n) + 1]
    BY DEF FlashNode
  <1>2. Newest(n) \in Nat /\ nodesObj[n] <= Newest(n)
    BY DEF Newest, Types
  <1>3. Types'
    BY <1>0, <1>1, <1>2 DEF Types
  <1>4. Places'
    BY <1>0 DEF Places, Main
  <1>5. \A m \in Nodes : nodesObj[m] <= netObj'[m]
    BY <1>1, <1>2 DEF Types, ObjectOrder
  <1>8. ObjectOrder'
    BY <1>0, <1>5 DEF ObjectOrder
  <1>9. OneCallback' /\ Sound' = Sound
    BY <1>0 DEF OneCallback, Sound
  <1>10. \A k : ~ Adding(k) /\ ~ Adding(k)'
    BY <1>0 DEF Adding, Main
  <1>11. NotedCallback'
    BY <1>0, <1>9, <1>10 DEF NotedCallback, Main
  <1>12. GoneIsIdle'
    BY <1>0, <1>10 DEF GoneIsIdle
  <1>13. ToCall' = ToCall /\ CleanCall' = CleanCall
    BY <1>0 DEF ToCall, CleanCall, LeftOn
  <1>14. LateOnce'
    BY <1>0, <1>10, <1>13 DEF LateOnce
  <1>15. LateUnseen'
    BY <1>0, <1>10, <1>13 DEF LateUnseen, Main
  <1> QED
    BY <1>3, <1>4, <1>8, <1>9, <1>11, <1>12, <1>14, <1>15

-----------------------------------------------------------------------------
(* Subscriptions.                                                           *)

(* co.py:64-72, 391-427: what is not subscribed has no callback at the      *)
(* node's object, so the new one is alone there.                            *)
LEMMA AddCallbackIInv == ASSUME IInv, ~ Repeats, NEW k \in Keys, AddCallback(k) PROVE IInv'
  <1> USE DEF IInv
  <1>0. /\ Main("dialog", "noted") /\ current[k] = 0 /\ arg' = k /\ gone' = gone \ {k}
        /\ UNCHANGED <<current, data, nodesObj, netObj, left, pcN, call, stamp>>
    BY DEF AddCallback, AddCallbackIf, notifierVars, objects
  <1>1. PICK id \in 1 .. MaxSubscriptions :
          /\ \A i \in Ids(k) : i < id
          /\ registered' = registered \cup {[key |-> k, obj |-> nodesObj[k.node], id |-> id]}
    BY DEF AddCallback, AddCallbackIf
  <1> DEFINE new == [key |-> k, obj |-> nodesObj[k.node], id |-> id]
  <1>2. id \in Nat \ {0}
    BY MonitorAssumption
  <1>3. new \in Callbacks /\ k.node \in Nodes
    BY <1>2 DEF Callbacks, Types, Keys
  <1>4. Types'
    BY <1>0, <1>1, <1>3 DEF Types
  <1>5. new \in registered'
    BY <1>1
  <1>6. Places'
    BY <1>0, <1>5 DEF Places, Main
  <1>7. ObjectOrder'
    BY <1>0, <1>1, <1>3 DEF ObjectOrder, Types
  <1>8. \A j : ~ Adding(j)
    BY <1>0 DEF Adding, Main
  <1>9. \A c \in Sound : ~ (c.key = k /\ c.obj = nodesObj[k.node])
    BY <1>0, <1>8 DEF NotedCallback, Main, Types, Callbacks, Sound
  <1>10. Sound' \subseteq Sound \cup {new}
    BY <1>0, <1>1 DEF Sound
  <1>11. OneCallback'
    BY <1>9, <1>10 DEF OneCallback
  <1>12. \A j \in Keys : Adding(j)' <=> j = k
    BY <1>0 DEF Adding, Main
  <1>13. \A i \in Ids(k)' : i <= id
    <2>1. Ids(k)' \subseteq Ids(k) \cup {id}
      BY <1>0, <1>1 DEF Ids
    <2>2. \A i \in Ids(k) : i \in Nat
      BY DEF Ids, Types, Callbacks
    <2> QED
      BY <2>1, <2>2, <1>1, <1>2
  <1>14. NotedCallback'
    <2> SUFFICES ASSUME NEW c \in Sound', c.obj = nodesObj[c.key.node]
                 PROVE  /\ ~ Adding(c.key)' => c.id = current[c.key]
                        /\ Adding(c.key)' => \A i \in Ids(c.key)' : i <= c.id
      BY <1>0 DEF NotedCallback, Main
    <2>0. c.key \in Keys
      BY <1>4 DEF Types, Callbacks, Sound
    <2>1. CASE c = new
      BY <2>1, <1>12, <1>13, <2>0
    <2>2. CASE c \in Sound
      BY <2>2, <2>0, <1>0, <1>8, <1>9, <1>12 DEF NotedCallback, Main
    <2> QED
      BY <2>1, <2>2, <1>10
  <1>15. GoneIsIdle'
    BY <1>0, <1>8, <1>12 DEF GoneIsIdle, Types
  <1>16. (call.key # k => ToCall' = ToCall) /\ CleanCall' = CleanCall
    BY <1>0, <1>1 DEF ToCall, CleanCall, LeftOn
  <1>17. LateOnce'
    BY <1>0, <1>8, <1>12, <1>16 DEF LateOnce
  <1>18. LateUnseen'
    <2> SUFFICES ASSUME pcN = "called", ToCall' # {}, CleanCall
                 PROVE  data[call.key] = 0 /\ (current[call.key] # 0 \/ Adding(call.key)')
      BY <1>0, <1>16 DEF LateUnseen, Main
    <2>1. CASE call.key = k
      BY <2>1, <1>0, <1>8, <1>12 DEF LateOnce
    <2>2. CASE call.key # k
      BY <2>2, <1>8, <1>16 DEF LateUnseen
    <2> QED
      BY <2>1, <2>2
  <1> QED
    BY <1>4, <1>6, <1>7, <1>11, <1>14, <1>15, <1>17, <1>18

(* co.py:72, 99: what is noted is the callback just added.                  *)
LEMMA NoteCallbackIInv == ASSUME IInv, NoteCallback PROVE IInv'
  <1> USE DEF IInv
  <1>0. /\ Main("noted", "top")
        /\ UNCHANGED <<registered, data, nodesObj, netObj, gone, left, pcN, call, stamp>>
    BY DEF NoteCallback, notifierVars, objects
  <1>1. arg \in Keys /\ Adding(arg)
    BY <1>0 DEF Places, Main, Adding
  <1>2. PICK id \in Ids(arg) :
          /\ \A i \in Ids(arg) : i <= id
          /\ current' = [current EXCEPT ![arg] = id]
    BY DEF NoteCallback
  <1>3. \A i \in Ids(arg) : i \in Nat
    BY <1>1 DEF Ids, Types, Callbacks
  <1>4. id # 0
    <2>1. PICK c \in registered : c.key = arg
      BY <1>0 DEF Places, Main
    <2>2. c.id \in Ids(arg) /\ c.id \in Nat /\ c.id # 0
      BY <2>1 DEF Ids, Types, Callbacks
    <2> QED
      BY <2>2, <1>2, <1>3
  <1>5. current'[arg] = id /\ \A k \in Keys : k # arg => current'[k] = current[k]
    BY <1>1, <1>2 DEF Types
  <1>6. Types'
    BY <1>0, <1>2, <1>3 DEF Types
  <1>7. Places' /\ ObjectOrder' /\ OneCallback'
    BY <1>0 DEF Places, Main, ObjectOrder, OneCallback, Sound
  <1>8. \A k : ~ Adding(k)' /\ (Adding(k) <=> k = arg)
    BY <1>0 DEF Adding, Main
  <1>9. NotedCallback'
    <2> SUFFICES ASSUME NEW c \in Sound, c.obj = nodesObj[c.key.node]
                 PROVE  c.id = current'[c.key]
      BY <1>0, <1>8 DEF NotedCallback, Main, Sound
    <2>0. c.key \in Keys /\ c \in registered
      BY DEF Types, Callbacks, Sound
    <2>1. CASE c.key = arg
      <3>1. c.id \in Ids(arg) /\ \A i \in Ids(arg) : i <= c.id
        BY <2>0, <2>1, <1>0, <1>8 DEF NotedCallback, Main, Ids
      <3> QED
        BY <3>1, <2>1, <1>2, <1>3, <1>5
    <2>2. CASE c.key # arg
      BY <2>0, <2>2, <1>0, <1>5, <1>8 DEF NotedCallback, Main
    <2> QED
      BY <2>1, <2>2
  <1>10. GoneIsIdle'
    BY <1>0, <1>5, <1>8 DEF GoneIsIdle, Types
  <1>11. ToCall' = ToCall /\ CleanCall' = CleanCall
    BY <1>0 DEF ToCall, CleanCall, LeftOn
  <1>12. LateOnce'
    BY <1>0, <1>4, <1>5, <1>8, <1>11 DEF LateOnce
  <1>13. LateUnseen'
    <2> SUFFICES ASSUME pcN = "called", ToCall # {}, CleanCall
                 PROVE  data[call.key] = 0 /\ current'[call.key] # 0
      BY <1>0, <1>11 DEF LateUnseen, Main
    <2>1. call.key \in Keys /\ data[call.key] = 0 /\ (current[call.key] # 0 \/ call.key = arg)
      BY <1>8 DEF LateUnseen, Places
    <2> QED
      BY <2>1, <1>4, <1>5
  <1> QED
    BY <1>6, <1>7, <1>9, <1>10, <1>12, <1>13

-----------------------------------------------------------------------------
(* Unsubscriptions.                                                         *)

(* co.py:429-460: what can be chosen is shown, so no call is about to show  *)
(* it for the first time.                                                   *)
LEMMA ChooseSubscriptionIInv == ASSUME IInv, NEW k \in Keys, ChooseSubscription(k) PROVE IInv'
  <1> USE DEF IInv
  <1>0. /\ Main("dialog", "remove") /\ arg' = k /\ data[k] # 0
        /\ UNCHANGED <<registered, current, data, nodesObj, netObj, gone, left, pcN, call, stamp>>
    BY DEF ChooseSubscription, Stored, notifierVars, objects
  <1>1. Types' /\ Places' /\ ObjectOrder' /\ OneCallback'
    BY <1>0 DEF Types, Places, Main, ObjectOrder, OneCallback, Sound
  <1>2. \A j : ~ Adding(j) /\ ~ Adding(j)'
    BY <1>0 DEF Adding, Main
  <1>3. NotedCallback'
    BY <1>0, <1>2 DEF NotedCallback, Main, Sound
  <1>4. ToCall' = ToCall /\ CleanCall' = CleanCall
    BY <1>0 DEF ToCall, CleanCall, LeftOn
  <1>5. GoneIsIdle' /\ LateOnce'
    BY <1>0, <1>2, <1>4 DEF GoneIsIdle, LateOnce
  <1>6. LateUnseen'
    BY <1>0, <1>2, <1>4 DEF LateUnseen
  <1> QED
    BY <1>1, <1>3, <1>5, <1>6

(* co.py:75, 102: there is nothing to remove.                               *)
LEMMA UnsubscribeNothingIInv == ASSUME IInv, UnsubscribeNothing PROVE IInv'
  <1> USE DEF IInv
  <1>0. /\ Main("remove", "top") /\ current[arg] = 0 /\ gone' = gone \cup {arg}
        /\ UNCHANGED <<registered, current, data, nodesObj, netObj, left, pcN, call, stamp>>
    BY DEF UnsubscribeNothing, notifierVars, objects
  <1>1. arg \in Keys
    BY <1>0 DEF Places, Main
  <1>2. Types' /\ Places' /\ ObjectOrder' /\ OneCallback'
    BY <1>0, <1>1 DEF Types, Places, Main, ObjectOrder, OneCallback, Sound
  <1>3. \A j : ~ Adding(j) /\ ~ Adding(j)'
    BY <1>0 DEF Adding, Main
  <1>4. NotedCallback'
    BY <1>0, <1>3 DEF NotedCallback, Main, Sound
  <1>5. ToCall' = ToCall /\ CleanCall' = CleanCall
    BY <1>0 DEF ToCall, CleanCall, LeftOn
  <1>6. GoneIsIdle' /\ LateOnce'
    BY <1>0, <1>3, <1>5 DEF GoneIsIdle, LateOnce
  <1>7. LateUnseen'
    BY <1>0, <1>3, <1>5 DEF LateUnseen, Main
  <1> QED
    BY <1>2, <1>4, <1>6, <1>7

(* co.py:77-82, 104-109: the callback noted is the only sound one there, so *)
(* whether it is removed or left behind none is left that is sound.         *)
LEMMA RemoveCallbackIInv == ASSUME IInv, RemoveCallback PROVE IInv'
  <1> USE DEF IInv
  <1>0. /\ Main("remove", "pop") /\ current[arg] # 0
        /\ UNCHANGED <<current, data, nodesObj, netObj, gone, arg, pcN, call, stamp>>
    BY DEF RemoveCallback, RemoveOf, notifierVars, objects
  <1>1. arg \in Keys
    BY <1>0 DEF Places, Main
  <1>2. registered' \subseteq registered /\ left \subseteq left' /\ Sound' \subseteq Sound \ {Noted}
    BY DEF RemoveCallback, RemoveOf, Sound
  <1>3. Types' /\ Places' /\ ObjectOrder' /\ OneCallback'
    BY <1>0, <1>1, <1>2 DEF Types, Places, Main, ObjectOrder, OneCallback
  <1>4. \A j : ~ Adding(j) /\ ~ Adding(j)'
    BY <1>0 DEF Adding, Main
  <1>5. NotedCallback'
    <2> SUFFICES ASSUME NEW c \in Sound', c.obj = nodesObj[c.key.node]
                 PROVE  c.id = current[c.key] /\ arg # c.key
      BY <1>0, <1>4 DEF NotedCallback, Main
    <2>1. c \in Sound /\ c # Noted /\ c.id = current[c.key]
      BY <1>0, <1>2, <1>4 DEF NotedCallback, Main
    <2>2. c = [key |-> c.key, obj |-> c.obj, id |-> c.id]
      BY <2>1 DEF Types, Callbacks, Sound
    <2> QED
      BY <2>1, <2>2 DEF Noted
  <1>6. ToCall' \subseteq ToCall /\ (CleanCall' => CleanCall)
    BY <1>0, <1>2 DEF ToCall, CleanCall, LeftOn
  <1>7. GoneIsIdle' /\ LateOnce'
    BY <1>0, <1>4, <1>6 DEF GoneIsIdle, LateOnce
  <1>8. LateUnseen'
    BY <1>0, <1>4, <1>6 DEF LateUnseen, Main
  <1> QED
    BY <1>3, <1>5, <1>7, <1>8

(* co.py:83-85, 110-112: both entries go.                                   *)
LEMMA PopBothIInv == ASSUME IInv, PopBoth PROVE IInv'
  <1> USE DEF IInv
  <1>0. /\ Main("pop", "set")
        /\ data' = [data EXCEPT ![arg] = 0] /\ current' = [current EXCEPT ![arg] = 0]
        /\ UNCHANGED <<registered, nodesObj, netObj, gone, left, arg, pcN, call, stamp>>
    BY DEF PopBoth, notifierVars, objects
  <1>1. arg \in Keys
    BY <1>0 DEF Places, Main
  <1>2. /\ data'[arg] = 0 /\ current'[arg] = 0
        /\ \A k \in Keys : k # arg => data'[k] = data[k] /\ current'[k] = current[k]
    BY <1>0, <1>1 DEF Types
  <1>3. Types'
    BY <1>0 DEF Types
  <1>4. Places' /\ ObjectOrder' /\ OneCallback'
    BY <1>0, <1>1, <1>2 DEF Places, Main, ObjectOrder, OneCallback, Sound
  <1>5. \A j : ~ Adding(j) /\ ~ Adding(j)'
    BY <1>0 DEF Adding, Main
  <1>6. NotedCallback'
    BY <1>0, <1>2, <1>3, <1>5 DEF NotedCallback, Main, Types, Callbacks, Sound
  <1>7. ToCall' = ToCall /\ CleanCall' = CleanCall
    BY <1>0 DEF ToCall, CleanCall, LeftOn
  <1>8. GoneIsIdle' /\ LateOnce'
    BY <1>0, <1>2, <1>5, <1>7 DEF GoneIsIdle, LateOnce, Types
  <1>9. LateUnseen'
    <2> SUFFICES ASSUME pcN = "called", ToCall # {}, CleanCall
                 PROVE  data'[call.key] = 0 /\ current'[call.key] # 0
      BY <1>0, <1>7 DEF LateUnseen, Main
    <2>1. call.key \in Keys /\ call.key # arg /\ data[call.key] = 0 /\ current[call.key] # 0
      BY <1>0, <1>5 DEF LateUnseen, Places, Main
    <2> QED
      BY <2>1, <1>2
  <1> QED
    BY <1>3, <1>4, <1>6, <1>8, <1>9

(* co.py:86, 113, 451, 479: the user is told.                               *)
LEMMA UnsubscribedIInv == ASSUME IInv, Unsubscribed PROVE IInv'
  <1> USE DEF IInv
  <1>0. /\ Main("set", "top") /\ gone' = gone \cup {arg}
        /\ UNCHANGED <<registered, current, data, nodesObj, netObj, left, pcN, call, stamp>>
    BY DEF Unsubscribed, notifierVars, objects
  <1>1. arg \in Keys /\ current[arg] = 0
    BY <1>0 DEF Places, Main
  <1>2. Types' /\ Places' /\ ObjectOrder' /\ OneCallback'
    BY <1>0, <1>1 DEF Types, Places, Main, ObjectOrder, OneCallback, Sound
  <1>3. \A j : ~ Adding(j) /\ ~ Adding(j)'
    BY <1>0 DEF Adding, Main
  <1>4. NotedCallback'
    BY <1>0, <1>3 DEF NotedCallback, Main, Sound
  <1>5. ToCall' = ToCall /\ CleanCall' = CleanCall
    BY <1>0 DEF ToCall, CleanCall, LeftOn
  <1>6. GoneIsIdle' /\ LateOnce'
    BY <1>0, <1>1, <1>3, <1>5 DEF GoneIsIdle, LateOnce
  <1>7. LateUnseen'
    BY <1>0, <1>3, <1>5 DEF LateUnseen, Main
  <1> QED
    BY <1>2, <1>4, <1>6, <1>7

-----------------------------------------------------------------------------
(* The library's thread.                                                    *)

(* What no step of that thread disturbs.                                    *)
LEMMA NotifierKeeps ==
  ASSUME IInv, UNCHANGED <<registered, current, objects, mainVars>>
  PROVE  /\ ObjectOrder' /\ OneCallback' /\ NotedCallback' /\ GoneIsIdle'
         /\ \A k : Adding(k)' = Adding(k)
         /\ Sound' = Sound /\ left' = left
  <1> USE DEF IInv, objects, mainVars
  <1>1. \A k : Adding(k)' = Adding(k) /\ Ids(k)' = Ids(k)
    BY DEF Adding, Ids
  <1>2. ObjectOrder' /\ OneCallback'
    BY DEF ObjectOrder, OneCallback, Sound
  <1>4. Sound' = Sound /\ left' = left
    BY DEF Sound
  <1>3. NotedCallback' /\ GoneIsIdle'
    BY <1>1, <1>4 DEF NotedCallback, GoneIsIdle
  <1> QED
    BY <1>1, <1>2, <1>3, <1>4

(* An event is given to the object the network knows; a key that is not     *)
(* subscribed has no callback there.                                        *)
LEMMA EventIInv == ASSUME IInv, NEW k \in Keys, Event(k) PROVE IInv'
  <1> USE DEF IInv
  <1>0. /\ pcM # "done" /\ pcN = "idle" /\ pcN' = "next" /\ stamp' = stamp + 1
        /\ call' = [key |-> k, obj |-> netObj[k.node], last |-> 0]
        /\ UNCHANGED <<registered, current, data, objects, mainVars>>
    BY DEF Event
  <1>1. /\ ObjectOrder' /\ OneCallback' /\ NotedCallback' /\ GoneIsIdle'
        /\ (\A j : Adding(j)' = Adding(j)) /\ left' = left
    BY <1>0, NotifierKeeps
  <1>2. Types'
    BY <1>0 DEF Types, objects, mainVars
  <1>3. call'.key = k /\ Places'
    BY <1>0 DEF Places, mainVars
  <1>4. current[k] = 0 /\ ~ Adding(k) /\ CleanCall' => ToCall' = {}
    <2> SUFFICES ASSUME current[k] = 0, ~ Adding(k), CleanCall', NEW c \in registered,
                        c.key = k, c.obj = netObj[k.node]
                 PROVE  FALSE
      BY <1>0 DEF ToCall
    <2>1. /\ c.obj <= nodesObj[k.node] /\ nodesObj[k.node] <= netObj[k.node]
          /\ nodesObj[k.node] \in Nat /\ netObj[k.node] \in Nat
          /\ c.id # 0
      BY DEF ObjectOrder, Types, Keys, Callbacks
    <2>2. c.obj = nodesObj[c.key.node] /\ c \in Sound
      BY <2>1, <1>0, <1>1 DEF Sound, CleanCall, LeftOn
    <2> QED
      BY <2>1, <2>2, <1>0 DEF NotedCallback, Sound
  <1>5. LateOnce'
    BY <1>0, <1>1, <1>3, <1>4 DEF LateOnce
  <1>6. LateUnseen'
    BY <1>0 DEF LateUnseen
  <1> QED
    BY <1>1, <1>2, <1>3, <1>5, <1>6

(* There is one callback to call, so none is left after it.                 *)
LEMMA CallNextIInv == ASSUME IInv, CallNext PROVE IInv'
  <1> USE DEF IInv
  <1>0. /\ pcN = "next" /\ pcN' = "called" /\ ToCall # {}
        /\ UNCHANGED <<registered, current, data, objects, mainVars, stamp>>
    BY DEF CallNext
  <1>1. PICK c \in ToCall : call' = [call EXCEPT !.last = c.id]
    BY DEF CallNext
  <1>2. /\ ObjectOrder' /\ OneCallback' /\ NotedCallback' /\ GoneIsIdle'
        /\ (\A j : Adding(j)' = Adding(j)) /\ left' = left
    BY <1>0, NotifierKeeps
  <1>3. Types'
    BY <1>0 DEF Types, objects, mainVars
  <1>4. call' = [key |-> call.key, obj |-> call.obj, last |-> c.id] /\ call.key \in Keys
    BY <1>0, <1>1 DEF Places
  <1>5. Places'
    BY <1>0, <1>4 DEF Places, mainVars
  <1>6. CleanCall => ToCall' = {}
    <2> SUFFICES ASSUME CleanCall, NEW d \in registered, d.key = call.key, d.obj = call.obj, d.id > c.id
                 PROVE  FALSE
      BY <1>0, <1>4 DEF ToCall
    <2>1. c \in registered /\ c.key = call.key /\ c.obj = call.obj /\ c.id \in Nat
      BY DEF ToCall, Types, Callbacks
    <2>3. c \in Sound /\ d \in Sound
      BY <2>1 DEF Sound, CleanCall, LeftOn
    <2>2. d = c
      BY <2>1, <2>3 DEF OneCallback
    <2> QED
      BY <2>1, <2>2
  <1>9. CleanCall' = CleanCall
    BY <1>2, <1>4 DEF CleanCall, LeftOn
  <1>7. LateOnce'
    BY <1>0, <1>2, <1>4, <1>9 DEF LateOnce
  <1>8. LateUnseen'
    BY <1>6, <1>9 DEF LateUnseen
  <1> QED
    BY <1>2, <1>3, <1>5, <1>7, <1>8

(* The call is over.                                                        *)
LEMMA NoMoreToCallIInv == ASSUME IInv, NoMoreToCall PROVE IInv'
  <1> USE DEF IInv
  <1>0. pcN' = "idle" /\ UNCHANGED <<registered, current, data, objects, mainVars, stamp>>
    BY DEF NoMoreToCall
  <1>1. ObjectOrder' /\ OneCallback' /\ NotedCallback' /\ GoneIsIdle'
    BY <1>0, NotifierKeeps
  <1>2. Types' /\ Places'
    BY <1>0 DEF Types, Places, objects, mainVars
  <1>3. LateOnce' /\ LateUnseen'
    BY <1>0 DEF LateOnce, LateUnseen
  <1> QED
    BY <1>1, <1>2, <1>3

(* co.py:66-69, 90-92: an event is stored; of a key that is not subscribed  *)
(* nothing was shown, so nobody is left to call.                            *)
LEMMA StoreIInv == ASSUME IInv, Store PROVE IInv'
  <1> USE DEF IInv
  <1>0. /\ pcN = "called" /\ pcN' = "signal" /\ data' = [data EXCEPT ![call.key] = stamp]
        /\ UNCHANGED <<registered, current, objects, mainVars, call, stamp>>
    BY DEF Store
  <1>1. /\ ObjectOrder' /\ OneCallback' /\ NotedCallback' /\ GoneIsIdle'
        /\ (\A j : Adding(j)' = Adding(j)) /\ left' = left
    BY <1>0, NotifierKeeps
  <1>2. Types'
    BY <1>0 DEF Types, objects, mainVars
  <1>3. Places'
    BY <1>0 DEF Places, mainVars
  <1>4. ToCall' = ToCall /\ CleanCall' = CleanCall
    BY <1>0, <1>1 DEF ToCall, CleanCall, LeftOn
  <1>5. LateOnce'
    BY <1>0, <1>1, <1>4 DEF LateOnce, LateUnseen
  <1>6. LateUnseen'
    BY <1>0 DEF LateUnseen
  <1> QED
    BY <1>1, <1>2, <1>3, <1>5, <1>6

(* co.py:70, 93: force_refresh.set().                                       *)
LEMMA SignalIInv == ASSUME IInv, Signal PROVE IInv'
  <1> USE DEF IInv
  <1>0. /\ pcN = "signal" /\ pcN' = "next"
        /\ UNCHANGED <<registered, current, data, objects, mainVars, call, stamp>>
    BY DEF Signal
  <1>1. /\ ObjectOrder' /\ OneCallback' /\ NotedCallback' /\ GoneIsIdle'
        /\ (\A j : Adding(j)' = Adding(j)) /\ left' = left
    BY <1>0, NotifierKeeps
  <1>2. Types' /\ Places'
    BY <1>0 DEF Types, Places, objects, mainVars
  <1>3. ToCall' = ToCall /\ CleanCall' = CleanCall
    BY <1>0, <1>1 DEF ToCall, CleanCall, LeftOn
  <1>4. LateOnce' /\ LateUnseen'
    BY <1>0, <1>1, <1>3 DEF LateOnce, LateUnseen
  <1> QED
    BY <1>1, <1>2, <1>4

-----------------------------------------------------------------------------
(* Every step keeps the invariant.                                          *)
LEMMA NextIInv == ~ Repeats /\ IInv /\ [Next]_vars => IInv'
  <1> SUFFICES ASSUME ~ Repeats, IInv, [Next]_vars PROVE IInv'
    OBVIOUS
  <1>1. CASE MainStep
    BY <1>1, MenuIInv, NoteCallbackIInv, UnsubscribeNothingIInv, RemoveCallbackIInv, PopBothIInv,
       UnsubscribedIInv, RaisesIInv DEF MainStep
  <1>2. CASE User
    BY <1>2, MenuIInv, QuitIInv, AddNodeIInv, FlashNodeIInv, AddCallbackIInv,
       ChooseSubscriptionIInv, RaisesIInv DEF User
  <1>3. CASE Notifier
    BY <1>3, CallNextIInv, NoMoreToCallIInv, StoreIInv, SignalIInv DEF Notifier
  <1>4. CASE \E k \in Keys : Event(k)
    BY <1>4, EventIInv
  <1>5. CASE Refresher \/ UNCHANGED vars
    BY <1>5, MenuIInv
  <1> QED
    BY <1>1, <1>2, <1>3, <1>4, <1>5 DEF Next

(* The invariant of the monitor: apart from those a failed removal left,    *)
(* the callback the tool has noted is the only one at the node's object,    *)
(* and a late call is seen once (co.py:64-113).                             *)
THEOREM SpecIInv == ASSUME ~ Repeats PROVE Spec => []IInv
  <1> QED
    BY InitIInv, NextIInv, PTL DEF Spec

(* What nobody changes at the end of the tool.                              *)
LEMMA EndIsQuiet ==
  ASSUME [Next]_vars, pcM' = "done"
  PROVE  UNCHANGED <<registered, gone, left, netObj>>
BY DEF Next, MainStep, User, Notifier, Refresher, vars, EnterMenu, ManualRefresh, RefreshTo,
   NoteCallback, UnsubscribeRaises, UnsubscribeNothing, RemoveCallback, RemoveOf, PopBoth,
   Unsubscribed, Choose, OtherDialog, Quit, EndsUncaught, AddNode, FlashNode, AddCallback,
   AddCallbackIf, ChooseSubscription, Event, CallNext, NoMoreToCall, Store, Signal, Wake,
   Clear, Look, Draw, Main, objects, mainVars

(* All that may still call the monitor for an unsubscribed key are          *)
(* callbacks whose removal failed.                                          *)
OnlyFailuresStay ==
  \A k \in gone : \A c \in registered : c.key = k /\ c.obj = netObj[k.node] => c \in left

(* What the tool tells its user about an unsubscription (co.py:451, 479) is *)
(* untrue in two cases only: something was subscribed twice, or one of the  *)
(* failures that co.py:81 and 110 swallow left the callback in place.       *)
THEOREM ToldTheTruth == ASSUME ~ Repeats PROVE Spec => []OnlyFailuresStay
  <1>1. Init => OnlyFailuresStay
    BY DEF Init, OnlyFailuresStay
  <1>2. IInv' /\ OnlyFailuresStay /\ [Next]_vars => OnlyFailuresStay'
    <2> SUFFICES ASSUME IInv', OnlyFailuresStay, [Next]_vars PROVE OnlyFailuresStay'
      OBVIOUS
    <2>1. CASE pcM' # "done"
      <3> SUFFICES ASSUME NEW k \in gone', NEW c \in Sound',
                          c.key = k, c.obj = netObj'[k.node]
                   PROVE  FALSE
        BY DEF OnlyFailuresStay, Sound
      <3>1. /\ c.obj <= nodesObj'[k.node] /\ nodesObj'[k.node] <= netObj'[k.node]
            /\ nodesObj'[k.node] \in Nat /\ netObj'[k.node] \in Nat /\ c.id # 0
        BY DEF IInv, ObjectOrder, Types, Keys, Callbacks, Sound
      <3>2. c.obj = nodesObj'[c.key.node]
        BY <3>1
      <3> QED
        BY <2>1, <3>1, <3>2 DEF IInv, NotedCallback, GoneIsIdle
    <2>2. CASE pcM' = "done"
      BY <2>2, EndIsQuiet DEF OnlyFailuresStay
    <2> QED
      BY <2>1, <2>2
  <1> QED
    BY <1>1, <1>2, SpecIInv, PTL DEF Spec

(* Where no removal fails, the user is told the truth (co.py:451, 479)      *)
(* unless something was subscribed twice, which is the counterexample of    *)
(* EventMonitorTwice.cfg.                                                   *)
THEOREM TruthIfRemoved ==
  ASSUME ~ Repeats, MayFail = {} PROVE Spec => []UnsubscribedMeansDetached
  <1> DEFINE NoneLeft == left = {}
  <1>1. Init => NoneLeft
    BY DEF Init
  <1>2. NoneLeft /\ [Next]_vars => NoneLeft'
    BY DEF Next, MainStep, User, Notifier, Refresher, vars, EnterMenu, ManualRefresh, RefreshTo,
       NoteCallback, UnsubscribeRaises, UnsubscribeNothing, RemoveCallback, RemoveOf, PopBoth,
       Unsubscribed, Choose, OtherDialog, Quit, EndsUncaught, AddNode, FlashNode, AddCallback,
       AddCallbackIf, ChooseSubscription, Event, CallNext, NoMoreToCall, Store, Signal, Wake,
       Clear, Look, Draw, Main, mainVars
  <1>3. NoneLeft /\ OnlyFailuresStay => UnsubscribedMeansDetached
    BY DEF OnlyFailuresStay, UnsubscribedMeansDetached
  <1> HIDE DEF NoneLeft
  <1> QED
    BY <1>1, <1>2, <1>3, ToldTheTruth, PTL DEF Spec

(* After the user was told that a key is unsubscribed, only the one         *)
(* callback already running can show it again (co.py:66-69, 90-92), unless  *)
(* a removal failed on the object that calls it (co.py:79-82, 105-111).     *)
THEOREM AtMostOneLate == ASSUME ~ Repeats PROVE Spec => AtMostOneLateEvent
  <1> DEFINE OneLate ==
        \A k \in Keys :
          k \in gone \cap gone' /\ data'[k] # data[k]
            => pcM = "pop" \/ data[k] = 0 \/ LeftOn(k, call.obj)
  <1>1. IInv /\ [Next]_vars => [OneLate]_vars
    <2> SUFFICES ASSUME IInv, Next, NEW k \in Keys, k \in gone, data'[k] # data[k],
                        pcM # "pop", data[k] # 0, ~ LeftOn(k, call.obj)
                 PROVE  FALSE
      OBVIOUS
    <2>1. Store
      BY DEF Next, MainStep, User, Notifier, Refresher, EnterMenu, ManualRefresh, RefreshTo,
             NoteCallback, UnsubscribeRaises, UnsubscribeNothing, RemoveCallback, RemoveOf,
             PopBoth, Unsubscribed, Choose, OtherDialog, Quit, EndsUncaught, AddNode, FlashNode,
             AddCallback, AddCallbackIf, ChooseSubscription, Event, CallNext, NoMoreToCall,
             Signal, Wake, Clear, Look, Draw, Main
    <2>2. call.key = k /\ pcN = "called"
      BY <2>1 DEF Store, IInv, Types
    <2> QED
      BY <2>2 DEF IInv, GoneIsIdle, LateOnce, CleanCall
  <1> QED
    BY <1>1, SpecIInv, PTL DEF Spec, AtMostOneLateEvent

-----------------------------------------------------------------------------
(* The dialogs: CoMenu.                                                     *)

Images == [Devices -> [Objects -> [Subs -> Values]]]

MenuTypes ==
  /\ nodes \subseteq Devices /\ renewed \subseteq nodes
  /\ obj \in Objects /\ at \in Nat
  /\ device \in Images /\ errors \subseteq Subs

(* What the dialog is about where main() is.                                *)
InDialog ==
  /\ pc \in {"menu", "id", "eds", "node", "command", "object", "values", "elements",
             "enter", "subscription", "ended"}
  /\ pc \in {"id", "eds"} => op = "add"
  /\ pc = "eds" => node \in Devices
  /\ pc \in {"command", "object", "values", "elements"} => node \in nodes
  /\ pc = "command" => op = "nmt"
  /\ pc = "object" => op \in {"read", "write"}
  /\ pc = "values" => op \in {"write", "pdo"}
  /\ pc = "elements" => op = "write"
  /\ pc = "subscription" => op = "unsubscribe"

(* Subindex 0 is written only where it is the value.                        *)
AskedFor ==
  pc = "elements" =>
    DOMAIN texts \subseteq (IF obj.kind = "var" THEN {0} ELSE 1 .. MaxSub)

(* The element is on the device in the form its type demands.               *)
OnDevice(s) == texts[s] # Blank => device[node][obj][s] \in Converted(obj, s, texts[s])

(* What SilenceMeansWritten says of the elements tried so far.              *)
WrittenSoFar ==
  pc = "elements" => \A s \in DOMAIN texts \ errors : s < at => OnDevice(s)

ConnectedUntilEnd == pc # "ended" => online

MenuInv ==
  /\ MenuTypes /\ InDialog /\ AskedFor /\ WrittenSoFar /\ ConnectedUntilEnd
  /\ SilenceMeansWritten /\ EndsDisconnected

LEMMA InitMenuInv == MenuInit => MenuInv
<1>. SUFFICES ASSUME MenuInit PROVE MenuInv
  OBVIOUS
<1> USE DEF MenuInit
<1>1. Number \in Objects /\ Fresh \in [Objects -> [Subs -> Values]]
  BY DEF Number, Objects, Fresh, Values
<1>2. MenuTypes
  BY <1>1 DEF MenuTypes, Images
<1>3. InDialog /\ AskedFor /\ WrittenSoFar /\ ConnectedUntilEnd
  BY DEF InDialog, AskedFor, WrittenSoFar, ConnectedUntilEnd
<1>4. SilenceMeansWritten /\ EndsDisconnected
  BY DEF SilenceMeansWritten, EndsDisconnected
<1>. QED
  BY <1>2, <1>3, <1>4 DEF MenuInv

(* A step after which no value is being written and none has just been      *)
(* written says nothing new about the values.                               *)
LEMMA NothingWritten ==
  ASSUME pc' # "elements", ~ (pc' = "enter" /\ op' = "write")
  PROVE  AskedFor' /\ WrittenSoFar' /\ SilenceMeansWritten'
BY DEF AskedFor, WrittenSoFar, SilenceMeansWritten

(* main(), add_node and the choices change no device.                       *)
Chooses ==
  ChooseOption \/ Leave \/ EnterId \/ ChooseEds \/ AddNodeRaises \/ ChooseNode
  \/ ChooseObject \/ BackToMenu \/ UnsubscribeTpdo \/ TpdoIsMissing
  \/ KeyboardInterrupt \/ EndOfInput

LEMMA ChoosesMenuInv ==
  ASSUME MenuInv, Chooses
  PROVE  MenuInv'
<1> USE DEF Chooses, ChooseOption, Leave, EnterId, ChooseEds, AddNodeRaises, ChooseNode,
        ChooseObject, BackToMenu, UnsubscribeTpdo, TpdoIsMissing, KeyboardInterrupt,
        EndsWith, EndOfInput, Go, Forget, NeedsNode, added
<1>1. MenuTypes'
  BY DEF MenuInv, MenuTypes, InDialog, Number, Objects, dialog
<1>2. InDialog'
  BY DEF MenuInv, MenuTypes, InDialog, dialog
<1>3. pc' # "elements" /\ ~ (pc' = "enter" /\ op' = "write")
  BY DEF MenuInv, InDialog, dialog
<1>4. ConnectedUntilEnd' /\ EndsDisconnected'
  BY DEF MenuInv, InDialog, ConnectedUntilEnd, EndsDisconnected, dialog
<1>. QED
  BY <1>1, <1>2, <1>3, <1>4, NothingWritten DEF MenuInv

(* A reset and a PDO are over when they are sent.                           *)
LEMMA SendsMenuInv ==
  ASSUME MenuInv, SendNmt \/ SendPdo
  PROVE  MenuInv'
<1> USE DEF SendNmt, SendPdo, Go, Forget, added
<1>1. device' \in Images
  <2>1. Fresh \in [Objects -> [Subs -> Values]] /\ Number \in Objects
    BY DEF Fresh, Values, Number, Objects
  <2>2. \A t \in Texts : Code(t) \in Values
    BY DEF Texts, Code, Values
  <2>3. device \in Images
    BY DEF MenuInv, MenuTypes
  <2>4. CASE SendNmt
    BY <2>1, <2>3, <2>4 DEF Images
  <2>5. CASE SendPdo
    <3>1. node \in Devices /\ 0 \in Subs
      BY <2>5, MenuAssumption DEF Subs, MenuInv, MenuTypes, InDialog
    <3>2. \A v \in Values : [device EXCEPT ![node][Number][0] = v] \in Images
      BY <2>1, <2>3, <3>1 DEF Images
    <3>. QED
      BY <2>2, <2>3, <2>5, <3>2
  <2>. QED
    BY <2>4, <2>5
<1>2. MenuTypes'
  BY <1>1 DEF MenuInv, MenuTypes, Number, Objects
<1>3. InDialog' /\ ConnectedUntilEnd' /\ EndsDisconnected'
  BY DEF MenuInv, InDialog, ConnectedUntilEnd, EndsDisconnected
<1>4. pc' = "menu"
  OBVIOUS
<1>. QED
  BY <1>2, <1>3, <1>4, NothingWritten DEF MenuInv

(* What the user enters for an object is asked for by subindex.             *)
LEMMA AskedAreSubs ==
  ASSUME NEW o \in Objects, NEW entered \in Asked(o)
  PROVE  DOMAIN entered \subseteq (IF o.kind = "var" THEN {0} ELSE 1 .. MaxSub)
<1>1. CASE o.kind = "var"
  <2>1. PICK t \in Texts : entered = [s \in {0} |-> t]
    BY <1>1, Zenon DEF Asked
  <2>. QED
    BY <1>1, <2>1
<1>2. CASE o.kind = "array"
  <2>1. Asked(o) = UNION {[1 .. k -> Texts] : k \in 0 .. MaxSub}
    BY <1>2, Zenon DEF Asked
  <2>2. PICK k \in 0 .. MaxSub : entered \in [1 .. k -> Texts]
    BY <2>1
  <2>. QED
    BY <1>2, <2>2, MenuAssumption
<1>3. CASE o.kind = "record"
  <2>1. Asked(o) = [1 .. DictSub -> Texts \cup {Blank}]
    BY <1>3, Zenon DEF Asked
  <2>. QED
    BY <1>3, <2>1, MenuAssumption
<1>. QED
  BY <1>1, <1>2, <1>3 DEF Objects

LEMMA EnterValuesMenuInv ==
  ASSUME MenuInv, EnterValues
  PROVE  MenuInv'
<1>1. /\ pc = "values" /\ pc' = "elements" /\ op = "write" /\ at' = 0 /\ errors' = {}
      /\ UNCHANGED <<nodes, renewed, op, node, obj, device, online>>
  BY DEF EnterValues, Go, added
<1>2. texts' \in Asked(obj)
  BY DEF EnterValues, Placed
<1>3. MenuTypes'
  BY <1>1 DEF MenuInv, MenuTypes
<1>4. InDialog' /\ ConnectedUntilEnd' /\ EndsDisconnected' /\ SilenceMeansWritten'
  BY <1>1 DEF MenuInv, InDialog, ConnectedUntilEnd, EndsDisconnected, SilenceMeansWritten
<1>5. AskedFor'
  BY <1>1, <1>2, AskedAreSubs DEF MenuInv, MenuTypes, AskedFor
<1>6. WrittenSoFar'
  <2>1. \A s \in DOMAIN texts' : ~ (s < at')
    <3>1. DOMAIN texts' \subseteq Nat
      BY <1>2, AskedAreSubs, MenuAssumption DEF MenuInv, MenuTypes
    <3>. QED
      BY <1>1, <3>1
  <2>. QED
    BY <1>1, <2>1 DEF WrittenSoFar
<1>. QED
  BY <1>3, <1>4, <1>5, <1>6 DEF MenuInv

(* An element that was tried is settled: it is on the device, or its error  *)
(* was printed, or nothing was entered for it.                              *)
LEMMA ElementMenuInv ==
  ASSUME MenuInv, NEW s \in Subs, Element(s),
         UNCHANGED <<nodes, renewed, pc, op, node, obj, texts, online>>,
         device' \in Images, errors' \subseteq Subs, errors \subseteq errors',
         \A r \in DOMAIN texts : r # s => device'[node][obj][r] = device[node][obj][r],
         s \in DOMAIN texts \ errors' => OnDevice(s)'
  PROVE  MenuInv'
<1>1. pc = "elements" /\ s = at /\ at' = at + 1 /\ at \in Nat
  BY DEF Element, MenuInv, MenuTypes
<1>2. MenuTypes'
  BY <1>1 DEF MenuInv, MenuTypes
<1>3. /\ InDialog' /\ ConnectedUntilEnd' /\ EndsDisconnected' /\ SilenceMeansWritten'
      /\ AskedFor'
  BY <1>1 DEF MenuInv, InDialog, ConnectedUntilEnd, EndsDisconnected, SilenceMeansWritten,
     AskedFor
<1>4. DOMAIN texts \subseteq Nat
  BY <1>1, MenuAssumption DEF MenuInv, AskedFor
<1>5. WrittenSoFar'
  <2>. SUFFICES ASSUME NEW r \in DOMAIN texts \ errors', r < at + 1 PROVE OnDevice(r)'
    BY <1>1 DEF WrittenSoFar
  <2>1. CASE r = s
    BY <2>1
  <2>2. CASE r # s
    <3>1. r < at
      BY <1>1, <1>4, <2>2
    <3>2. OnDevice(r)
      BY <1>1, <3>1 DEF MenuInv, WrittenSoFar
    <3>. QED
      BY <2>2, <3>2 DEF OnDevice, Converted, Octets
  <2>. QED
    BY <2>1, <2>2
<1>. QED
  BY <1>2, <1>3, <1>5 DEF MenuInv

LEMMA ConvertedAreValues ==
  ASSUME NEW o, NEW s, NEW t
  PROVE  Converted(o, s, t) \subseteq Values
<1>1. Code(t) \in Values /\ 1 \in Values
  BY DEF Code, Values
<1> HIDE DEF Values
<1>2. \A type \in {o.type, "int"} :
        (CASE type = "int" /\ t # "x"                      -> {Code(t)}
           [] type = "bool"                                -> {1}
           [] type = "bytes" /\ (Octets(o) \/ o.kind = "var") -> {Code(t)}
           [] OTHER                                        -> {}) \subseteq Values
  BY <1>1
<1>. QED
  BY <1>2 DEF Converted

(* The value lies where it was put, and nowhere else.                       *)
LEMMA PutOnDevice ==
  ASSUME NEW d \in Images, NEW n \in Devices, NEW o \in Objects, NEW s \in Subs,
         NEW v \in Values, NEW e, e = [d EXCEPT ![n][o][s] = v]
  PROVE  /\ e \in Images /\ e[n][o][s] = v
         /\ \A m \in Devices : e[m] # d[m] => m = n
         /\ \A p \in Objects, r \in Subs : e[n][p][r] # d[n][p][r] => p = o /\ r = s
BY DEF Images

LEMMA WritingMenuInv ==
  ASSUME MenuInv, NEW s \in Subs, ElementWritten(s) \/ ElementFails(s) \/ ElementSkipped(s)
  PROVE  MenuInv'
<1>1. /\ Element(s) /\ UNCHANGED <<nodes, renewed, pc, op, node, obj, texts, online>>
      /\ device \in Images /\ errors \subseteq Subs
      /\ node \in Devices /\ obj \in Objects
  BY DEF ElementWritten, ElementFails, ElementFailsWith, ElementSkipped, Element, MenuInv,
     MenuTypes, InDialog, added
<1>2. CASE ElementWritten(s)
  <2>1. PICK v \in Converted(obj, s, texts[s]) : device' = [device EXCEPT ![node][obj][s] = v]
    BY <1>2 DEF ElementWritten
  <2>2. v \in Values
    BY <2>1, ConvertedAreValues
  <2>3. /\ device' \in Images /\ device'[node][obj][s] = v
        /\ \A r \in Subs : device'[node][obj][r] # device[node][obj][r] => r = s
    <3> DEFINE e == device'
    <3>1. e = [device EXCEPT ![node][obj][s] = v]
      BY <2>1
    <3>2. device \in Images /\ node \in Devices /\ obj \in Objects
      BY <1>1
    <3> HIDE DEF e
    <3>3. /\ e \in Images /\ e[node][obj][s] = v
          /\ \A p \in Objects, r \in Subs : e[node][p][r] # device[node][p][r] => r = s
      BY <2>2, <3>1, <3>2 DEF Images
    <3>. QED
      BY <3>2, <3>3 DEF e
  <2>4. DOMAIN texts \subseteq Subs
    BY <1>1, MenuAssumption DEF Element, MenuInv, AskedFor, Subs
  <2>5. OnDevice(s)'
    BY <1>1, <2>1, <2>3 DEF OnDevice, Converted, Octets
  <2>6. errors' \subseteq Subs /\ errors \subseteq errors'
    BY <1>1, <1>2 DEF ElementWritten
  <2>. QED
    BY <1>1, <2>3, <2>4, <2>5, <2>6, ElementMenuInv
<1>3. CASE ElementFails(s)
  <2>1. errors' = errors \cup {s} /\ device' = device
    BY <1>3 DEF ElementFails, ElementFailsWith
  <2>. QED
    BY <1>1, <2>1, ElementMenuInv
<1>4. CASE ElementSkipped(s)
  <2>1. errors' = errors /\ device' = device /\ (s \in DOMAIN texts => texts[s] = Blank)
    BY <1>4 DEF ElementSkipped
  <2>2. s \in DOMAIN texts => OnDevice(s)'
    BY <1>1, <2>1 DEF OnDevice
  <2>. QED
    BY <1>1, <2>1, <2>2, ElementMenuInv
<1>. QED
  BY <1>2, <1>3, <1>4

(* The dialog ends when every element has been tried.                       *)
LEMMA WriteEndsMenuInv ==
  ASSUME MenuInv, WriteEnds
  PROVE  MenuInv'
<1>1. /\ pc = "elements" /\ pc' = "enter" /\ at > MaxSub /\ at \in Nat
      /\ UNCHANGED <<nodes, renewed, op, node, obj, texts, at, errors, device, online>>
  BY DEF WriteEnds, Go, dialog, added, MenuInv, MenuTypes
<1>2. \A s \in DOMAIN texts : s < at
  <2>1. DOMAIN texts \subseteq 0 .. MaxSub
    BY <1>1, MenuAssumption DEF MenuInv, AskedFor
  <2>. QED
    BY <1>1, <2>1, MenuAssumption
<1>3. \A s \in DOMAIN texts \ errors : OnDevice(s)
  BY <1>1, <1>2 DEF MenuInv, WrittenSoFar
<1>4. SilenceMeansWritten'
  BY <1>1, <1>3 DEF SilenceMeansWritten, OnDevice, Converted, Octets
<1>5. MenuTypes'
  BY <1>1 DEF MenuInv, MenuTypes
<1>6. InDialog' /\ AskedFor' /\ WrittenSoFar' /\ ConnectedUntilEnd' /\ EndsDisconnected'
  BY <1>1 DEF MenuInv, InDialog, AskedFor, WrittenSoFar, ConnectedUntilEnd, EndsDisconnected
<1>. QED
  BY <1>4, <1>5, <1>6 DEF MenuInv

LEMMA NextMenuInv == MenuInv /\ [MenuNext]_menuVars => MenuInv'
<1>. SUFFICES ASSUME MenuInv, [MenuNext]_menuVars PROVE MenuInv'
  OBVIOUS
<1>1. CASE UNCHANGED menuVars
  BY <1>1 DEF menuVars, dialog, added, MenuInv, MenuTypes, InDialog, AskedFor, WrittenSoFar,
     OnDevice, ConnectedUntilEnd, SilenceMeansWritten, EndsDisconnected, Converted, Octets
<1>2. CASE Chooses
  BY <1>2, ChoosesMenuInv
<1>3. CASE SendNmt \/ SendPdo
  BY <1>3, SendsMenuInv
<1>4. CASE EnterValues \/ WriteEnds
  BY <1>4, EnterValuesMenuInv, WriteEndsMenuInv
<1>5. CASE \E s \in Subs : ElementWritten(s) \/ ElementFails(s) \/ ElementSkipped(s)
  BY <1>5, WritingMenuInv
<1>. QED
  BY <1>1, <1>2, <1>3, <1>4, <1>5 DEF MenuNext, Chooses

(* The inductive invariant of the dialogs.                                   *)
THEOREM MenuInvariant == MenuSpec => []MenuInv
<1>. QED
  BY InitMenuInv, NextMenuInv, PTL DEF MenuSpec

(* write_sdo never stays silent about a value it did not write, whatever    *)
(* the object, the EDS file and the device.                                 *)
THEOREM SilenceIsSuccess == MenuSpec => []SilenceMeansWritten
<1>1. MenuInv => SilenceMeansWritten
  BY DEF MenuInv
<1>. QED
  BY <1>1, MenuInvariant, PTL

(* Only the exceptions of add_node, a closed input, and unsubscribe_tpdo    *)
(* for a node that was added again (co.py:76) end main() without            *)
(* network.disconnect().                                                    *)
THEOREM MostlyDisconnects == MenuSpec => []EndsDisconnected
<1>1. MenuInv => EndsDisconnected
  BY DEF MenuInv
<1>. QED
  BY <1>1, MenuInvariant, PTL

(* What write_sdo and send_pdo change lies on the chosen device, in the     *)
(* chosen or the mapped object, and never at subindex 0 of an array or a    *)
(* record.                                                                  *)
THEOREM OnlyTheChosenChanges == MenuSpec => OthersUntouched
<1> DEFINE Changes(n) ==
             /\ n = node /\ n \in nodes
             /\ \A o \in Objects, s \in Subs : device'[n][o][s] # device[n][o][s] =>
                  o \in {obj, Number} /\ (s = 0 => o.kind = "var")
<1>1. ASSUME MenuInv, MenuNext, NEW n \in Devices, device'[n] # device[n], op # "nmt"
      PROVE  Changes(n)
  <2>1. CASE SendPdo
    <3>1. PICK v \in Values : device' = [device EXCEPT ![node][Number][0] = v]
      BY <1>1, <2>1 DEF SendPdo, Texts, Code, Values
    <3>2. node \in nodes /\ node \in Devices /\ 0 \in Subs /\ Number \in Objects
          /\ Number.kind = "var" /\ device \in Images
      BY <1>1, <2>1, MenuAssumption
      DEF SendPdo, Go, Subs, Number, Objects, MenuInv, MenuTypes, InDialog
    <3>. QED
      BY <1>1, <3>1, <3>2, PutOnDevice
  <2>2. CASE \E s \in Subs : ElementWritten(s)
    <3>1. PICK s \in Subs : ElementWritten(s)
      BY <2>2
    <3>2. PICK v \in Values : device' = [device EXCEPT ![node][obj][s] = v]
      BY <3>1, ConvertedAreValues DEF ElementWritten
    <3>3. /\ node \in nodes /\ node \in Devices /\ obj \in Objects /\ device \in Images
          /\ s \in DOMAIN texts /\ pc = "elements"
      BY <1>1, <3>1 DEF ElementWritten, Element, MenuInv, MenuTypes, InDialog
    <3>4. s = 0 => obj.kind = "var"
      BY <1>1, <3>3, MenuAssumption DEF MenuInv, AskedFor
    <3>. QED
      BY <1>1, <3>2, <3>3, <3>4, PutOnDevice
  <2>3. CASE device' = device
    BY <1>1, <2>3
  <2>4. CASE SendNmt
    BY <1>1, <2>4 DEF SendNmt, Go, MenuInv, InDialog
  <2>. QED
    BY <1>1, <2>1, <2>2, <2>3, <2>4
    DEF MenuNext, ChooseOption, Leave, EnterId, ChooseEds, AddNodeRaises, ChooseNode,
        ChooseObject, BackToMenu, UnsubscribeTpdo, TpdoIsMissing, KeyboardInterrupt,
        EndsWith, EndOfInput, EnterValues, WriteEnds, ElementFails, ElementFailsWith,
        ElementSkipped
<1>2. MenuInv /\ [MenuNext]_menuVars =>
        [\A n \in Devices : device'[n] # device[n] /\ op # "nmt" => Changes(n)]_menuVars
  BY <1>1
<1>. QED
  BY <1>2, MenuInvariant, PTL DEF MenuSpec, OthersUntouched
=============================================================================
