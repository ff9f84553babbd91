------------------------------ MODULE CoMenu ------------------------------
(***************************************************************************)
(* The dialogs of co.py: main() with add_node, send_nmt, read_sdo,         *)
(* write_sdo and send_pdo, and what they do to the devices.  The dialogs   *)
(* of the event monitor are in EventMonitor (but whether unsubscribe_tpdo  *)
(* ends the tool is told here), flash_firmware is in FirmwareUpdate.       *)
(*                                                                         *)
(* What the user types is "" or one of Texts; "x" is no number.  An object *)
(* is a variable, an array or a record of numbers, Booleans or bytes.  An  *)
(* access to the device may fail before or after the device has acted.     *)
(*                                                                         *)
(*   nodes      the nodes added                                            *)
(*   renewed    those added again: another EDS may describe them now       *)
(*   pc, op     where main() is, and the option chosen                     *)
(*   node, obj  what the dialog is about                                   *)
(*   texts      what the user entered for each subindex                    *)
(*   at         the next subindex to write                                 *)
(*   errors     subindices for which an error was printed                  *)
(*   device     (external) values on the devices                           *)
(*   online     the network is connected                                   *)
(*   writes     write and PDO dialogs begun                                *)
(***************************************************************************)
EXTENDS Integers

CONSTANTS
  Devices,                 \* the devices on the bus
  EdsFiles,                \* number of EDS files given on the command line
  DictSub, MaxSub,         \* last subindex in the EDS, and on the device
  MaxWrites,               \* bound: write and PDO dialogs
  None                     \* no node chosen

ASSUME MenuAssumption ==
  /\ EdsFiles \in Nat
  /\ DictSub \in Nat /\ MaxSub \in Nat /\ DictSub <= MaxSub
  /\ MaxWrites \in Nat /\ None \notin Devices

VARIABLES nodes, renewed, pc, op, node, obj, texts, at, errors, device, online, writes

dialog == <<op, node, obj, texts, at, errors>>
added == <<nodes, renewed>>
menuVars == <<added, pc, dialog, device, online, writes>>

Blank == ""
Texts == {"0", "1", "x"}
Code(text) == IF text = "0" THEN 0 ELSE IF text = "1" THEN 1 ELSE 2
Values == 0 .. 2

Objects == [kind : {"var", "array", "record"}, type : {"int", "bool", "bytes"}]
Number == [kind |-> "var", type |-> "int"]       \* also mapped to the RPDO
Subs == 0 .. MaxSub
Fresh == [o \in Objects |-> [s \in Subs |-> 0]]

MenuInit ==
  /\ nodes = {} /\ renewed = {} /\ pc = "menu" /\ op = "none"
  /\ node = None /\ obj = Number
  /\ texts = << >> /\ at = 0 /\ errors = {}
  /\ device = [n \in Devices |-> Fresh]
  /\ online = TRUE /\ writes = 0

Go(from, to) == pc = from /\ pc' = to

(* What a dialog knew is gone when it returns.                              *)
Forget == node' = None /\ obj' = Number /\ texts' = << >> /\ at' = 0 /\ errors' = {}

-----------------------------------------------------------------------------
(* main(), add_node, choose_node, choose_od_entry.                          *)

NeedsNode == {"nmt", "read", "write", "pdo", "show"}

(* Without nodes there is nothing to choose, and the menu is back.          *)
ChooseOption ==
  /\ pc = "menu"
  /\ \E o \in NeedsNode \cup {"add", "unsubscribe", "other"} :
       /\ op' = o
       /\ o \in {"write", "pdo"} => writes < MaxWrites
       /\ pc' = CASE o = "add" -> "id"
                  [] o \in NeedsNode /\ nodes # {} -> "node"
                  [] o = "unsubscribe" /\ nodes # {} -> "subscription"
                  [] OTHER -> "menu"
  /\ UNCHANGED <<added, node, obj, texts, at, errors, device, online, writes>>

Leave ==
  /\ Go("menu", "ended")
  /\ online' = FALSE
  /\ UNCHANGED <<added, dialog, device, writes>>

EnterId ==
  /\ Go("id", "eds")
  /\ node' \in Devices
  /\ UNCHANGED <<added, op, obj, texts, at, errors, device, online, writes>>

(* Without EDS files no answer is good, and choose_eds asks for ever.       *)
ChooseEds ==
  /\ Go("eds", "menu")
  /\ EdsFiles > 0
  /\ nodes' = nodes \cup {node}
  /\ renewed' = renewed \cup ({node} \cap nodes)
  /\ Forget
  /\ UNCHANGED <<op, device, online, writes>>

(* int() refuses the id, or the EDS file cannot be read.                    *)
AddNodeRaises ==
  /\ pc = "id" \/ (pc = "eds" /\ EdsFiles > 0)
  /\ pc' = "ended"
  /\ UNCHANGED <<added, dialog, device, online, writes>>

ChooseNode ==
  /\ pc = "node"
  /\ node' \in nodes
  /\ pc' = CASE op = "nmt" -> "command"
             [] op \in {"read", "write"} -> "object"
             [] op = "pdo" -> "values"
             [] OTHER -> "enter"
  /\ UNCHANGED <<added, op, obj, texts, at, errors, device, online, writes>>

ChooseObject ==
  /\ pc = "object"
  /\ obj' \in Objects
  /\ pc' = IF op = "read" THEN "enter" ELSE "values"
  /\ UNCHANGED <<added, op, node, texts, at, errors, device, online, writes>>

(* "Press Enter to go back to the main menu."                               *)
BackToMenu ==
  /\ Go("enter", "menu")
  /\ Forget
  /\ UNCHANGED <<added, op, device, online, writes>>

(* unsubscribe_tpdo, or there was no subscription to choose from.           *)
UnsubscribeTpdo ==
  /\ Go("subscription", "menu")
  /\ Forget
  /\ UNCHANGED <<added, op, device, online, writes>>

(* The node was added again since, and its EDS now lacks the TPDO:          *)
(* unsubscribe_pdo looks it up outside its try.                             *)
TpdoIsMissing ==
  /\ Go("subscription", "ended")
  /\ node' \in renewed
  /\ UNCHANGED <<added, op, obj, texts, at, errors, device, online, writes>>

(* Ctrl-C, in any dialog.                                                   *)
EndsWith(connected) ==
  /\ pc # "ended" /\ pc' = "ended"
  /\ online' = connected
  /\ UNCHANGED <<added, dialog, device, writes>>

LeavesItConnected == EndsWith(online)                    \* mutant

KeyboardInterrupt == EndsWith(FALSE)

(* The input ends: input() raises.  A choice swallows that and asks again,  *)
(* for ever; write_sdo reports it and waits for Enter, which raises.        *)
EndOfInput ==
  /\ pc \in {"menu", "id", "enter"} \/ (pc = "values" /\ op = "write")
  /\ pc' = "ended" /\ op' = "eof"
  /\ UNCHANGED <<added, node, obj, texts, at, errors, device, online, writes>>

-----------------------------------------------------------------------------
(* send_nmt: a reset brings the device's values back.                       *)
SendNmt ==
  /\ Go("command", "menu")
  /\ \/ device' = [device EXCEPT ![node] = Fresh]
     \/ UNCHANGED device
  /\ Forget
  /\ UNCHANGED <<added, op, online, writes>>

-----------------------------------------------------------------------------
(* write_sdo.                                                               *)

Octets(o) == o.kind = "array" /\ o.type = "bytes"

(* The subindices an object's values go to: those of an array are counted   *)
(* from 1 whatever the EDS says, a record is asked for field by field.      *)
Asked(o) ==
  CASE o.kind = "var"    -> {[s \in {0} |-> t] : t \in Texts}
    [] o.kind = "array"  -> UNION {[1 .. k -> Texts] : k \in 0 .. MaxSub}
    [] o.kind = "record" -> [1 .. DictSub -> Texts \cup {Blank}]

CountsFromZero(entered) ==                               \* mutant
  [s \in {t - 1 : t \in DOMAIN entered} |-> entered[s + 1]]

Placed(entered) == entered

EnterValues ==
  /\ Go("values", "elements") /\ op = "write"
  /\ \E entered \in Asked(obj) :
       texts' = IF obj.kind = "array" THEN Placed(entered) ELSE entered
  /\ at' = 0 /\ errors' = {} /\ writes' = writes + 1
  /\ UNCHANGED <<added, op, node, obj, device, online>>

(* type(value read)(text): any text but "" is true, and bytes(text) raises. *)
(* Only octets and a variable of bytes are encoded.  An element that the    *)
(* EDS does not have is taken for a number.                                 *)
Converted(o, s, text) ==
  LET type == IF o.kind = "array" /\ ~ Octets(o) /\ s > DictSub THEN "int" ELSE o.type
  IN  CASE type = "int" /\ text # "x"                        -> {Code(text)}
        [] type = "bool"                                     -> {1}
        [] type = "bytes" /\ (Octets(o) \/ o.kind = "var")   -> {Code(text)}
        [] OTHER                                             -> {}

Element(s) == pc = "elements" /\ s = at /\ at' = at + 1

(* The object was read and the value written.  The answer may be lost.      *)
ElementWritten(s) ==
  /\ Element(s) /\ s \in DOMAIN texts /\ texts[s] # Blank
  /\ \E v \in Converted(obj, s, texts[s]) : device' = [device EXCEPT ![node][obj][s] = v]
  /\ errors' \in {errors, errors \cup {s}}
  /\ UNCHANGED <<added, pc, op, node, obj, texts, online, writes>>

(* Reading, converting or writing failed; the next element is tried.        *)
ElementFailsWith(s, printed) ==
  /\ Element(s) /\ s \in DOMAIN texts /\ texts[s] # Blank
  /\ errors' = errors \cup printed
  /\ UNCHANGED <<added, pc, op, node, obj, texts, device, online, writes>>

FailsSilently(s) == ElementFailsWith(s, {})              \* mutant

ElementFails(s) == ElementFailsWith(s, {s})

ElementSkipped(s) ==
  /\ Element(s) /\ (s \in DOMAIN texts => texts[s] = Blank)
  /\ UNCHANGED <<added, pc, op, node, obj, texts, errors, device, online, writes>>

(* "Write complete." or "Wrote ... elements", whatever was printed before.  *)
WriteEnds ==
  /\ Go("elements", "enter")
  /\ at > MaxSub
  /\ UNCHANGED <<added, dialog, device, online, writes>>

-----------------------------------------------------------------------------
(* send_pdo, with one variable mapped: the number of values and every       *)
(* conversion is checked before anything is sent.                           *)
SendPdo ==
  /\ Go("values", "menu") /\ op = "pdo"
  /\ \/ \E t \in Texts \ {"x"} : device' = [device EXCEPT ![node][Number][0] = Code(t)]
     \/ UNCHANGED device
  /\ writes' = writes + 1
  /\ Forget
  /\ UNCHANGED <<added, op, online>>

MenuNext ==
  \/ ChooseOption \/ Leave \/ EnterId \/ ChooseEds \/ AddNodeRaises
  \/ ChooseNode \/ ChooseObject \/ BackToMenu \/ UnsubscribeTpdo \/ TpdoIsMissing
  \/ KeyboardInterrupt \/ EndOfInput
  \/ SendNmt \/ EnterValues \/ WriteEnds \/ SendPdo
  \/ \E s \in Subs : ElementWritten(s) \/ ElementFails(s) \/ ElementSkipped(s)

MenuSpec == MenuInit /\ [][MenuNext]_menuVars

-----------------------------------------------------------------------------
(* When write_sdo is through, a value for which it printed no error is on   *)
(* the device, converted to the type the device's own value has.            *)
SilenceMeansWritten ==
  pc = "enter" /\ op = "write" =>
    \A s \in DOMAIN texts \ errors :
      texts[s] # Blank => device[node][obj][s] \in Converted(obj, s, texts[s])

(* No dialog but a reset changes another device, another object than the    *)
(* one chosen or mapped, or the number of entries at subindex 0.            *)
OthersUntouched ==
  [][\A n \in Devices : device'[n] # device[n] /\ op # "nmt" =>
       /\ n = node /\ n \in nodes
       /\ \A o \in Objects, s \in Subs : device'[n][o][s] # device[n][o][s] =>
            o \in {obj, Number} /\ (s = 0 => o.kind = "var")]_menuVars

(* The process ends with the network still connected only through add_node, *)
(* because its input ended, or in unsubscribe_tpdo for a node that was      *)
(* added a second time: everything else is caught or disconnects.           *)
EndsDisconnected ==
  pc = "ended" /\ online =>
    op \in {"add", "eof"} \/ (op = "unsubscribe" /\ node \in renewed)
=============================================================================
