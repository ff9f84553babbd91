------------------------------- MODULE Viewer -------------------------------
(***************************************************************************)
(* oze-canopen-viewer: the driver task that collects messages, the window  *)
(* that shows them frame by frame, and the two watch channels between      *)
(* them, each of which holds only the value sent last.                     *)
(*                                                                         *)
(* Driver (driver.rs):                                                     *)
(*   pcD      "select", "read", "store", "send", "ended", "dropped"        *)
(*   rcv      kind of the message just received, or Nothing                *)
(*   index    messages stored so far; data: State.data                     *)
(*   control  the driver's copy of the control                             *)
(* Channels:                                                               *)
(*   ctrl, changed   control channel, and what has_changed() answers       *)
(*   published       state channel: [data, exit]                           *)
(* Window (gui.rs, filter_panel.rs, pinned_filter.rs):                     *)
(*   pcG        "frame", "ui" or "closed"                                  *)
(*   shown      Gui.data, newest first                                     *)
(*   pin        one pinned filter [kind, base, last]: the messages its     *)
(*              time is measured from and to, 0 for none                   *)
(*   hidden     kinds the global filter ignores                            *)
(*   wanted     what the window asked for last: [command, connection]      *)
(*   seen       history: the newest index a frame has looked at            *)
(* Process (main.rs):                                                      *)
(*   pcS        "start" until the --can argument was sent to the driver    *)
(*   signal     Ctrl-C was pressed; heard: the driver's select! has it     *)
(***************************************************************************)
EXTENDS Integers, Sequences, SequencesExt

CONSTANTS
  Kinds, Connections,
  Initial,                 \* the connection the program was started with
  MaxMessages,             \* MAX_MESSAGES_IN_STATE
  Count,                   \* MESSAGES_COUNT
  MaxIndex,                \* bound: messages stored
  CanArgument              \* the program was started with --can

ASSUME ViewerAssumption ==
  /\ {MaxMessages, Count, MaxIndex} \subseteq Nat \ {0}
  /\ Initial \in Connections /\ CanArgument \in BOOLEAN

VARIABLES pcD, rcv, index, data, control, ctrl, changed, published,
          pcG, shown, pin, hidden, wanted, seen, pcS, signal, heard

driverVars == <<pcD, rcv, index, data, control, published>>
guiVars == <<pcG, shown, pin, hidden, wanted, seen>>
processVars == <<pcS, signal, heard>>
vars == <<driverVars, ctrl, changed, guiVars, processVars>>

Nothing == "nothing"
NoPin == [kind |-> Nothing, base |-> 0, last |-> 0]

initial_control == [command |-> "Process", connection |-> Initial]

Message == [index : Nat, kind : Kinds]

(* The elements of s that are in S, in their order.                         *)
Kept(s, S) ==
  LET kept[n \in 0 .. Len(s)] ==
        IF n = 0 THEN << >>
        ELSE IF s[n] \in S THEN Append(kept[n - 1], s[n]) ELSE kept[n - 1]
  IN kept[Len(s)]

Init ==
  /\ pcD = "select" /\ rcv = Nothing /\ index = 0 /\ data = << >>
  /\ control = initial_control
  /\ ctrl = initial_control /\ changed = FALSE
  /\ published = [data |-> << >>, exit |-> FALSE]
  /\ pcG = "frame" /\ shown = << >> /\ pin = NoPin /\ hidden = {} /\ seen = 0
  /\ wanted = initial_control
  /\ pcS = (IF CanArgument THEN "start" ELSE "done")
  /\ signal = FALSE /\ heard = FALSE

Open == pcG # "closed"

-----------------------------------------------------------------------------
(* The driver.                                                              *)

(* select!: a message, or 100 ms without one.  Whichever branch is taken,   *)
(* the others are dropped, Ctrl-C with them.                                *)
Select ==
  /\ Open /\ pcD = "select" /\ pcD' = "read"
  /\ rcv' \in {Nothing} \cup (IF index < MaxIndex THEN Kinds ELSE {})
  /\ heard' = FALSE
  /\ UNCHANGED <<index, data, control, published, ctrl, changed, guiVars, pcS, signal>>

SelectCtrlC ==
  /\ Open /\ pcD = "select" /\ pcD' = "send"
  /\ heard
  /\ control' = [control EXCEPT !.command = "Kill"]
  /\ UNCHANGED <<rcv, index, data, published, ctrl, changed, guiVars, processVars>>

ReadControlIf(ready) ==
  /\ Open /\ pcD = "read" /\ pcD' = "store"
  /\ IF changed /\ ready
     THEN control' = ctrl /\ changed' = FALSE
     ELSE UNCHANGED <<control, changed>>
  /\ UNCHANGED <<rcv, index, data, published, ctrl, guiVars, processVars>>

OnlyWithMessage == ReadControlIf(rcv # Nothing)          \* mutant

ReadControl == ReadControlIf(TRUE)

(* The oldest messages make room, then the new one is added.                *)
Newest(s, n) == IF Len(s) > n THEN SubSeq(s, Len(s) - n + 1, Len(s)) ELSE s

Store ==
  /\ Open /\ pcD = "store" /\ pcD' = "send"
  /\ IF control.command = "Process" /\ rcv # Nothing
     THEN /\ index' = index + 1
          /\ data' = Append(Newest(data, MaxMessages), [index |-> index + 1, kind |-> rcv])
     ELSE UNCHANGED <<index, data>>
  /\ rcv' = Nothing
  /\ UNCHANGED <<control, published, ctrl, changed, guiVars, processVars>>

SendAs(state) ==
  /\ Open /\ pcD = "send"
  /\ published' = state
  /\ pcD' = IF control.command = "Kill" THEN "ended" ELSE "select"
  /\ UNCHANGED <<rcv, index, data, control, ctrl, changed, guiVars, processVars>>

EndsSilently == SendAs([data |-> data, exit |-> FALSE])  \* mutant

Send == SendAs([data |-> data, exit |-> control.command = "Kill"])

Driver == Select \/ SelectCtrlC \/ ReadControl \/ Store \/ Send

-----------------------------------------------------------------------------
(* The window.                                                              *)

FrontIndex == IF shown = << >> THEN 0 ELSE shown[1].index

Newer(i) == [index : Nat \ (0 .. i), kind : Kinds]
Passing == [index : Nat, kind : Kinds \ hidden]
OfKind(k) == [index : Nat, kind : {k}]

(* push_data of a pinned filter, for the messages of one frame.             *)
Pinned(fresh) ==
  LET match == Kept(fresh, OfKind(pin.kind))
      n == Len(match)
  IN CASE n = 0 -> pin
       [] n = 1 -> [pin EXCEPT !.base = pin.last, !.last = match[1].index]
       [] OTHER -> [pin EXCEPT !.base = match[n - 1].index, !.last = match[n].index]

(* get_data_from_driver, for what is newer than the given index.            *)
FrameSince(i) ==
  /\ pcG = "frame"
  /\ LET fresh == Kept(published.data, Newer(i))
         all == Reverse(Kept(fresh, Passing)) \o shown
     IN /\ shown' = SubSeq(all, 1, IF Len(all) < Count THEN Len(all) ELSE Count)
        /\ pin' = Pinned(fresh)
        /\ seen' = IF published.data = << >> THEN seen ELSE Last(published.data).index
  /\ pcG' = IF published.exit THEN "closed" ELSE "ui"
  /\ UNCHANGED <<hidden, wanted, driverVars, ctrl, changed, processVars>>

FromTheBack ==                                           \* mutant
  FrameSince(IF shown = << >> THEN 0 ELSE Last(shown).index)

FromTheNextOn == FrameSince(FrontIndex + 1)              \* mutant

Frame == FrameSince(FrontIndex)

(* The rest of update: what the user does in this frame.                    *)
UserDoes(next) == pcG = "ui" /\ pcG' = next

Idle ==
  /\ UserDoes("frame")
  /\ UNCHANGED <<shown, pin, hidden, wanted, seen, driverVars, ctrl, changed, processVars>>

SendControl(c) ==
  /\ wanted' = c
  /\ ctrl' = c /\ changed' = TRUE

ToggleStop ==
  /\ UserDoes("frame")
  /\ SendControl([wanted EXCEPT !.command = IF @ = "Stop" THEN "Process" ELSE "Stop"])
  /\ UNCHANGED <<shown, pin, hidden, seen, driverVars, processVars>>

Connect ==
  /\ UserDoes("frame")
  /\ \E c \in Connections : SendControl([wanted EXCEPT !.connection = c])
  /\ UNCHANGED <<shown, pin, hidden, seen, driverVars, processVars>>

SetFilter ==
  /\ UserDoes("frame")
  /\ hidden' \in SUBSET Kinds
  /\ UNCHANGED <<shown, pin, wanted, seen, driverVars, ctrl, changed, processVars>>

(* pin_filter: starts with the newest message there is.                     *)
PinFilter ==
  /\ UserDoes("frame")
  /\ \E k \in Kinds :
       LET match == Kept(shown, OfKind(k))
       IN pin' = [kind |-> k, base |-> 0,
                  last |-> IF match = << >> THEN 0 ELSE match[1].index]
  /\ UNCHANGED <<shown, hidden, wanted, seen, driverVars, ctrl, changed, processVars>>

Unpin ==
  /\ UserDoes("frame")
  /\ pin' = NoPin
  /\ UNCHANGED <<shown, hidden, wanted, seen, driverVars, ctrl, changed, processVars>>

CloseWindow ==
  /\ UserDoes("closed")
  /\ UNCHANGED <<shown, pin, hidden, wanted, seen, driverVars, ctrl, changed, processVars>>

User == Idle \/ ToggleStop \/ Connect \/ SetFilter \/ PinFilter \/ Unpin \/ CloseWindow

-----------------------------------------------------------------------------
(* The process.                                                             *)

(* ctrl_snd_thr.send(initial_control)                                       *)
SendArgument ==
  /\ Open /\ pcS = "start" /\ pcS' = "done"
  /\ ctrl' = initial_control /\ changed' = TRUE
  /\ UNCHANGED <<driverVars, guiVars, signal, heard>>

(* The signal reaches those that wait for it at this moment: block_on, and  *)
(* the driver if it is in its select!.                                      *)
CtrlC ==
  /\ Open /\ ~ signal /\ pcS = "done"
  /\ signal' = TRUE
  /\ heard' = (pcD = "select")
  /\ UNCHANGED <<driverVars, ctrl, changed, guiVars, pcS>>

(* block_on returns, and with the runtime every task is dropped where it    *)
(* waits.                                                                   *)
DropRuntime ==
  /\ Open /\ signal
  /\ pcD = "select" /\ pcD' = "dropped"
  /\ UNCHANGED <<rcv, index, data, control, published, ctrl, changed, guiVars, processVars>>

-----------------------------------------------------------------------------
Next == Driver \/ Frame \/ User \/ SendArgument \/ CtrlC \/ DropRuntime

(* The driver's select! times out, and the window draws frames.             *)
Spec ==
  /\ Init /\ [][Next]_vars
  /\ WF_vars(Driver) /\ WF_vars(Frame) /\ WF_vars(User)
  /\ WF_vars(SendArgument) /\ WF_vars(DropRuntime)

-----------------------------------------------------------------------------
(* The list shows every message once and the newest first.                  *)
NewestFirst == \A i, j \in 1 .. Len(shown) : i < j => shown[i].index > shown[j].index

(* A message that passes the filter when a frame first sees it is in the    *)
(* list, unless Count newer ones have pushed it out.                        *)
NewOnesShown ==
  [][\A i \in 1 .. Len(published.data) :
       LET m == published.data[i]
       IN seen' # seen /\ m.index > seen /\ m \in Passing
            => \/ m \in ToSet(shown')
               \/ Len(shown') = Count /\ Last(shown').index > m.index]_vars

(* A pinned filter never falls back, and has every message of its kind that *)
(* is new in a frame, also one that the global filter hides.                *)
PinFollows ==
  [][pcG = "frame" /\ pcG' # pcG /\ pin # NoPin =>
       /\ pin'.last >= pin.last
       /\ \A m \in ToSet(published.data) :
            m.index > seen /\ m.kind = pin.kind => m.index <= pin'.last]_vars

(* The driver does in the end what was last sent to it.                     *)
ObeysLastControl ==
  []<>(pcG = "closed" \/ signal \/ control = ctrl)

(* When the driver has ended, so does the window.                           *)
DriverEndCloses == pcD = "ended" ~> pcG = "closed"

=============================================================================
