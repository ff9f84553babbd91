----------------------------- MODULE EspUplink -----------------------------
(***************************************************************************)
(* The CAN -> TCP half of the ESP32 bridge (main.c: can_rx_q, can_rx_cb,   *)
(* the draining loop of main and tcp_send_can_frame), writing to the       *)
(* Python bridge's PyReceiver.                                             *)
(*                                                                         *)
(* The CAN driver calls can_rx_cb at any time; the main thread takes the   *)
(* frames out and writes each record with three calls of zsock_send.  A    *)
(* call that writes less than it was asked for makes tcp_send_can_frame    *)
(* return -EIO at once, and main ignores that: it goes on with the next    *)
(* frame on the same connection.                                           *)
(*                                                                         *)
(*   q        can_rx_q                                                     *)
(*   cur      the frame inside tcp_send_can_frame                          *)
(*   snd      "drain" at k_msgq_get (or in the receiving half of main),    *)
(*            else the part of the record zsock_send is called with next   *)
(*   heard    (history) the frames k_msgq_put accepted                     *)
(*   short    (history) a zsock_send on this connection fell short         *)
(***************************************************************************)
EXTENDS PyReceiver, SenderHistory

CONSTANTS
  RxMsgqLen,               \* RX_MSGQ_LEN: 32 in the code
  MaxHeard                 \* bound: frames accepted per connection

ASSUME UplinkAssumption ==
  /\ RxMsgqLen \in Nat \ {0} /\ MaxHeard \in Nat

VARIABLES q, cur, snd, heard, short

mainVars == <<q, cur, snd, heard, short>>

uplinkVars == <<tcpVars, receiverVars, senderVars, mainVars>>

UplinkInit ==
  /\ PyReceiverInit /\ SenderInit
  /\ q = << >> /\ cur = << >> /\ snd = "drain"
  /\ heard = << >> /\ short = FALSE

-----------------------------------------------------------------------------
(* can_rx_cb: k_msgq_put with K_NO_WAIT; a full queue refuses the newest.   *)
Enqueue(limit, kept, f) ==
  /\ Len(heard) < MaxHeard
  /\ Len(q) < limit
  /\ q' = Append(kept, f)
  /\ heard' = Append(heard, f)
  /\ UNCHANGED <<cur, snd, short, tcpVars, senderVars>>

DropsOldest(f) ==                                        \* mutant
  Enqueue(RxMsgqLen + 1, IF Len(q) = RxMsgqLen THEN Tail(q) ELSE q, f)

CanRxCb(f) == Enqueue(RxMsgqLen, q, f)

(* k_msgq_get returned 0; tcp_send_can_frame(sock, &cf) begins.             *)
GetFrame ==
  /\ snd = "drain"
  /\ q # << >>
  /\ cur' = Head(q)
  /\ q' = Tail(q)
  /\ snd' = "len"
  /\ UNCHANGED <<heard, short, tcpVars, senderVars>>

Part(p, f) ==
  CASE p = "len"  -> LenField(HdrLen + Len(f.data))
    [] p = "hdr"  -> Append(f.head, Len(f.data))
    [] p = "data" -> f.data

NeverSendsData(p, f) == IF p = "len" THEN "hdr" ELSE "drain"   \* mutant

AfterPart(p, f) ==
  CASE p = "len" -> "hdr"
    [] p = "hdr" /\ f.data # << >> -> "data"
    [] OTHER -> "drain"

(* One zsock_send writes everything it was given.                           *)
SendPart ==
  /\ snd # "drain"
  /\ line = "up"
  /\ WriteBytes(Part(snd, cur))
  /\ snd' = AfterPart(snd, cur)
  /\ IF snd' = "drain" THEN RecordSent(cur) ELSE UNCHANGED senderVars
  /\ UNCHANGED <<line, q, cur, heard, short>>

(* It writes only k bytes, or fails: return -EIO, ignored by main.          *)
SendPartShort ==
  /\ snd # "drain"
  /\ line = "up"
  /\ \E k \in 0 .. Len(Part(snd, cur)) - 1 : WriteBytes(SubSeq(Part(snd, cur), 1, k))
  /\ snd' = "drain"
  /\ short' = TRUE
  /\ UNCHANGED <<line, q, cur, heard, senderVars>>

(* On a dead connection it fails without writing; -EIO, ignored by main.    *)
SendPartFails ==
  /\ snd # "drain"
  /\ line # "up"
  /\ snd' = "drain"
  /\ UNCHANGED <<tcpVars, q, cur, heard, short, senderVars>>

(* The connection breaks, or main leaves its loop and closes the socket.    *)
ConnectionBreaks ==
  /\ line = "up"
  /\ line' = "rst"
  /\ UNCHANGED <<stream, taken, mainVars, senderVars>>

MainEnds ==
  /\ line = "up" /\ snd = "drain"
  /\ line' = "fin"
  /\ UNCHANGED <<stream, taken, mainVars, senderVars>>

Uplink ==
  /\ \/ \E f \in Frames : CanRxCb(f)
     \/ GetFrame \/ SendPart \/ SendPartShort \/ SendPartFails
     \/ ConnectionBreaks \/ MainEnds
  /\ UNCHANGED receiverVars

PythonReceives == ReceiverStep /\ UNCHANGED <<mainVars, senderVars>>

(* main() never reconnects: a new connection means a restarted ESP32.       *)
Restart ==
  /\ FreshFramer /\ SenderReset
  /\ q' = << >> /\ cur' = << >> /\ snd' = "drain"
  /\ heard' = << >> /\ short' = FALSE

UplinkNext == Uplink \/ PythonReceives \/ Restart

UplinkSpec == UplinkInit /\ [][UplinkNext]_uplinkVars

-----------------------------------------------------------------------------
(* While the connection lives and no write fell short, every frame the      *)
(* queue accepted is written, being written or still queued, in the order   *)
(* of reception.                                                            *)
NothingLostInside ==
  line = "up" /\ ~ short =>
    heard = sent \o (IF snd = "drain" THEN << >> ELSE <<cur>>) \o q

(* As long as no write fell short the Python side decodes the frames        *)
(* written, in order, and closes the connection over none of them, although *)
(* a record arrives in three writes and any number of chunks.               *)
UplinkInOrder ==
  ~ short =>
    /\ Len(decoded) <= Len(sent)
    /\ decoded = SubSeq(sent, 1, Len(decoded))
    /\ pc = "parse" /\ HasRecord(buf) => WellFormed(NextRecord(buf))

(* What the record layout promises: only frames heard on the ESP32's bus    *)
(* are decoded on the other side.                                           *)
OnlyHeardFrames ==
  \A i \in 1 .. Len(decoded) : \E j \in 1 .. Len(heard) : decoded[i] = heard[j]
=============================================================================
