------------------------------- MODULE PyLink -------------------------------
(***************************************************************************)
(* One direction between two Python bridges: RecordSender on one machine,  *)
(* PyReceiver on the other, a TCP connection between them that may break   *)
(* at any byte and is then replaced by a new one.                          *)
(***************************************************************************)
EXTENDS PyReceiver, RecordSender

vars == <<tcpVars, receiverVars, senderVars>>

Init == PyReceiverInit /\ SenderInit

Send == SenderStep /\ UNCHANGED receiverVars

Receive == ReceiverStep /\ UNCHANGED senderVars

Reconnect == FreshFramer /\ SenderReset

Next == Send \/ Receive \/ Reconnect

(* recv() returns when there is something to return, and the thread that    *)
(* called it keeps running.  Nobody owes the link a frame, an end or a      *)
(* reconnection.                                                            *)
Spec == Init /\ [][Next]_vars /\ WF_vars(Receive)

-----------------------------------------------------------------------------
TypeOK ==
  /\ PyReceiverTypeOK
  /\ \A i \in 1 .. Len(sent) : sent[i] \in Frames
  /\ Len(off) = Len(sent) + 1
  /\ \A i \in 1 .. Len(off) : off[i] \in 0 .. Len(stream)

(* However recv() cuts the bytes, the frames taken off a connection are the *)
(* first ones that were put on it: none is lost inside the connection,      *)
(* repeated, reordered or altered.                                          *)
DecodedInOrder ==
  /\ Len(decoded) <= Len(sent)
  /\ decoded = SubSeq(sent, 1, Len(decoded))

(* Two Python bridges never see each other's ValueError: no torn record of  *)
(* an earlier connection and no misplaced length ever reaches               *)
(* can_from_frame.                                                          *)
NeverRejects ==
  pc = "parse" /\ HasRecord(buf) => WellFormed(NextRecord(buf))

(* When the peer closes between or inside records, everything it had        *)
(* written completely was decoded before the connection is given up.        *)
OrderlyEndLosesNothing ==
  pc = "ended" /\ line = "fin" => Len(decoded) = Len(sent)

(* The receiver does not go back to a blocking recv() while a whole record  *)
(* sits in the framer, where it would wait for unrelated later traffic.     *)
NothingHeldBack == pc = "recv" => ~ HasRecord(buf)

(* Every record written completely to a connection that stays up is         *)
(* decoded, with no further traffic to push it through.                     *)
EveryRecordDecoded ==
  \A n \in 1 .. MaxSent :
    Len(sent) >= n ~> Len(decoded) >= n \/ pc = "ended" \/ Broken

(* The link implements the abstract channel; what is inside the channel are *)
(* the frames sent and not yet decoded.                                     *)
InFlight == SubSeq(sent, Len(decoded) + 1, Len(sent))

Channel == INSTANCE FrameChannel WITH queue <- InFlight

ImplementsChannel == Channel!Spec
=============================================================================
