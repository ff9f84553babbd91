--------------------------- MODULE SenderHistory ---------------------------
(***************************************************************************)
(* What a writer has put on a connection, whatever program it is: a        *)
(* history with which the frames that come out at the other end can be     *)
(* compared.                                                               *)
(*                                                                         *)
(*   sent  (history) the frames whose record was written completely        *)
(*   off   (history) off[i] is where the i-th record starts in the stream, *)
(*         and the last entry is where the next one would                  *)
(***************************************************************************)
EXTENDS BridgeFraming, TcpStream

CONSTANT Frames            \* the frames that occur on the sender's CAN bus

ASSUME FramesAssumption == \A f \in Frames : IsFrame(f)

VARIABLES sent, off

senderVars == <<sent, off>>

SenderInit == sent = << >> /\ off = <<0>>

(* The last byte of f's record is written in this step.                     *)
RecordSent(f) ==
  /\ sent' = Append(sent, f)
  /\ off' = Append(off, Len(stream'))

SenderReset == sent' = << >> /\ off' = <<0>>
=============================================================================
