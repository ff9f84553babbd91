---------------------------- MODULE RecordSender ----------------------------
(***************************************************************************)
(* The CAN -> TCP half of can_tcp_bridge.py on one connection: every frame *)
(* read from the bus is packed and handed to sendall(), which writes the   *)
(* whole record unless the connection or the program ends in the middle.   *)
(***************************************************************************)
EXTENDS SenderHistory

CONSTANT MaxSent           \* bound: records on one connection

ASSUME SenderAssumption == MaxSent \in Nat

(* s.sendall(frame_from_can(msg)) returned.                                 *)
SendRecord(f) ==
  /\ line = "up"
  /\ Len(sent) < MaxSent
  /\ WriteBytes(Record(f))
  /\ line' = line
  /\ RecordSent(f)

(* The connection ends, possibly inside sendall: k bytes of f's record were *)
(* written (none when it ends between two records).  "fin" is the           *)
(* interrupted program closing its socket, "rst" a broken connection.       *)
EndConnection(f, k) ==
  /\ line = "up"
  /\ k \in 0 .. Len(Record(f)) - 1
  /\ WriteBytes(SubSeq(Record(f), 1, k))
  /\ line' \in {"fin", "rst"}
  /\ UNCHANGED senderVars

SenderStep ==
  \E f \in Frames :
    \/ SendRecord(f)
    \/ \E k \in 0 .. HdrLen + 1 + MaxFd : EndConnection(f, k)
=============================================================================
