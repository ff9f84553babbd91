----------------------------- MODULE PyReceiver -----------------------------
(***************************************************************************)
(* The TCP -> CAN half of can_tcp_bridge.py while it holds a connection:   *)
(* Bridge._loop_tcp_to_can with its TCPFramer.  The module says nothing of *)
(* who writes the stream; PyLink and EspUplink add a writer.               *)
(*                                                                         *)
(*   buf      TCPFramer._buf                                                *)
(*   pc       "recv"   blocked in s.recv(4096)                             *)
(*            "parse"  in the "while True" over framer.next_record()       *)
(*            "ended"  the loop was left: the manager closes the socket    *)
(*                     and waits for the next connection                   *)
(*   decoded  (history) frames can_from_frame returned on this connection  *)
(*   bus      (history) those of them the CAN interface took               *)
(***************************************************************************)
EXTENDS BridgeFraming, TcpStream

VARIABLES buf, pc, decoded, bus

receiverVars == <<buf, pc, decoded, bus>>

PyReceiverInit ==
  /\ TcpInit
  /\ buf = << >>
  /\ pc = "recv"
  /\ decoded = << >>
  /\ bus = << >>

-----------------------------------------------------------------------------
(* chunk = s.recv(4096); framer.feed(chunk)                                 *)
RecvChunk ==
  /\ pc = "recv"
  /\ \E k \in 1 .. MaxChunk :
       /\ CanTake(k)
       /\ buf' = buf \o NextBytes(k)
       /\ TakeBytes(k)
  /\ pc' = "parse"
  /\ UNCHANGED <<decoded, bus>>

(* next_record() returned a record and can_from_frame accepted it; bus.send *)
(* either transmits the message or raises CanError, which is only logged;   *)
(* then the inner loop asks for the next record.                            *)
ForwardThen(next) ==
  /\ pc = "parse"
  /\ HasRecord(buf)
  /\ WellFormed(NextRecord(buf))
  /\ LET f == CanFromFrame(NextRecord(buf))
     IN /\ decoded' = Append(decoded, f)
        /\ bus' \in {Append(bus, f), bus}
  /\ buf' = AfterRecord(buf)
  /\ pc' = next
  /\ UNCHANGED tcpVars

OneRecordPerChunk == ForwardThen("recv")                 \* mutant

ForwardRecord == ForwardThen("parse")

(* can_from_frame raised ValueError, which leaves the loop.                 *)
RejectRecord ==
  /\ pc = "parse"
  /\ HasRecord(buf)
  /\ ~ WellFormed(NextRecord(buf))
  /\ buf' = AfterRecord(buf)
  /\ pc' = "ended"
  /\ UNCHANGED <<decoded, bus, tcpVars>>

(* next_record() returned None: back to recv().                             *)
NeedMoreBytes ==
  /\ pc = "parse"
  /\ ~ HasRecord(buf)
  /\ pc' = "recv"
  /\ UNCHANGED <<buf, decoded, bus, tcpVars>>

(* recv() returned b"" or raised OSError.                                   *)
RecvEnds ==
  /\ pc = "recv"
  /\ AtEnd \/ Broken
  /\ pc' = "ended"
  /\ UNCHANGED <<buf, decoded, bus, tcpVars>>

(* The manager has a new connection and enters _loop_tcp_to_can again,      *)
(* which makes a new framer.                                                *)
EnterLoopWith(b) ==
  /\ pc = "ended"
  /\ pc' = "recv"
  /\ buf' = b
  /\ decoded' = << >>
  /\ bus' = << >>
  /\ TcpReset

FramerOutlivesConnection == EnterLoopWith(buf)           \* mutant

FreshFramer == EnterLoopWith(<< >>)

ReceiverStep ==
  RecvChunk \/ ForwardRecord \/ RejectRecord \/ NeedMoreBytes \/ RecvEnds

-----------------------------------------------------------------------------
PyReceiverTypeOK ==
  /\ stream \in Seq(Byte)
  /\ taken \in 0 .. Len(stream)
  /\ line \in {"up", "fin", "rst"}
  /\ buf \in Seq(Byte)
  /\ pc \in {"recv", "parse", "ended"}
  /\ \A i \in 1 .. Len(decoded) : IsFrame(decoded[i])
  /\ \A i \in 1 .. Len(bus) : IsFrame(bus[i])
=============================================================================
