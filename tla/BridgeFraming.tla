--------------------------- MODULE BridgeFraming ---------------------------
(***************************************************************************)
(* The record format spoken by the two ends of the CAN <-> TCP bridge and  *)
(* the pure functions that build and take records apart                    *)
(* (can_tcp_bridge.py, lines 126-197).                                     *)
(*                                                                         *)
(*   record  ==  [2B length] [4B can_id] [1B flags] [1B data_len] [data]   *)
(*                           `------------ HdrLen --------------'          *)
(*                                                                         *)
(* A frame is what a record carries: "head" stands for the bytes of can_id *)
(* and flags, which framing never looks at, "data" for the CAN payload.    *)
(* How a CAN message is turned into head bytes is not this module's        *)
(* subject.                                                                *)
(***************************************************************************)
EXTENDS Integers, Sequences

CONSTANTS
  HdrLen,      \* bytes of can_id, flags and data_len: 6 in the code
  MaxFd        \* largest CAN FD payload: 64 in the code

(* The assumption says that data_len fits one byte and the length field    *)
(* two, which is what struct.pack("!H I B B") relies on.                    *)
ASSUME FramingAssumption ==
  /\ HdrLen \in Nat /\ HdrLen >= 1
  /\ MaxFd \in Nat /\ MaxFd < 256
  /\ HdrLen + MaxFd < 65536

Byte == { b \in Nat : b < 256 }

IsFrame(f) ==
  /\ f \in [head : Seq(Byte), data : Seq(Byte)]
  /\ Len(f.head) = HdrLen - 1
  /\ Len(f.data) <= MaxFd

-----------------------------------------------------------------------------
(* Building a record: _RECORD_HDR.pack(6 + n, id, flags, n) + data.         *)

LenField(n) == <<n \div 256, n % 256>>

Record(f) ==
  LenField(HdrLen + Len(f.data)) \o f.head \o <<Len(f.data)>> \o f.data

-----------------------------------------------------------------------------
(* Taking records out of a byte buffer: TCPFramer.next_record, whose early  *)
(* returns are HasRecord and whose result and "del" are the next two.       *)

Length(b) == 256 * b[1] + b[2]

WaitsForOneMore(b) == Len(b) >= 2 /\ Len(b) > 2 + Length(b)   \* mutant

HasRecord(b) == Len(b) >= 2 /\ Len(b) >= 2 + Length(b)

NextRecord(b) == SubSeq(b, 3, 2 + Length(b))

AfterRecord(b) == SubSeq(b, 3 + Length(b), Len(b))

(* can_from_frame: the three ValueErrors, then the fields of the message.   *)

WellFormed(rec) ==
  /\ Len(rec) >= HdrLen
  /\ rec[HdrLen] <= MaxFd
  /\ Len(rec) >= HdrLen + rec[HdrLen]

DataFromCount(rec) ==                                    \* mutant
  [head |-> SubSeq(rec, 1, HdrLen - 1),
   data |-> SubSeq(rec, HdrLen, HdrLen + rec[HdrLen] - 1)]

DataWithCount(rec) ==                                    \* mutant
  [head |-> SubSeq(rec, 1, HdrLen - 1),
   data |-> SubSeq(rec, HdrLen, HdrLen + rec[HdrLen])]

CanFromFrame(rec) ==
  [head |-> SubSeq(rec, 1, HdrLen - 1),
   data |-> SubSeq(rec, HdrLen + 1, HdrLen + rec[HdrLen])]
=============================================================================
