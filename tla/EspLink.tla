------------------------------ MODULE EspLink ------------------------------
(***************************************************************************)
(* The direction from a Python bridge to the ESP32: RecordSender writes,   *)
(* EspReceiver reads.  The Python side may have CAN FD frames, the ESP32   *)
(* only sends classic ones.  There is one connection: after it the ESP32   *)
(* program is over.                                                        *)
(***************************************************************************)
EXTENDS EspReceiver, RecordSender

vars == <<tcpVars, espVars, senderVars>>

Init == EspInit /\ SenderInit

Send == SenderStep /\ UNCHANGED espVars

Receive == EspStep /\ UNCHANGED senderVars

Next == Send \/ Receive

(* The main thread keeps running whenever poll or recv can return; poll has *)
(* no obligation to fail.                                                   *)
Spec == Init /\ [][Next]_vars /\ WF_vars(EspLoop /\ UNCHANGED senderVars)

-----------------------------------------------------------------------------
IsClassic(f) == Len(f.data) <= MaxClassic

(* The ESP32 transmits exactly the classic frames among the records it has  *)
(* finished with, in order, the k-th one for the record from[k]; an FD      *)
(* frame between them costs nothing else.                                   *)
ForwardsFrom(from) ==
  /\ \A j, k \in 1 .. Len(canTx) : j < k => from[j] < from[k]
  /\ \A k \in 1 .. Len(canTx) : canTx[k] = sent[from[k]]
  /\ \A i \in 1 .. handled :
       IsClassic(sent[i]) <=> \E k \in 1 .. Len(canTx) : from[k] = i

ForwardsClassicFrames ==
  /\ handled <= Len(sent)
  /\ \E from \in [1 .. Len(canTx) -> 1 .. handled] : ForwardsFrom(from)

(* Each time the loop polls for a new record it stands at the beginning of  *)
(* one: reading and dumping have used up exactly the records before.        *)
PollsBetweenRecords ==
  at = "poll" => handled < Len(off) /\ taken = off[handled + 1]

(* The records the ESP32 has not finished are a channel that refuses FD     *)
(* frames.                                                                  *)
Unhandled == SubSeq(sent, handled + 1, Len(sent))

Channel == INSTANCE FrameChannel WITH queue <- Unhandled, bus <- canTx

ImplementsChannel == Channel!Spec

(* Every complete record is dealt with unless the program ends.             *)
EveryRecordHandled ==
  \A n \in 1 .. MaxSent :
    Len(sent) >= n ~> handled >= n \/ at = "ended" \/ Broken
=============================================================================
