---------------------------- MODULE EspReceiver ----------------------------
(***************************************************************************)
(* The TCP -> CAN half of the ESP32 bridge (main.c, the part of the main   *)
(* loop after zsock_poll).  Unlike the Python bridge it keeps no buffer:   *)
(* recv_all blocks for exactly the bytes of the length field, then of the  *)
(* header, then of the data.  A record whose length no classic CAN frame   *)
(* can have is read and thrown away.                                       *)
(*                                                                         *)
(*   at       "poll"  waiting in zsock_poll                                *)
(*            "len", "hdr", "data", "dump"  inside recv_all for that part  *)
(*            "ended" the main loop was left; main() never reconnects      *)
(*   acc      what recv_all has received so far                            *)
(*   want     how many bytes it was asked for                              *)
(*   pay      pay_len, and to_dump while a record is thrown away           *)
(*   hdr      hdrbuf                                                        *)
(*   canTx    (history) the frames handed to can_send                      *)
(*   handled  (history) how many records the loop has finished with        *)
(***************************************************************************)
EXTENDS BridgeFraming, TcpStream

CONSTANTS
  MaxClassic,              \* sizeof(databuf): 8 in the code
  DumpSize                 \* sizeof(dump): 32 in the code

ASSUME EspAssumption == MaxClassic \in 0 .. MaxFd /\ DumpSize \in Nat \ {0}

VARIABLES at, acc, want, pay, hdr, canTx, handled

espVars == <<at, acc, want, pay, hdr, canTx, handled>>

EspInit ==
  /\ TcpInit
  /\ at = "poll" /\ acc = << >> /\ want = 0 /\ pay = 0 /\ hdr = << >>
  /\ canTx = << >> /\ handled = 0

(* recv_all(sock, buf, n) is called for the given part of a record.         *)
RecvAll(part, n) == at' = part /\ acc' = << >> /\ want' = n

Continue == RecvAll("poll", 0)

-----------------------------------------------------------------------------
(* zsock_poll reports ZSOCK_POLLIN: bytes, the end or an error are there.   *)
PollIn ==
  /\ at = "poll"
  /\ Unread > 0 \/ line # "up"
  /\ RecvAll("len", 2)
  /\ UNCHANGED <<tcpVars, pay, hdr, canTx, handled>>

(* zsock_poll itself fails.                                                 *)
PollFails ==
  /\ at = "poll"
  /\ at' = "ended"
  /\ UNCHANGED <<tcpVars, acc, want, pay, hdr, canTx, handled>>

InRecvAll == at \in {"len", "hdr", "data", "dump"}

(* One zsock_recv of recv_all's loop returns k bytes.                       *)
RecvSome ==
  /\ InRecvAll
  /\ \E k \in 1 .. want - Len(acc) :
       /\ CanTake(k)
       /\ acc' = acc \o NextBytes(k)
       /\ TakeBytes(k)
  /\ UNCHANGED <<at, want, pay, hdr, canTx, handled>>

(* zsock_recv returns 0 or an error, recv_all fails and the loop is left.   *)
RecvFails ==
  /\ InRecvAll
  /\ Len(acc) < want
  /\ AtEnd \/ Broken
  /\ at' = "ended"
  /\ UNCHANGED <<tcpVars, acc, want, pay, hdr, canTx, handled>>

Got(part) == at = part /\ Len(acc) = want

(* while (to_dump): throw away the next piece, or go back to poll.          *)
DiscardBy(n, size) ==
  /\ pay' = n
  /\ IF n = 0 THEN Continue /\ handled' = handled + 1
              ELSE RecvAll("dump", size) /\ handled' = handled

DumpWholeArray(n) == DiscardBy(n, DumpSize)              \* mutant
DumpNothing(n) == DiscardBy(0, DumpSize)                 \* mutant

Discard(n) == DiscardBy(n, IF n < DumpSize THEN n ELSE DumpSize)

NoUpperBound(n) == n < HdrLen                            \* mutant
FullFrameIsBad(n) == n < HdrLen \/ n >= HdrLen + MaxClassic   \* mutant

BadLength(n) == n < HdrLen \/ n > HdrLen + MaxClassic

(* The length field is complete.                                            *)
GotLength ==
  /\ Got("len")
  /\ LET n == Length(acc)
     IN \/ ~ BadLength(n) /\ pay' = n /\ RecvAll("hdr", HdrLen) /\ handled' = handled
        \/ BadLength(n) /\ Discard(n)
  /\ UNCHANGED <<tcpVars, hdr, canTx>>

(* A piece of an unusable record was thrown away: to_dump -= chunk.         *)
GotDump ==
  /\ Got("dump")
  /\ Discard(pay - want)
  /\ UNCHANGED <<tcpVars, hdr, canTx>>

(* can_from_tcp_parts, then can_send (which may fail: only logged) or the   *)
(* record is dropped.                                                       *)
Convert(h, data) ==
  /\ canTx' = IF h[HdrLen] <= MaxClassic /\ Len(data) = h[HdrLen]
                THEN Append(canTx, [head |-> SubSeq(h, 1, HdrLen - 1), data |-> data])
                ELSE canTx
  /\ handled' = handled + 1
  /\ Continue

GotHeader ==
  /\ Got("hdr")
  /\ hdr' = acc
  /\ \/ pay = HdrLen /\ Convert(acc, << >>)
     \/ pay > HdrLen /\ RecvAll("data", pay - HdrLen) /\ UNCHANGED <<canTx, handled>>
  /\ UNCHANGED <<tcpVars, pay>>

GotData ==
  /\ Got("data")
  /\ Convert(hdr, acc)
  /\ UNCHANGED <<tcpVars, pay, hdr>>

EspLoop ==
  PollIn \/ RecvSome \/ RecvFails \/ GotLength \/ GotDump \/ GotHeader \/ GotData

EspStep == EspLoop \/ PollFails

-----------------------------------------------------------------------------
EspTypeOK ==
  /\ stream \in Seq(Byte)
  /\ taken \in 0 .. Len(stream)
  /\ line \in {"up", "fin", "rst"}
  /\ at \in {"poll", "len", "hdr", "data", "dump", "ended"}
  /\ acc \in Seq(Byte) /\ hdr \in Seq(Byte)
  /\ want \in Nat /\ pay \in 0 .. 65535 /\ handled \in Nat
  /\ \A i \in 1 .. Len(canTx) : IsFrame(canTx[i])

(* No call of recv_all can write past the array it was given: two bytes of  *)
(* lenbuf, HdrLen of hdrbuf, MaxClassic of databuf, DumpSize of dump.       *)
ArraySize ==
  [part \in {"len", "hdr", "data", "dump"} |->
     CASE part = "len"  -> 2
       [] part = "hdr"  -> HdrLen
       [] part = "data" -> MaxClassic
       [] part = "dump" -> DumpSize]

StaysInArray == InRecvAll => want <= ArraySize[at] /\ Len(acc) <= want
=============================================================================
