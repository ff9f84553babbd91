--------------------------- MODULE EspLinkTheorems ---------------------------
(***************************************************************************)
(* EspLink for every set of frames, every size of header, payload and dump *)
(* array, and every number of records.                                     *)
(*                                                                         *)
(* The argument.  The ESP32 keeps no buffer, so it has to be known where   *)
(* in the stream it stands: Position says for each recv_all how far into   *)
(* the current record the socket was read, and that what was received is   *)
(* what lies there.  With the place of every sent record (RecordsInPlace)  *)
(* and of a torn one (TornTail) the length field that is read is that of a *)
(* record, and what is read or thrown away after it ends where that record *)
(* does.                                                                   *)
(***************************************************************************)
EXTENDS EspLink, FramingTheorems

(* The record the ESP32 is at, and what its length field says.              *)
Start == off[handled + 1]
Size == 256 * stream[Start + 1] + stream[Start + 2]

(* The bytes of s are those k bytes into the record.                        *)
InPlace(s, k) == \A j \in 1 .. Len(s) : s[j] = stream[Start + k + j]

EspTypes ==
  /\ at \in {"poll", "len", "hdr", "data", "dump", "ended"}
  /\ acc \in Seq(Byte) /\ hdr \in Seq(Byte)
  /\ want \in Nat /\ pay \in Nat /\ Len(acc) <= want
  /\ handled \in Nat /\ handled <= Len(sent)
  /\ taken \in Nat /\ taken <= Len(stream)

Usable(n) == n >= HdrLen /\ n <= HdrLen + MaxClassic

AtPoll == taken = Start
AtLen == want = 2 /\ taken = Start + Len(acc) /\ InPlace(acc, 0)
AtHdr ==
  /\ want = HdrLen /\ taken = Start + 2 + Len(acc) /\ InPlace(acc, 2)
  /\ pay = Size /\ Usable(pay)
AtData ==
  /\ Len(hdr) = HdrLen /\ InPlace(hdr, 2)
  /\ want = pay - HdrLen /\ taken = Start + 2 + HdrLen + Len(acc) /\ InPlace(acc, 2 + HdrLen)
  /\ pay = Size /\ Usable(pay)
AtDump ==
  /\ want >= 1 /\ want <= DumpSize /\ want <= pay
  /\ Size \in Nat /\ pay <= Size
  /\ taken = Start + 2 + (Size - pay) + Len(acc)
  /\ Size > HdrLen + MaxClassic

Position ==
  /\ at = "poll" => AtPoll
  /\ at = "len" => AtLen
  /\ at = "hdr" => AtHdr
  /\ at = "data" => AtData
  /\ at = "dump" => AtDump

IInv == SenderInv /\ EspTypes /\ Position

-----------------------------------------------------------------------------
LEMMA Sizes ==
  /\ HdrLen \in Nat /\ HdrLen >= 1 /\ MaxFd \in Nat
  /\ MaxClassic \in Nat /\ DumpSize \in Nat /\ DumpSize >= 1
  BY FramingAssumption, EspAssumption

LEMMA StartsInside ==
  ASSUME IInv
  PROVE  /\ handled + 1 \in 1 .. Len(off) /\ Start \in Nat /\ Start <= Len(stream)
         /\ Len(stream) \in Nat /\ Len(sent) \in Nat
  BY DEF IInv, EspTypes, SenderInv, StreamInv, StreamTypes, Start

(* The record that follows in the stream: the next sent one, or a torn one. *)
Follows(f) ==
  /\ \A j \in 1 .. Len(stream) - Start :
       j <= RecordLen(f) => stream[Start + j] = Record(f)[j]
  /\ handled < Len(sent) => f = sent[handled + 1]
  /\ ~ (handled < Len(sent)) => Len(stream) < Start + RecordLen(f)

LEMMA RecordFollows ==
  ASSUME IInv, Len(stream) > Start
  PROVE  \E f \in Frames : Follows(f)
<1>1. CASE handled < Len(sent)
  <2>1. handled + 1 \in 1 .. Len(sent) /\ sent[handled + 1] \in Frames
    BY <1>1, StartsInside DEF IInv, EspTypes, SenderInv, StreamInv, StreamTypes
  <2>2. RecordLen(sent[handled + 1]) \in Nat
    BY <2>1, FrameLen
  <2>3. ASSUME NEW j \in 1 .. Len(stream) - Start, j <= RecordLen(sent[handled + 1])
        PROVE  stream[Start + j] = Record(sent[handled + 1])[j]
    <3>1. j \in 1 .. RecordLen(sent[handled + 1])
      BY <2>2, <2>3, StartsInside
    <3>. QED
      BY <2>1, <3>1 DEF IInv, SenderInv, StreamInv, RecordsInPlace, Start
  <2>4. Follows(sent[handled + 1])
    BY <1>1, <2>3 DEF Follows
  <2>. QED
    BY <2>1, <2>4
<1>2. CASE ~ (handled < Len(sent))
  <2>1. handled = Len(sent) /\ Start = SentEnd
    BY <1>2, StartsInside DEF IInv, EspTypes, Start, SentEnd
  <2>2. PICK f \in Frames : TornBy(f)
    BY <2>1, StartsInside DEF IInv, SenderInv, StreamInv, TornTail
  <2>3. Follows(f)
    BY <1>2, <2>1, <2>2 DEF TornBy, Follows
  <2>. QED
    BY <2>3
<1>. QED
  BY <1>1, <1>2

(* The length field that was read is that of this record.                   *)
LEMMA SizeKnown ==
  ASSUME IInv, taken >= Start + 2, NEW f \in Frames, Follows(f)
  PROVE  /\ Size = HdrLen + Len(f.data) /\ RecordLen(f) = 2 + Size
         /\ Size \in Nat /\ Size >= HdrLen
<1>1. Start \in Nat /\ Len(stream) \in Nat /\ Len(stream) >= Start + 2
  BY StartsInside DEF IInv, EspTypes
<1>2. /\ RecordLen(f) = 2 + (HdrLen + Len(f.data)) /\ RecordLen(f) >= 2
      /\ RecordLen(f) \in Nat
      /\ HdrLen + Len(f.data) \in Nat /\ HdrLen + Len(f.data) >= HdrLen
  BY FrameLen
<1>3. 1 \in 1 .. Len(stream) - Start /\ 2 \in 1 .. Len(stream) - Start
  BY <1>1
<1>4. 1 <= RecordLen(f) /\ 2 <= RecordLen(f)
  BY <1>2
<1>5. stream[Start + 1] = Record(f)[1] /\ stream[Start + 2] = Record(f)[2]
  BY <1>3, <1>4 DEF Follows
<1>6. Size = HdrLen + Len(f.data)
  <2>1. 256 * Record(f)[1] + Record(f)[2] = HdrLen + Len(f.data)
    BY FrameLen, RecordBytes
  <2>. QED
    BY <1>5, <2>1 DEF Size
<1>. QED
  BY <1>2, <1>6

(* What was read to its end is a whole sent record.                         *)
LEMMA RecordEnds ==
  ASSUME IInv, taken >= Start + 2, taken = Start + 2 + Size
  PROVE  /\ handled < Len(sent) /\ sent[handled + 1] \in Frames
         /\ handled + 2 \in 1 .. Len(off) /\ off[handled + 2] = taken
         /\ Follows(sent[handled + 1])
<1>1. taken \in Nat /\ taken <= Len(stream) /\ Start \in Nat /\ Len(stream) \in Nat
      /\ handled \in Nat /\ Len(sent) \in Nat /\ Len(off) = Len(sent) + 1
  BY StartsInside DEF IInv, EspTypes, SenderInv, StreamInv, StreamTypes
<1>2. PICK f \in Frames : Follows(f)
  BY <1>1, RecordFollows
<1>3. RecordLen(f) = 2 + Size /\ Size \in Nat
  BY <1>2, SizeKnown
<1>4. ~ (Len(stream) < Start + RecordLen(f))
  BY <1>1, <1>3
<1>5. handled < Len(sent) /\ f = sent[handled + 1]
  BY <1>2, <1>4 DEF Follows
<1>6. handled + 1 \in 1 .. Len(sent) /\ handled + 2 \in 1 .. Len(off)
  BY <1>1, <1>5
<1>7. off[handled + 2] = taken
  <2>1. off[(handled + 1) + 1] = Start + RecordLen(f)
    BY <1>5, <1>6 DEF IInv, SenderInv, StreamInv, RecordsInPlace, Start
  <2>2. (handled + 1) + 1 = handled + 2
    BY <1>1
  <2>3. Start + RecordLen(f) = taken
    BY <1>1, <1>3
  <2>. QED
    BY <2>1, <2>2, <2>3
<1>. QED
  BY <1>2, <1>5, <1>6, <1>7

-----------------------------------------------------------------------------
LEMMA InitIInv == Init => IInv
<1>. SUFFICES ASSUME Init PROVE IInv
  OBVIOUS
<1>1. /\ stream = << >> /\ taken = 0 /\ line = "up" /\ sent = << >> /\ off = <<0>>
      /\ at = "poll" /\ acc = << >> /\ want = 0 /\ pay = 0 /\ hdr = << >> /\ handled = 0
  BY DEF Init, EspInit, TcpInit, SenderInit
<1>2. StreamTypes /\ EspTypes
  BY <1>1 DEF StreamTypes, EspTypes
<1>3. RecordsInPlace /\ TornTail /\ Len(stream) = SentEnd
  BY <1>1 DEF RecordsInPlace, TornTail, SentEnd
<1>4. Position
  BY <1>1 DEF Position, AtPoll, Start
<1>. QED
  BY <1>2, <1>3, <1>4 DEF IInv, SenderInv, StreamInv

(* Reading leaves the records where they are.                               *)
LEMMA ReadKeeps ==
  ASSUME IInv, UNCHANGED <<stream, line, senderVars>>
  PROVE  /\ SenderInv'
         /\ handled' = handled => Start' = Start /\ Size' = Size
  BY StreamStays DEF IInv, SenderInv, senderVars, Start, Size

(* The loop is left.                                                        *)
LEMMA LeaveIInv ==
  ASSUME IInv, PollFails \/ RecvFails, UNCHANGED senderVars
  PROVE  IInv'
<1>1. /\ at' = "ended" /\ UNCHANGED <<tcpVars, acc, want, pay, hdr, handled, senderVars>>
  BY DEF PollFails, RecvFails
<1>2. SenderInv'
  BY <1>1, ReadKeeps DEF tcpVars
<1>3. EspTypes' /\ Position'
  BY <1>1 DEF IInv, EspTypes, Position, tcpVars, senderVars
<1>. QED
  BY <1>2, <1>3 DEF IInv

LEMMA PollInIInv ==
  ASSUME IInv, PollIn, UNCHANGED senderVars
  PROVE  IInv'
<1>1. /\ at = "poll" /\ at' = "len" /\ acc' = << >> /\ want' = 2
      /\ UNCHANGED <<tcpVars, pay, hdr, handled, senderVars>>
  BY DEF PollIn, RecvAll
<1>2. SenderInv' /\ Start' = Start
  BY <1>1, ReadKeeps DEF tcpVars
<1>3. EspTypes'
  BY <1>1 DEF IInv, EspTypes, tcpVars, senderVars
<1>4. AtLen'
  BY <1>1, <1>2, StartsInside DEF IInv, Position, AtPoll, AtLen, InPlace, tcpVars
<1>. QED
  BY <1>1, <1>2, <1>3, <1>4 DEF IInv, Position

LEMMA NextBytesOf ==
  ASSUME stream \in Seq(Byte), taken \in Nat, NEW k \in Nat, taken + k <= Len(stream)
  PROVE  /\ NextBytes(k) \in Seq(Byte) /\ Len(NextBytes(k)) = k
         /\ \A i \in 1 .. k : NextBytes(k)[i] = stream[taken + i]
  BY DEF NextBytes

(* What recv_all gets comes behind what it has.                             *)
LEMMA TakesInPlace ==
  ASSUME IInv, NEW k \in Nat, taken + k <= Len(stream),
         acc' = acc \o NextBytes(k), stream' = stream, Start' = Start
  PROVE  /\ acc' \in Seq(Byte) /\ Len(acc') = Len(acc) + k
         /\ \A n \in Nat :
              taken = Start + n + Len(acc) /\ InPlace(acc, n) => InPlace(acc, n)'
<1>1. /\ stream \in Seq(Byte) /\ Len(stream) \in Nat /\ taken \in Nat
      /\ acc \in Seq(Byte) /\ Len(acc) \in Nat /\ Start \in Nat
  BY StartsInside DEF IInv, SenderInv, StreamInv, StreamTypes, EspTypes
<1>2. /\ NextBytes(k) \in Seq(Byte) /\ Len(NextBytes(k)) = k
      /\ \A i \in 1 .. k : NextBytes(k)[i] = stream[taken + i]
  BY <1>1, NextBytesOf
<1>3. /\ acc' \in Seq(Byte) /\ Len(acc') = Len(acc) + k
      /\ \A i \in 1 .. Len(acc) : acc'[i] = acc[i]
      /\ \A i \in 1 .. k : acc'[Len(acc) + i] = NextBytes(k)[i]
  <2>1. acc \in Seq(Byte) /\ NextBytes(k) \in Seq(Byte)
    BY <1>1, <1>2
  <2>2. /\ acc' \in Seq(Byte) /\ Len(acc') = Len(acc) + Len(NextBytes(k))
        /\ \A i \in 1 .. Len(acc) : acc'[i] = acc[i]
        /\ \A i \in 1 .. Len(NextBytes(k)) : acc'[Len(acc) + i] = NextBytes(k)[i]
    BY <2>1, ConcatBytes, Zenon
  <2>. QED
    BY <1>2, <2>2, Zenon
<1>4. ASSUME NEW n \in Nat, taken = Start + n + Len(acc), InPlace(acc, n),
             NEW j \in 1 .. Len(acc')
      PROVE  acc'[j] = stream[Start + n + j]
  <2>1. CASE j <= Len(acc)
    BY <1>1, <1>3, <1>4, <2>1 DEF InPlace
  <2>2. CASE ~ (j <= Len(acc))
    <3>1. PICK i \in 1 .. k : j = Len(acc) + i
      <4>1. j - Len(acc) \in 1 .. k /\ j = Len(acc) + (j - Len(acc))
        BY <1>1, <1>3, <2>2
      <4>. QED
        BY <4>1
    <3>2. acc'[j] = stream[taken + i]
      BY <1>2, <1>3, <3>1
    <3>3. taken + i = Start + n + j
      BY <1>1, <1>4, <3>1
    <3>. QED
      BY <3>2, <3>3
  <2>. QED
    BY <2>1, <2>2
<1>. QED
  BY <1>3, <1>4 DEF InPlace

LEMMA RecvSomeIInv ==
  ASSUME IInv, RecvSome, UNCHANGED senderVars
  PROVE  IInv'
<1>1. PICK k \in 1 .. want - Len(acc) :
        CanTake(k) /\ acc' = acc \o NextBytes(k) /\ TakeBytes(k)
  BY DEF RecvSome
<1>2. /\ UNCHANGED <<at, want, pay, hdr, handled, stream, line, senderVars>>
      /\ taken' = taken + k /\ at \in {"len", "hdr", "data", "dump"}
  BY <1>1 DEF RecvSome, TakeBytes, InRecvAll
<1>3. /\ k \in Nat /\ taken \in Nat /\ Len(stream) \in Nat /\ taken + k <= Len(stream)
      /\ Len(acc) \in Nat /\ want \in Nat /\ Len(acc) + k <= want
  BY <1>1, ChunkAssumption, StartsInside DEF CanTake, Unread, IInv, EspTypes
<1>4. SenderInv' /\ Start' = Start /\ Size' = Size
  BY <1>2, ReadKeeps
<1>5. /\ acc' \in Seq(Byte) /\ Len(acc') = Len(acc) + k
      /\ \A n \in Nat :
           taken = Start + n + Len(acc) /\ InPlace(acc, n) => InPlace(acc, n)'
  BY <1>1, <1>2, <1>3, <1>4, TakesInPlace
<1>6. EspTypes'
  BY <1>2, <1>3, <1>5 DEF IInv, EspTypes, senderVars
<1>7. Start \in Nat /\ HdrLen \in Nat
  BY StartsInside, Sizes
<1>8. CASE at = "len"
  <2>1. want = 2 /\ taken = Start + 0 + Len(acc) /\ InPlace(acc, 0)
    BY <1>3, <1>7, <1>8 DEF IInv, Position, AtLen
  <2>2. InPlace(acc, 0)'
    BY <1>5, <2>1
  <2>3. taken' = Start' + Len(acc')
    BY <1>2, <1>3, <1>4, <1>5, <1>7, <2>1
  <2>4. AtLen'
    BY <1>2, <2>1, <2>2, <2>3 DEF AtLen
  <2>. QED
    BY <1>2, <1>4, <1>6, <1>8, <2>4 DEF IInv, Position
<1>9. CASE at = "hdr"
  <2>1. /\ want = HdrLen /\ taken = Start + 2 + Len(acc) /\ InPlace(acc, 2)
        /\ pay = Size /\ Usable(pay)
    BY <1>9 DEF IInv, Position, AtHdr
  <2>2. InPlace(acc, 2)'
    BY <1>5, <2>1
  <2>3. taken' = Start' + 2 + Len(acc')
    BY <1>2, <1>3, <1>4, <1>5, <1>7, <2>1
  <2>4. AtHdr'
    BY <1>2, <1>4, <2>1, <2>2, <2>3 DEF AtHdr, Usable
  <2>. QED
    BY <1>2, <1>4, <1>6, <1>9, <2>4 DEF IInv, Position
<1>10. CASE at = "data"
  <2>1. /\ Len(hdr) = HdrLen /\ InPlace(hdr, 2) /\ want = pay - HdrLen
        /\ taken = Start + (2 + HdrLen) + Len(acc) /\ InPlace(acc, 2 + HdrLen)
        /\ pay = Size /\ Usable(pay)
    BY <1>3, <1>7, <1>10 DEF IInv, Position, AtData
  <2>2. InPlace(acc, 2 + HdrLen)'
    BY <1>5, <1>7, <2>1
  <2>3. taken' = Start' + 2 + HdrLen + Len(acc')
    BY <1>2, <1>3, <1>4, <1>5, <1>7, <2>1
  <2>4. InPlace(hdr, 2)'
    BY <1>2, <1>4, <2>1 DEF InPlace
  <2>5. AtData'
    BY <1>2, <1>4, <2>1, <2>2, <2>3, <2>4 DEF AtData, Usable
  <2>. QED
    BY <1>2, <1>4, <1>6, <1>10, <2>5 DEF IInv, Position
<1>11. CASE at = "dump"
  <2>1. /\ want >= 1 /\ want <= DumpSize /\ want <= pay /\ pay <= Size
        /\ taken = Start + 2 + (Size - pay) + Len(acc)
        /\ Size > HdrLen + MaxClassic
    BY <1>11 DEF IInv, Position, AtDump
  <2>2. Size \in Nat /\ pay \in Nat
    BY <1>11 DEF IInv, EspTypes, Position, AtDump
  <2>3. taken' = Start' + 2 + (Size' - pay') + Len(acc')
    BY <1>2, <1>3, <1>4, <1>5, <1>7, <2>1, <2>2
  <2>4. AtDump'
    BY <1>2, <1>4, <2>1, <2>2, <2>3 DEF AtDump
  <2>. QED
    BY <1>2, <1>4, <1>6, <1>11, <2>4 DEF IInv, Position
<1>. QED
  BY <1>2, <1>8, <1>9, <1>10, <1>11

-----------------------------------------------------------------------------
(* The loop goes back to poll at the end of a record.                       *)
LEMMA FinishedIInv ==
  ASSUME IInv, UNCHANGED <<tcpVars, senderVars>>,
         taken >= Start + 2, taken = Start + 2 + Size,
         handled' = handled + 1, Continue, hdr' \in Seq(Byte), pay' \in Nat
  PROVE  IInv'
<1>1. /\ handled < Len(sent) /\ handled + 2 \in 1 .. Len(off) /\ off[handled + 2] = taken
  BY RecordEnds
<1>2. SenderInv'
  BY ReadKeeps DEF tcpVars
<1>3. handled \in Nat /\ Len(sent) \in Nat
  BY StartsInside DEF IInv, EspTypes
<1>4. EspTypes'
  <2>1. handled' \in Nat /\ handled' <= Len(sent)
    BY <1>1, <1>3
  <2>2. at' = "poll" /\ acc' = << >> /\ want' = 0
    BY DEF Continue, RecvAll
  <2>3. acc' \in Seq(Byte) /\ Len(acc') <= want'
    BY <2>2
  <2>. QED
    BY <2>1, <2>2, <2>3 DEF IInv, EspTypes, tcpVars, senderVars
<1>5. AtPoll'
  <2>1. handled' + 1 = handled + 2
    BY <1>3
  <2>. QED
    BY <1>1, <2>1 DEF AtPoll, Start, tcpVars, senderVars
<1>6. Position'
  BY <1>5 DEF Position, Continue, RecvAll
<1>. QED
  BY <1>2, <1>4, <1>6 DEF IInv

(* The next piece of an unusable record is thrown away, or it is over.      *)
LEMMA DiscardIInv ==
  ASSUME IInv, UNCHANGED <<tcpVars, hdr, senderVars>>, NEW n \in Nat, Discard(n),
         Size \in Nat, n <= Size, Size > HdrLen + MaxClassic,
         taken = Start + 2 + (Size - n)
  PROVE  IInv'
<1>1. Start \in Nat /\ taken \in Nat /\ DumpSize \in Nat /\ DumpSize >= 1
  BY StartsInside, Sizes DEF IInv, EspTypes
<1>2. hdr' \in Seq(Byte) /\ pay' = n
  BY DEF IInv, EspTypes, Discard, DiscardBy
<1>3. CASE n = 0
  <2>1. Continue /\ handled' = handled + 1
    BY <1>3 DEF Discard, DiscardBy
  <2>2. taken >= Start + 2 /\ taken = Start + 2 + Size
    BY <1>1, <1>3
  <2>. QED
    BY <1>2, <2>1, <2>2, FinishedIInv
<1>4. CASE n # 0
  <2>1. /\ at' = "dump" /\ acc' = << >> /\ want' = (IF n < DumpSize THEN n ELSE DumpSize)
        /\ handled' = handled
    BY <1>4 DEF Discard, DiscardBy, RecvAll
  <2>2. SenderInv' /\ Start' = Start /\ Size' = Size
    BY <2>1, ReadKeeps DEF tcpVars
  <2>3. want' \in Nat /\ want' >= 1 /\ want' <= DumpSize /\ want' <= n
    BY <1>1, <1>4, <2>1
  <2>4. acc' \in Seq(Byte) /\ Len(acc') = 0 /\ Len(acc') <= want'
    BY <2>1, <2>3
  <2>5. EspTypes'
    BY <1>2, <2>1, <2>3, <2>4 DEF IInv, EspTypes, tcpVars, senderVars
  <2>6. taken' = Start' + 2 + (Size' - pay') + Len(acc')
    BY <1>1, <1>2, <2>2, <2>4 DEF tcpVars
  <2>7. AtDump'
    BY <1>2, <2>2, <2>3, <2>6 DEF AtDump
  <2>. QED
    BY <2>1, <2>2, <2>5, <2>7 DEF IInv, Position
<1>. QED
  BY <1>3, <1>4

LEMMA GotLengthIInv ==
  ASSUME IInv, GotLength, UNCHANGED senderVars
  PROVE  IInv'
<1>1. /\ at = "len" /\ Len(acc) = want /\ UNCHANGED <<tcpVars, hdr>>
      /\ \/ /\ ~ BadLength(Length(acc)) /\ pay' = Length(acc)
            /\ RecvAll("hdr", HdrLen) /\ handled' = handled
         \/ BadLength(Length(acc)) /\ Discard(Length(acc))
  BY DEF GotLength, Got
<1>2. want = 2 /\ taken = Start + Len(acc) /\ InPlace(acc, 0)
  BY <1>1 DEF IInv, Position, AtLen
<1>3. /\ Start \in Nat /\ taken \in Nat /\ taken <= Len(stream) /\ Len(stream) \in Nat
      /\ HdrLen \in Nat /\ MaxClassic \in Nat
  BY StartsInside, Sizes DEF IInv, EspTypes
<1>4. taken = Start + 2
  BY <1>1, <1>2
<1>5. Length(acc) = Size
  <2>1. 1 \in 1 .. Len(acc) /\ 2 \in 1 .. Len(acc)
    BY <1>1, <1>2
  <2>2. acc[1] = stream[Start + 0 + 1] /\ acc[2] = stream[Start + 0 + 2]
    BY <1>2, <2>1 DEF InPlace
  <2>3. Start + 0 + 1 = Start + 1 /\ Start + 0 + 2 = Start + 2
    BY <1>3
  <2>. QED
    BY <2>2, <2>3 DEF Length, Size
<1>6. Size \in Nat /\ Size >= HdrLen
  <2>1. Len(stream) > Start /\ taken >= Start + 2
    BY <1>3, <1>4
  <2>2. PICK f \in Frames : Follows(f)
    BY <2>1, RecordFollows
  <2>. QED
    BY <2>1, <2>2, SizeKnown
<1>7. CASE BadLength(Size) /\ Discard(Size)
  <2>1. Size > HdrLen + MaxClassic
    BY <1>3, <1>6, <1>7 DEF BadLength
  <2>2. taken = Start + 2 + (Size - Size)
    BY <1>3, <1>4, <1>6
  <2>. QED
    BY <1>1, <1>6, <1>7, <2>1, <2>2, DiscardIInv
<1>8. CASE ~ BadLength(Size) /\ pay' = Size /\ RecvAll("hdr", HdrLen) /\ handled' = handled
  <2>1. at' = "hdr" /\ acc' = << >> /\ want' = HdrLen
    BY <1>8 DEF RecvAll
  <2>2. SenderInv' /\ Start' = Start /\ Size' = Size
    BY <1>1, <1>8, ReadKeeps DEF tcpVars
  <2>3. acc' \in Seq(Byte) /\ Len(acc') = 0 /\ Len(acc') <= want' /\ InPlace(acc, 2)'
    BY <1>3, <2>1 DEF InPlace
  <2>4. EspTypes'
    BY <1>1, <1>3, <1>6, <1>8, <2>1, <2>3 DEF IInv, EspTypes, tcpVars, senderVars
  <2>5. Usable(pay)'
    BY <1>3, <1>6, <1>8 DEF BadLength, Usable
  <2>6. taken' = Start' + 2 + Len(acc')
    BY <1>1, <1>3, <1>4, <2>2, <2>3 DEF tcpVars
  <2>7. AtHdr'
    BY <1>8, <2>1, <2>2, <2>3, <2>5, <2>6 DEF AtHdr
  <2>. QED
    BY <2>1, <2>2, <2>4, <2>7 DEF IInv, Position
<1>. QED
  BY <1>1, <1>5, <1>7, <1>8

LEMMA GotDumpIInv ==
  ASSUME IInv, GotDump, UNCHANGED senderVars
  PROVE  IInv'
<1>1. at = "dump" /\ Len(acc) = want /\ Discard(pay - want) /\ UNCHANGED <<tcpVars, hdr>>
  BY DEF GotDump, Got
<1>2. /\ want <= pay /\ Size \in Nat /\ pay <= Size /\ Size > HdrLen + MaxClassic
      /\ taken = Start + 2 + (Size - pay) + Len(acc)
  BY <1>1 DEF IInv, Position, AtDump
<1>3. want \in Nat /\ pay \in Nat /\ Start \in Nat
  BY StartsInside DEF IInv, EspTypes
<1>4. pay - want \in Nat /\ pay - want <= Size /\ taken = Start + 2 + (Size - (pay - want))
  BY <1>1, <1>2, <1>3
<1>. QED
  BY <1>1, <1>2, <1>4, DiscardIInv

(* The header was received: the record may be over, or its data follow.     *)
LEMMA GotHeaderIInv ==
  ASSUME IInv, GotHeader, UNCHANGED senderVars
  PROVE  IInv'
<1>1. at = "hdr" /\ Len(acc) = want /\ hdr' = acc /\ UNCHANGED <<tcpVars, pay>>
  BY DEF GotHeader, Got
<1>2. /\ want = HdrLen /\ taken = Start + 2 + Len(acc) /\ InPlace(acc, 2)
      /\ pay = Size /\ Usable(pay)
  BY <1>1 DEF IInv, Position, AtHdr
<1>3. /\ Start \in Nat /\ HdrLen \in Nat /\ pay \in Nat /\ acc \in Seq(Byte)
  BY StartsInside, Sizes DEF IInv, EspTypes
<1>4. hdr' \in Seq(Byte) /\ pay' \in Nat /\ pay' = pay
  BY <1>1, <1>3
<1>5. CASE pay = HdrLen /\ Convert(acc, << >>)
  <2>1. handled' = handled + 1 /\ Continue
    BY <1>5 DEF Convert
  <2>2. taken >= Start + 2 /\ taken = Start + 2 + Size
    BY <1>1, <1>2, <1>3, <1>5
  <2>. QED
    BY <1>1, <1>4, <2>1, <2>2, FinishedIInv
<1>6. CASE pay > HdrLen /\ RecvAll("data", pay - HdrLen) /\ UNCHANGED <<canTx, handled>>
  <2>1. at' = "data" /\ acc' = << >> /\ want' = pay - HdrLen /\ handled' = handled
    BY <1>6 DEF RecvAll
  <2>2. SenderInv' /\ Start' = Start /\ Size' = Size
    BY <1>1, <2>1, ReadKeeps DEF tcpVars
  <2>3. want' \in Nat
    BY <1>3, <1>6, <2>1
  <2>4. acc' \in Seq(Byte) /\ Len(acc') = 0 /\ Len(acc') <= want' /\ InPlace(acc, 2 + HdrLen)'
    BY <2>1, <2>3 DEF InPlace
  <2>5. EspTypes'
    BY <1>1, <1>4, <2>1, <2>3, <2>4 DEF IInv, EspTypes, tcpVars, senderVars
  <2>6. InPlace(hdr, 2)'
    BY <1>1, <1>2, <2>2 DEF InPlace, tcpVars
  <2>7. taken' = Start' + 2 + HdrLen + Len(acc')
    BY <1>1, <1>2, <1>3, <2>2, <2>4 DEF tcpVars
  <2>8. AtData'
    BY <1>1, <1>2, <1>4, <2>1, <2>2, <2>4, <2>6, <2>7 DEF AtData, Usable
  <2>. QED
    BY <2>1, <2>2, <2>5, <2>8 DEF IInv, Position
<1>. QED
  BY <1>5, <1>6 DEF GotHeader

LEMMA GotDataIInv ==
  ASSUME IInv, GotData, UNCHANGED senderVars
  PROVE  IInv'
<1>1. /\ at = "data" /\ Len(acc) = want /\ UNCHANGED <<tcpVars, pay, hdr>>
      /\ handled' = handled + 1 /\ Continue
  BY DEF GotData, Got, Convert
<1>2. /\ want = pay - HdrLen /\ taken = Start + 2 + HdrLen + Len(acc)
      /\ pay = Size
  BY <1>1 DEF IInv, Position, AtData
<1>3. /\ Start \in Nat /\ HdrLen \in Nat /\ pay \in Nat /\ hdr \in Seq(Byte)
      /\ Len(acc) \in Nat
  BY StartsInside, Sizes DEF IInv, EspTypes
<1>4. taken >= Start + 2 /\ taken = Start + 2 + Size
  BY <1>1, <1>2, <1>3
<1>. QED
  BY <1>1, <1>3, <1>4, FinishedIInv

-----------------------------------------------------------------------------
(* A write does not disturb what the ESP32 has read.                        *)
LEMMA EspStays ==
  ASSUME IInv, UNCHANGED <<taken, espVars>>,
         Len(stream') \in Nat, Len(stream) <= Len(stream'),
         \A j \in 1 .. Len(stream) : stream'[j] = stream[j],
         Len(sent') \in Nat, Len(sent) <= Len(sent'),
         \A i \in 1 .. Len(off) : off'[i] = off[i]
  PROVE  EspTypes' /\ Position'
<1>1. /\ handled + 1 \in 1 .. Len(off) /\ Start \in Nat /\ Len(stream) \in Nat
      /\ taken \in Nat /\ taken <= Len(stream) /\ handled \in Nat /\ handled <= Len(sent)
      /\ Len(sent) \in Nat /\ HdrLen \in Nat
  BY StartsInside, Sizes DEF IInv, EspTypes
<1>2. /\ taken' = taken /\ at' = at /\ acc' = acc /\ want' = want /\ pay' = pay
      /\ hdr' = hdr /\ handled' = handled
  BY DEF espVars
<1>3. Start' = Start
  BY <1>1, <1>2 DEF Start
<1>4. taken >= Start + 2 => Size' = Size
  <2>1. taken >= Start + 2 => Start + 1 \in 1 .. Len(stream) /\ Start + 2 \in 1 .. Len(stream)
    BY <1>1
  <2>. QED
    BY <1>3, <2>1 DEF Size
<1>5. EspTypes'
  <2>1. handled <= Len(sent') /\ taken <= Len(stream')
    BY <1>1
  <2>. QED
    BY <1>2, <2>1 DEF IInv, EspTypes
<1>6. ASSUME NEW s \in Seq(Byte), NEW n \in Nat, InPlace(s, n),
             Start + n + Len(s) <= taken
      PROVE  \A j \in 1 .. Len(s) : s[j] = stream'[Start' + n + j]
  <2>1. ASSUME NEW j \in 1 .. Len(s)
        PROVE  s[j] = stream'[Start + n + j]
    <3>1. Start + n + j \in 1 .. Len(stream)
      BY <1>1, <1>6
    <3>. QED
      BY <1>6, <3>1 DEF InPlace
  <2>. QED
    BY <1>3, <2>1
<1>7. acc \in Seq(Byte) /\ hdr \in Seq(Byte) /\ Len(acc) \in Nat /\ pay \in Nat
  BY DEF IInv, EspTypes
<1>8. CASE at \in {"poll", "ended"}
  BY <1>2, <1>3, <1>5, <1>8 DEF IInv, Position, AtPoll
<1>9. CASE at = "len"
  <2>1. want = 2 /\ taken = Start + Len(acc) /\ InPlace(acc, 0)
    BY <1>9 DEF IInv, Position, AtLen
  <2>2. Start + 0 + Len(acc) <= taken
    BY <1>1, <1>7, <2>1
  <2>3. InPlace(acc, 0)'
    <3>1. \A j \in 1 .. Len(acc) : acc[j] = stream'[Start' + 0 + j]
      BY <1>6, <1>7, <2>1, <2>2
    <3>. QED
      BY <1>2, <3>1 DEF InPlace
  <2>. QED
    BY <1>2, <1>3, <1>5, <1>9, <2>1, <2>3 DEF Position, AtLen
<1>10. CASE at = "hdr"
  <2>1. /\ want = HdrLen /\ taken = Start + 2 + Len(acc) /\ InPlace(acc, 2)
        /\ pay = Size /\ Usable(pay)
    BY <1>10 DEF IInv, Position, AtHdr
  <2>2. Start + 2 + Len(acc) <= taken /\ taken >= Start + 2
    BY <1>1, <1>7, <2>1
  <2>3. InPlace(acc, 2)'
    <3>1. \A j \in 1 .. Len(acc) : acc[j] = stream'[Start' + 2 + j]
      BY <1>6, <1>7, <2>1, <2>2
    <3>. QED
      BY <1>2, <3>1 DEF InPlace
  <2>. QED
    BY <1>2, <1>3, <1>4, <1>5, <1>10, <2>1, <2>2, <2>3 DEF Position, AtHdr, Usable
<1>11. CASE at = "data"
  <2>1. /\ Len(hdr) = HdrLen /\ InPlace(hdr, 2) /\ InPlace(acc, 2 + HdrLen)
        /\ taken = Start + 2 + HdrLen + Len(acc)
        /\ want = pay - HdrLen /\ pay = Size /\ Usable(pay)
    BY <1>11 DEF IInv, Position, AtData
  <2>2. /\ Start + 2 + Len(hdr) <= taken /\ taken >= Start + 2
        /\ Start + (2 + HdrLen) + Len(acc) <= taken /\ 2 + HdrLen \in Nat
    BY <1>1, <1>7, <2>1
  <2>3. InPlace(hdr, 2)'
    <3>1. InPlace(hdr, 2) /\ Start + 2 + Len(hdr) <= taken /\ hdr \in Seq(Byte)
      BY <1>7, <2>1, <2>2
    <3>2. \A j \in 1 .. Len(hdr) : hdr[j] = stream'[Start' + 2 + j]
      BY <1>6, <3>1
    <3>. QED
      BY <1>2, <3>2 DEF InPlace
  <2>4. InPlace(acc, 2 + HdrLen)'
    <3>1. \A j \in 1 .. Len(acc) : acc[j] = stream'[Start' + (2 + HdrLen) + j]
      BY <1>6, <1>7, <2>1, <2>2
    <3>. QED
      BY <1>2, <3>1 DEF InPlace
  <2>. QED
    BY <1>2, <1>3, <1>4, <1>5, <1>11, <2>1, <2>2, <2>3, <2>4 DEF Position, AtData, Usable
<1>12. CASE at = "dump"
  <2>1. /\ want >= 1 /\ want <= DumpSize /\ want <= pay
        /\ Size \in Nat /\ pay <= Size
        /\ taken = Start + 2 + (Size - pay) + Len(acc)
        /\ Size > HdrLen + MaxClassic
    BY <1>12 DEF IInv, Position, AtDump
  <2>2. taken >= Start + 2
    BY <1>1, <1>7, <2>1
  <2>. QED
    BY <1>2, <1>3, <1>4, <1>5, <1>12, <2>1, <2>2 DEF Position, AtDump
<1>. QED
  BY <1>8, <1>9, <1>10, <1>11, <1>12 DEF IInv, EspTypes

LEMMA SendRecordIInv ==
  ASSUME IInv, NEW f \in Frames, SendRecord(f), UNCHANGED espVars
  PROVE  IInv'
<1>1. /\ SenderInv' /\ taken' = taken /\ sent' = Append(sent, f)
      /\ Len(stream') \in Nat /\ Len(stream) <= Len(stream')
      /\ \A j \in 1 .. Len(stream) : stream'[j] = stream[j]
      /\ \A i \in 1 .. Len(off) : off'[i] = off[i]
  BY SendRecordKeeps DEF IInv
<1>2. Len(sent') \in Nat /\ Len(sent) <= Len(sent')
  <2>1. sent \in Seq(Frames)
    BY DEF IInv, SenderInv, StreamInv, StreamTypes
  <2>. QED
    BY <1>1, <2>1
<1>. QED
  BY <1>1, <1>2, EspStays DEF IInv

LEMMA EndConnectionIInv ==
  ASSUME IInv, NEW f \in Frames, NEW k, EndConnection(f, k), UNCHANGED espVars
  PROVE  IInv'
<1>1. /\ SenderInv' /\ taken' = taken /\ sent' = sent /\ off' = off
      /\ Len(stream') \in Nat /\ Len(stream) <= Len(stream')
      /\ \A j \in 1 .. Len(stream) : stream'[j] = stream[j]
  BY EndConnectionKeeps DEF IInv, senderVars
<1>2. Len(sent') \in Nat /\ Len(sent) <= Len(sent')
  BY <1>1, StartsInside
<1>. QED
  BY <1>1, <1>2, EspStays DEF IInv

LEMMA NextIInv == IInv /\ [Next]_vars => IInv'
<1>. SUFFICES ASSUME IInv, [Next]_vars PROVE IInv'
  OBVIOUS
<1>1. CASE Send
  <2>1. PICK f \in Frames :
          SendRecord(f) \/ \E k \in 0 .. HdrLen + 1 + MaxFd : EndConnection(f, k)
    BY <1>1 DEF Send, SenderStep
  <2>. QED
    BY <1>1, <2>1, SendRecordIInv, EndConnectionIInv DEF Send
<1>2. CASE Receive
  BY <1>2, LeaveIInv, PollInIInv, RecvSomeIInv, GotLengthIInv, GotDumpIInv, GotHeaderIInv,
     GotDataIInv DEF Receive, EspStep, EspLoop
<1>3. CASE UNCHANGED vars
  <2>1. UNCHANGED <<stream, line, senderVars>> /\ UNCHANGED <<taken, espVars>>
    BY <1>3 DEF vars, tcpVars
  <2>2. SenderInv' /\ Start' = Start /\ Size' = Size
    BY <2>1, ReadKeeps DEF espVars
  <2>3. EspTypes'
    BY <2>1 DEF IInv, EspTypes, espVars, senderVars
  <2>4. Position'
    BY <2>1, <2>2 DEF IInv, Position, AtPoll, AtLen, AtHdr, AtData, AtDump, InPlace, Usable,
                      espVars
  <2>. QED
    BY <2>2, <2>3, <2>4 DEF IInv
<1>. QED
  BY <1>1, <1>2, <1>3 DEF Next

(* The inductive invariant: where in the stream the ESP32 stands.           *)
THEOREM SpecIInv == Spec => []IInv
<1>. QED
  BY InitIInv, NextIInv, PTL DEF Spec

(* Whatever the Python side writes, no recv_all of the ESP32 is given more  *)
(* bytes than its array holds.                                              *)
THEOREM NeverPastTheArray == Spec => []StaysInArray
<1>1. IInv => StaysInArray
  <2>. SUFFICES ASSUME IInv, InRecvAll PROVE want <= ArraySize[at] /\ Len(acc) <= want
    BY DEF StaysInArray
  <2>1. Len(acc) <= want
    BY DEF IInv, EspTypes
  <2>2. CASE at = "len"
    BY <2>2, <2>1 DEF IInv, Position, AtLen, ArraySize
  <2>3. CASE at = "hdr"
    <3>1. want = HdrLen /\ HdrLen \in Nat
      BY <2>3, Sizes DEF IInv, Position, AtHdr
    <3>. QED
      BY <2>1, <2>3, <3>1 DEF ArraySize
  <2>4. CASE at = "data"
    <3>1. want = pay - HdrLen /\ pay \in Nat /\ pay <= HdrLen + MaxClassic
      BY <2>4 DEF IInv, EspTypes, Position, AtData, Usable
    <3>2. want <= MaxClassic
      BY <3>1, Sizes
    <3>. QED
      BY <2>1, <2>4, <3>2 DEF ArraySize
  <2>5. CASE at = "dump"
    BY <2>1, <2>5 DEF IInv, Position, AtDump, ArraySize
  <2>. QED
    BY <2>2, <2>3, <2>4, <2>5 DEF InRecvAll
<1>. QED
  BY <1>1, SpecIInv, PTL

(* The loop never loses its place: what it read and threw away are whole    *)
(* records.                                                                 *)
THEOREM NeverLosesItsPlace == Spec => []PollsBetweenRecords
<1>1. IInv => PollsBetweenRecords
  <2>. SUFFICES ASSUME IInv, at = "poll"
                PROVE  handled < Len(off) /\ taken = off[handled + 1]
    BY DEF PollsBetweenRecords
  <2>1. handled + 1 \in 1 .. Len(off)
    BY StartsInside
  <2>2. handled < Len(off)
    BY <2>1 DEF IInv, EspTypes
  <2>. QED
    BY <2>2 DEF IInv, Position, AtPoll, Start
<1>. QED
  BY <1>1, SpecIInv, PTL

-----------------------------------------------------------------------------
(* A record that is no longer than a classic frame's is made into the frame *)
(* that was sent.                                                           *)
LEMMA Converts ==
  ASSUME IInv, taken >= Start + 2, taken = Start + 2 + Size, Usable(Size),
         NEW h \in Seq(Byte), Len(h) = HdrLen, InPlace(h, 2),
         NEW data \in Seq(Byte), HdrLen + Len(data) = Size, InPlace(data, 2 + HdrLen),
         Convert(h, data)
  PROVE  /\ handled < Len(sent) /\ handled' = handled + 1
         /\ IsClassic(sent[handled + 1])
         /\ canTx' = Append(canTx, sent[handled + 1])
<1>. DEFINE f == sent[handled + 1]
<1>1. handled < Len(sent) /\ f \in Frames /\ Follows(f)
  BY RecordEnds
<1>. HIDE DEF f
<1>2. /\ Size = HdrLen + Len(f.data) /\ RecordLen(f) = 2 + Size
      /\ Size \in Nat /\ Size >= HdrLen /\ RecordLen(f) \in Nat
  BY <1>1, SizeKnown, FrameLen
<1>3. /\ HdrLen \in Nat /\ HdrLen >= 1 /\ MaxClassic \in Nat
      /\ Start \in Nat /\ Len(stream) \in Nat /\ taken <= Len(stream) /\ taken \in Nat
  BY Sizes, StartsInside DEF IInv, EspTypes
<1>4. /\ f.head \in Seq(Byte) /\ f.data \in Seq(Byte) /\ Len(f.data) \in Nat
      /\ Len(f.head) = HdrLen - 1 /\ f = [head |-> f.head, data |-> f.data]
  BY <1>1, FrameLen, FrameSizes
<1>5. Len(data) \in Nat /\ Len(data) = Len(f.data) /\ Len(data) <= MaxClassic
  <2>1. Len(data) \in Nat
    OBVIOUS
  <2>2. Size <= HdrLen + MaxClassic /\ Size = HdrLen + Len(data)
    BY DEF Usable
  <2>3. Size = HdrLen + Len(f.data)
    BY <1>2
  <2>4. Len(f.data) \in Nat /\ HdrLen \in Nat /\ MaxClassic \in Nat
    BY <1>3, <1>4
  <2>. QED
    BY <2>1, <2>2, <2>3, <2>4
<1>6. ASSUME NEW j \in 1 .. 2 + Size
      PROVE  stream[Start + j] = Record(f)[j]
  <2>1. j \in 1 .. Len(stream) - Start
    <3>1. Len(stream) - Start \in Nat /\ 2 + Size <= Len(stream) - Start
      <4>1. Start \in Nat /\ Len(stream) \in Nat /\ taken <= Len(stream) /\ Size \in Nat
        BY <1>2, <1>3
      <4>. QED
        BY <4>1
    <3>2. Size \in Nat
      BY <1>2
    <3>. QED
      BY <3>1, <3>2
  <2>2. j <= RecordLen(f)
    BY <1>2
  <2>. QED
    BY <1>1, <2>1, <2>2 DEF Follows
<1>7. /\ \A i \in 1 .. HdrLen - 1 : Record(f)[2 + i] = f.head[i]
      /\ Record(f)[2 + HdrLen] = Len(f.data)
      /\ \A i \in 1 .. Len(f.data) : Record(f)[2 + HdrLen + i] = f.data[i]
  BY <1>1, FrameLen, RecordBytes
<1>8. ASSUME NEW i \in 1 .. HdrLen
      PROVE  h[i] = Record(f)[2 + i]
  <2>1. 2 + i \in 1 .. 2 + Size /\ Start + 2 + i = Start + (2 + i)
    <3>1. Size \in Nat /\ Size >= HdrLen /\ HdrLen \in Nat /\ Start \in Nat
      BY <1>2, <1>3
    <3>. QED
      BY <3>1
  <2>2. h[i] = stream[Start + 2 + i]
    BY DEF InPlace
  <2>. QED
    BY <1>6, <2>1, <2>2
<1>9. h[HdrLen] = Len(f.data)
  BY <1>3, <1>7, <1>8
<1>10. SubSeq(h, 1, HdrLen - 1) = f.head
  <2>1. ASSUME NEW i \in 1 .. Len(f.head)
        PROVE  h[0 + i] = f.head[i]
    <3>1. i \in 1 .. HdrLen - 1 /\ i \in 1 .. HdrLen /\ 0 + i = i
      BY <1>3, <1>4
    <3>. QED
      BY <1>7, <1>8, <3>1
  <2>2. 0 + Len(f.head) <= Len(h) /\ 0 + 1 = 1 /\ 0 + Len(f.head) = HdrLen - 1
    BY <1>3, <1>4
  <2>3. SubSeq(h, 0 + 1, 0 + Len(f.head)) = f.head
    BY <1>4, <2>1, <2>2, CutOut
  <2>. QED
    BY <2>2, <2>3
<1>11. data = f.data
  <2>1. ASSUME NEW i \in 1 .. Len(data)
        PROVE  data[i] = f.data[i]
    <3>1. /\ 2 + HdrLen + i \in 1 .. 2 + Size
          /\ Start + (2 + HdrLen) + i = Start + (2 + HdrLen + i)
      BY <1>2, <1>3, <1>5
    <3>2. data[i] = stream[Start + (2 + HdrLen) + i]
      BY DEF InPlace
    <3>. QED
      BY <1>5, <1>6, <1>7, <3>1, <3>2
  <2>. QED
    BY <1>4, <1>5, <2>1, SeqEqual, Zenon
<1>12. h[HdrLen] <= MaxClassic /\ Len(data) = h[HdrLen]
  BY <1>5, <1>9
<1>13. canTx' = Append(canTx, f) /\ handled' = handled + 1
  BY <1>4, <1>10, <1>11, <1>12 DEF Convert
<1>14. IsClassic(f)
  BY <1>5 DEF IsClassic
<1>. QED
  BY <1>1, <1>13, <1>14 DEF f

(* One step of ForwardsClassicFrames: the record that is finished is the    *)
(* next one that was sent, and it is transmitted if and only if it is a     *)
(* classic frame.                                                           *)
Stays == handled' = handled /\ canTx' = canTx
FinishesNext ==
  /\ handled < Len(sent) /\ handled' = handled + 1
  /\ canTx' = IF IsClassic(sent[handled + 1])
                THEN Append(canTx, sent[handled + 1]) ELSE canTx

ForwardsInTurn == [][Stays \/ FinishesNext]_vars

(* A step leaves both alone or finishes the record at which the ESP32 is.   *)
LEMMA OneRecordAtATime ==
  ASSUME IInv, [Next]_vars
  PROVE  Stays \/ FinishesNext \/ UNCHANGED vars
<1>1. ASSUME IInv, NEW n \in Nat, Discard(n), UNCHANGED canTx, Size \in Nat,
             taken = Start + 2 + (Size - n), Size > HdrLen + MaxClassic
      PROVE  Stays \/ FinishesNext
  <2>1. CASE n # 0
    BY <1>1, <2>1 DEF Discard, DiscardBy, Stays
  <2>2. CASE n = 0
    <3>1. Start \in Nat /\ HdrLen \in Nat /\ MaxClassic \in Nat
      BY <1>1, StartsInside, Sizes
    <3>2. taken = Start + 2 + Size /\ taken >= Start + 2
      BY <1>1, <2>2, <3>1
    <3>3. handled < Len(sent) /\ sent[handled + 1] \in Frames /\ Follows(sent[handled + 1])
      BY <1>1, <3>2, RecordEnds
    <3>4. Size = HdrLen + Len(sent[handled + 1].data)
      BY <1>1, <3>2, <3>3, SizeKnown
    <3>5. Len(sent[handled + 1].data) \in Nat
      BY <3>3, FrameLen
    <3>6. ~ IsClassic(sent[handled + 1])
      BY <1>1, <3>1, <3>4, <3>5 DEF IsClassic
    <3>. QED
      BY <1>1, <2>2, <3>3, <3>6 DEF Discard, DiscardBy, FinishesNext
  <2>. QED
    BY <2>1, <2>2
<1>2. /\ Start \in Nat /\ taken \in Nat /\ acc \in Seq(Byte) /\ hdr \in Seq(Byte)
      /\ HdrLen \in Nat /\ pay \in Nat /\ want \in Nat
  BY StartsInside, Sizes DEF IInv, EspTypes
<1>3. CASE Send \/ PollIn \/ PollFails \/ RecvSome \/ RecvFails
  BY <1>3 DEF Send, espVars, PollIn, PollFails, RecvSome, RecvFails, Stays
<1>4. CASE GotLength
  <2>1. /\ at = "len" /\ Len(acc) = 2 /\ UNCHANGED canTx
        /\ taken = Start + 2 /\ InPlace(acc, 0)
        /\ handled' = handled \/ (BadLength(Length(acc)) /\ Discard(Length(acc)))
    BY <1>4 DEF GotLength, Got, IInv, Position, AtLen
  <2>2. Length(acc) = Size
    <3>1. acc[1] = stream[Start + 0 + 1] /\ acc[2] = stream[Start + 0 + 2]
      BY <2>1 DEF InPlace
    <3>2. Start + 0 + 1 = Start + 1 /\ Start + 0 + 2 = Start + 2
      BY <1>2
    <3>. QED
      BY <3>1, <3>2 DEF Length, Size
  <2>3. Size \in Nat /\ Size >= HdrLen
    <3>1. Len(stream) > Start /\ taken >= Start + 2
      BY <1>2, <2>1, StartsInside DEF IInv, EspTypes
    <3>2. PICK f \in Frames : Follows(f)
      BY <3>1, RecordFollows
    <3>. QED
      BY <3>1, <3>2, SizeKnown
  <2>4. BadLength(Size) => Size > HdrLen + MaxClassic
    BY <1>2, <2>3, Sizes DEF BadLength
  <2>5. taken = Start + 2 + (Size - Size)
    BY <1>2, <2>1, <2>3
  <2>. QED
    BY <1>1, <2>1, <2>2, <2>3, <2>4, <2>5 DEF Stays
<1>5. CASE GotDump
  <2>1. at = "dump" /\ Len(acc) = want /\ Discard(pay - want) /\ UNCHANGED canTx
    BY <1>5 DEF GotDump, Got
  <2>2. /\ want <= pay /\ Size \in Nat /\ Size > HdrLen + MaxClassic /\ pay <= Size
        /\ taken = Start + 2 + (Size - pay) + Len(acc)
    BY <2>1 DEF IInv, Position, AtDump
  <2>3. pay - want \in Nat /\ taken = Start + 2 + (Size - (pay - want))
    BY <1>2, <2>1, <2>2
  <2>. QED
    BY <1>1, <2>1, <2>2, <2>3
<1>6. CASE GotHeader
  <2>1. /\ at = "hdr" /\ Len(acc) = HdrLen /\ InPlace(acc, 2)
        /\ taken = Start + 2 + Len(acc) /\ pay = Size /\ Usable(pay)
    BY <1>6 DEF GotHeader, Got, IInv, Position, AtHdr
  <2>2. CASE pay = HdrLen /\ Convert(acc, << >>)
    <3>1. taken >= Start + 2 /\ taken = Start + 2 + Size
      BY <1>2, <2>1, <2>2
    <3>2. << >> \in Seq(Byte) /\ HdrLen + Len(<< >>) = Size
      BY <1>2, <2>1, <2>2
    <3>3. InPlace(<< >>, 2 + HdrLen)
      BY DEF InPlace
    <3>4. Convert(acc, << >>)
      BY <2>2
    <3>. QED
      BY <1>2, <2>1, <3>1, <3>2, <3>3, <3>4, Converts DEF FinishesNext
  <2>3. CASE UNCHANGED <<canTx, handled>>
    BY <2>3 DEF Stays
  <2>. QED
    BY <1>6, <2>2, <2>3 DEF GotHeader
<1>7. CASE GotData
  <2>1. at = "data" /\ Len(acc) = want /\ Convert(hdr, acc)
    BY <1>7 DEF GotData, Got
  <2>2. /\ Len(hdr) = HdrLen /\ InPlace(hdr, 2) /\ InPlace(acc, 2 + HdrLen)
        /\ taken = Start + 2 + HdrLen + Len(acc) /\ want = pay - HdrLen
        /\ pay = Size /\ Usable(pay)
    BY <2>1 DEF IInv, Position, AtData
  <2>3. HdrLen + Len(acc) = Size /\ taken >= Start + 2 /\ taken = Start + 2 + Size
    BY <1>2, <2>1, <2>2
  <2>. QED
    BY <1>2, <2>1, <2>2, <2>3, Converts DEF FinishesNext
<1>. QED
  BY <1>3, <1>4, <1>5, <1>6, <1>7 DEF Next, Receive, EspStep, EspLoop

(* Between records nothing is transmitted, each record that was sent is     *)
(* finished in its turn, and exactly the classic frames come out unchanged. *)
THEOREM ForwardsSteps == Spec => ForwardsInTurn
<1>1. IInv /\ [Next]_vars => [Stays \/ FinishesNext]_vars
  BY OneRecordAtATime
<1>. QED
  BY <1>1, SpecIInv, PTL DEF Spec, ForwardsInTurn

(* A new record changes nothing of what is claimed about those before it.   *)
LEMMA NothingFinished ==
  ASSUME IInv, ForwardsClassicFrames, Stays,
         sent' = sent \/ \E f \in Frames : sent' = Append(sent, f)
  PROVE  ForwardsClassicFrames'
<1>1. PICK from \in [1 .. Len(canTx) -> 1 .. handled] : ForwardsFrom(from)
  BY DEF ForwardsClassicFrames
<1>2. /\ handled \in Nat /\ handled <= Len(sent) /\ sent \in Seq(Frames)
      /\ handled' = handled /\ canTx' = canTx
  BY DEF IInv, SenderInv, StreamInv, StreamTypes, EspTypes, Stays
<1>3. handled <= Len(sent') /\ \A i \in 1 .. handled : sent'[i] = sent[i]
  BY <1>2
<1>4. ForwardsFrom(from)'
  BY <1>1, <1>2, <1>3 DEF ForwardsFrom, IsClassic
<1>. QED
  BY <1>1, <1>2, <1>3, <1>4 DEF ForwardsClassicFrames

(* A record of an FD frame adds nothing to what was transmitted.            *)
LEMMA FdFrameFinished ==
  ASSUME IInv, ForwardsClassicFrames, FinishesNext, sent' = sent,
         ~ IsClassic(sent[handled + 1])
  PROVE  ForwardsClassicFrames'
<1>1. PICK from \in [1 .. Len(canTx) -> 1 .. handled] : ForwardsFrom(from)
  BY DEF ForwardsClassicFrames
<1>2. /\ handled \in Nat /\ handled < Len(sent) /\ sent \in Seq(Frames)
      /\ handled' = handled + 1 /\ canTx' = canTx
  BY DEF IInv, SenderInv, StreamInv, StreamTypes, EspTypes, FinishesNext
<1>3. from \in [1 .. Len(canTx) -> 1 .. handled'] /\ handled' <= Len(sent')
  BY <1>1, <1>2
<1>4. \A i \in 1 .. handled' :
        IsClassic(sent[i]) <=> \E k \in 1 .. Len(canTx) : from[k] = i
  <2>1. \A k \in 1 .. Len(canTx) : from[k] # handled + 1
    <3>1. \A k \in 1 .. Len(canTx) : from[k] \in 1 .. handled
      BY <1>1
    <3>. QED
      BY <1>2, <3>1
  <2>2. \A i \in 1 .. handled' : i \in 1 .. handled \/ i = handled + 1
    BY <1>2
  <2>. QED
    BY <1>1, <2>1, <2>2 DEF ForwardsFrom
<1>5. ForwardsFrom(from)'
  BY <1>1, <1>2, <1>4 DEF ForwardsFrom, IsClassic
<1>. QED
  BY <1>2, <1>3, <1>5 DEF ForwardsClassicFrames

(* A record of a classic frame is the one the last frame was sent for.      *)
LEMMA ClassicFrameFinished ==
  ASSUME IInv, canTx \in Seq(Frames), ForwardsClassicFrames, FinishesNext, sent' = sent,
         IsClassic(sent[handled + 1])
  PROVE  ForwardsClassicFrames'
<1>1. PICK from \in [1 .. Len(canTx) -> 1 .. handled] : ForwardsFrom(from)
  BY DEF ForwardsClassicFrames
<1>2. /\ handled \in Nat /\ handled < Len(sent) /\ sent \in Seq(Frames)
      /\ handled' = handled + 1 /\ canTx' = Append(canTx, sent[handled + 1])
  BY DEF IInv, SenderInv, StreamInv, StreamTypes, EspTypes, FinishesNext
<1>3. PICK n \in Nat : n = Len(canTx)
  OBVIOUS
<1>4. /\ Len(canTx') = n + 1 /\ canTx'[n + 1] = sent[handled + 1]
      /\ \A k \in 1 .. n : canTx'[k] = canTx[k]
  BY <1>2, <1>3
<1>5. \A k \in 1 .. n : from[k] \in 1 .. handled
  BY <1>1, <1>3
<1>6. PICK g \in [1 .. n + 1 -> 1 .. handled + 1] :
        g[n + 1] = handled + 1 /\ \A k \in 1 .. n : g[k] = from[k]
  <2> DEFINE h == [k \in 1 .. n + 1 |-> IF k <= n THEN from[k] ELSE handled + 1]
  <2>1. \A k \in 1 .. n + 1 :
          (IF k <= n THEN from[k] ELSE handled + 1) \in 1 .. handled + 1
    BY <1>2, <1>3, <1>5
  <2>2. h \in [1 .. n + 1 -> 1 .. handled + 1]
    BY <2>1
  <2>3. h[n + 1] = handled + 1 /\ \A k \in 1 .. n : h[k] = from[k]
    BY <1>3
  <2>. QED
    BY <2>2, <2>3
<1>7. \A j, k \in 1 .. n + 1 : j < k => g[j] < g[k]
  <2>. SUFFICES ASSUME NEW j \in 1 .. n + 1, NEW k \in 1 .. n + 1, j < k
                PROVE  g[j] < g[k]
    OBVIOUS
  <2>1. CASE k = n + 1
    <3>1. j \in 1 .. n
      BY <1>3, <2>1
    <3>. QED
      BY <1>2, <1>5, <1>6, <2>1, <3>1
  <2>2. CASE k \in 1 .. n
    <3>1. j \in 1 .. n
      BY <1>3, <2>2
    <3>2. from[j] < from[k]
      BY <1>1, <1>3, <2>2, <3>1 DEF ForwardsFrom
    <3>. QED
      BY <1>6, <2>2, <3>1, <3>2
  <2>. QED
    BY <1>3, <2>1, <2>2
<1>8. \A k \in 1 .. n + 1 : canTx'[k] = sent[g[k]]
  BY <1>1, <1>2, <1>3, <1>4, <1>6 DEF ForwardsFrom
<1>9. \A i \in 1 .. handled + 1 : IsClassic(sent[i]) <=> \E k \in 1 .. n + 1 : g[k] = i
  <2>. SUFFICES ASSUME NEW i \in 1 .. handled + 1
                PROVE  IsClassic(sent[i]) <=> \E k \in 1 .. n + 1 : g[k] = i
    OBVIOUS
  <2>1. CASE i = handled + 1
    BY <1>3, <1>6, <2>1
  <2>2. CASE i \in 1 .. handled
    <3>1. IsClassic(sent[i]) <=> \E k \in 1 .. n : from[k] = i
      BY <1>1, <1>3, <2>2 DEF ForwardsFrom
    <3>2. i # g[n + 1]
      BY <1>2, <1>6, <2>2
    <3>. QED
      BY <1>3, <1>6, <3>1, <3>2
  <2>. QED
    BY <1>2, <2>1, <2>2
<1>10. /\ \A i \in 1 .. handled' : IsClassic(sent'[i]) <=> \E k \in 1 .. Len(canTx') : g[k] = i
       /\ \A k \in 1 .. Len(canTx') : canTx'[k] = sent'[g[k]]
       /\ \A j, k \in 1 .. Len(canTx') : j < k => g[j] < g[k]
  BY <1>2, <1>4, <1>7, <1>8, <1>9
<1>11. ForwardsFrom(g)'
  BY <1>10 DEF ForwardsFrom, IsClassic
<1>12. g \in [1 .. Len(canTx') -> 1 .. handled'] /\ handled' <= Len(sent')
  BY <1>2, <1>4, <1>6
<1>. QED
  BY <1>11, <1>12 DEF ForwardsClassicFrames

(* Exactly the classic frames among the finished records are transmitted,   *)
(* in order and unchanged, whatever lies between them.                      *)
THEOREM ForwardsExactlyTheClassicFrames == Spec => []ForwardsClassicFrames
<1> DEFINE FInv == canTx \in Seq(Frames) /\ ForwardsClassicFrames
<1>1. Init => FInv
  <2>. SUFFICES ASSUME Init PROVE FInv
    OBVIOUS
  <2>1. canTx = << >> /\ handled = 0 /\ Len(sent) = 0
    BY DEF Init, EspInit, SenderInit
  <2>2. PICK from \in [1 .. Len(canTx) -> 1 .. handled] : TRUE
    <3>1. [k \in 1 .. Len(canTx) |-> 0] \in [1 .. Len(canTx) -> 1 .. handled]
      BY <2>1
    <3>. QED
      BY <3>1
  <2>3. ForwardsFrom(from)
    BY <2>1 DEF ForwardsFrom
  <2>4. handled <= Len(sent)
    BY <2>1
  <2>5. ForwardsClassicFrames
    BY <2>2, <2>3, <2>4, Zenon DEF ForwardsClassicFrames
  <2>. QED
    BY <2>1, <2>5
<1>2. IInv /\ FInv /\ [Next]_vars => FInv'
  <2>. SUFFICES ASSUME IInv, FInv, [Next]_vars PROVE FInv'
    OBVIOUS
  <2>1. sent \in Seq(Frames) /\ handled \in Nat
    BY DEF IInv, SenderInv, StreamInv, StreamTypes, EspTypes
  <2>2. \/ sent' = sent
        \/ handled' = handled /\ \E f \in Frames : sent' = Append(sent, f)
    BY DEF Next, Send, Receive, SenderStep, SendRecord, RecordSent, EndConnection,
           espVars, senderVars, vars
  <2>3. CASE UNCHANGED vars
    <3>1. Stays /\ sent' = sent
      BY <2>3 DEF vars, espVars, senderVars, Stays
    <3>. QED
      BY <3>1, NothingFinished DEF Stays
  <2>4. CASE Stays
    BY <2>2, <2>4, NothingFinished DEF Stays
  <2>5. CASE FinishesNext
    <3>1. sent' = sent
      BY <2>1, <2>2, <2>5 DEF FinishesNext
    <3>2. canTx' \in Seq(Frames)
      BY <2>1, <2>5 DEF FinishesNext
    <3>. QED
      BY <2>5, <3>1, <3>2, FdFrameFinished, ClassicFrameFinished
  <2>. QED
    BY <2>3, <2>4, <2>5, OneRecordAtATime
<1>. QED
  BY <1>1, <1>2, SpecIInv, PTL DEF Spec
-----------------------------------------------------------------------------
(* A finished record leaves the queue by the bus or is refused.             *)
LEMMA FinishRefines ==
  ASSUME IInv, FinishesNext, sent' = sent
  PROVE  Channel!Deliver \/ Channel!Refuse
<1>1. /\ sent \in Seq(Frames) /\ handled \in Nat /\ handled < Len(sent)
      /\ handled' = handled + 1
  BY DEF IInv, SenderInv, StreamInv, StreamTypes, EspTypes, FinishesNext
<1>2. /\ Unhandled # << >>
      /\ Head(Unhandled) = sent[handled + 1]
      /\ Tail(Unhandled) = SubSeq(sent, handled + 1 + 1, Len(sent))
  BY <1>1, SuffixHead DEF Unhandled
<1>3. Unhandled' = Tail(Unhandled)
  BY <1>1, <1>2 DEF Unhandled
<1>4. CASE IsClassic(sent[handled + 1])
  <2>1. canTx' = Append(canTx, Head(Unhandled))
    BY <1>2, <1>4 DEF FinishesNext
  <2>. QED
    BY <1>2, <1>3, <2>1 DEF Channel!Deliver
<1>5. CASE ~ IsClassic(sent[handled + 1])
  BY <1>2, <1>3, <1>5 DEF FinishesNext, Channel!Refuse
<1>. QED
  BY <1>4, <1>5

(* A new record joins the queue.                                            *)
LEMMA RecordJoins ==
  ASSUME IInv, Stays, NEW f \in Frames, sent' = Append(sent, f)
  PROVE  Channel!Put(f)
<1>1. sent \in Seq(Frames) /\ handled \in Nat /\ handled <= Len(sent)
  BY DEF IInv, SenderInv, StreamInv, StreamTypes, EspTypes
<1>2. SubSeq(Append(sent, f), handled + 1, Len(Append(sent, f)))
        = Append(SubSeq(sent, handled + 1, Len(sent)), f)
  BY <1>1, SuffixAppend
<1>. QED
  BY <1>2 DEF Unhandled, Stays, Channel!Put

LEMMA StepRefines ==
  IInv /\ [Next]_vars => [Channel!Next]_Channel!channelVars
<1>. SUFFICES ASSUME IInv, [Next]_vars
              PROVE  Channel!Next \/ UNCHANGED <<Unhandled, canTx>>
  BY DEF Channel!channelVars
<1>1. \/ sent' = sent
      \/ handled' = handled /\ \E f \in Frames : sent' = Append(sent, f)
  BY DEF Next, Send, Receive, SenderStep, SendRecord, RecordSent, EndConnection,
         espVars, senderVars, vars
<1>2. CASE Stays
  <2>1. CASE sent' = sent
    BY <1>2, <2>1 DEF Stays, Unhandled
  <2>2. CASE \E f \in Frames : sent' = Append(sent, f)
    BY <1>2, <2>2, RecordJoins DEF Channel!Next
  <2>. QED
    BY <1>1, <2>1, <2>2
<1>3. CASE FinishesNext
  <2>1. handled \in Nat
    BY DEF IInv, EspTypes
  <2>2. sent' = sent
    BY <1>1, <1>3, <2>1 DEF FinishesNext
  <2>. QED
    BY <1>3, <2>2, FinishRefines DEF Channel!Next
<1>4. CASE UNCHANGED vars
  BY <1>4 DEF vars, espVars, senderVars, Unhandled
<1>. QED
  BY <1>2, <1>3, <1>4, OneRecordAtATime

(* To whoever sends, the ESP32 is the same channel as a second Python       *)
(* bridge, though it has no buffer to put its bytes together in.            *)
THEOREM EspImplementsChannel == Spec => ImplementsChannel
<1>1. Init => Channel!Init
  <2>. SUFFICES ASSUME Init PROVE Channel!Init
    OBVIOUS
  <2>1. sent = << >> /\ handled = 0 /\ canTx = << >>
    BY DEF Init, EspInit, SenderInit
  <2>. QED
    BY <2>1 DEF Channel!Init, Unhandled
<1>. QED
  BY <1>1, StepRefines, SpecIInv, PTL DEF Spec, ImplementsChannel, Channel!Spec
=============================================================================
