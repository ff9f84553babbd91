--------------------------- MODULE PyLinkTheorems ---------------------------
(***************************************************************************)
(* The two links whose reader is PyReceiver, for every set of frames,      *)
(* every header and payload size, every chunk size and every number of     *)
(* records per connection: PyLink, and EspUplink while no write falls      *)
(* short.                                                                  *)
(*                                                                         *)
(* None of the invariants of PyLink is inductive: that the framer holds    *)
(* whole bytes of the right record has to be known as well.  ReceiverInv   *)
(* adds to the places of the records in the stream (StreamInv of           *)
(* FramingTheorems) that the framer holds exactly the bytes between the    *)
(* last decoded record and the last byte taken (BufferInPlace).            *)
(***************************************************************************)
EXTENDS PyLink, EspUplink, FramingTheorems

ReceiverTypes ==
  /\ taken \in Nat /\ taken <= Len(stream)
  /\ buf \in Seq(Byte)
  /\ pc \in {"recv", "parse", "ended"}
  /\ decoded \in Seq(Frames) /\ bus \in Seq(Frames)

DecodedEnd == off[Len(decoded) + 1]    \* where the next record to decode starts

DecodedSent ==
  /\ Len(decoded) <= Len(sent)
  /\ \A i \in 1 .. Len(decoded) : decoded[i] = sent[i]

BufferInPlace ==
  /\ Len(buf) = taken - DecodedEnd
  /\ \A j \in 1 .. Len(buf) : buf[j] = stream[DecodedEnd + j]

EndsInOrder ==
  pc = "ended" => /\ line # "up"
                  /\ line = "fin" => Len(decoded) = Len(sent)

ReceiverInv ==
  /\ StreamInv
  /\ ReceiverTypes
  /\ DecodedSent
  /\ BufferInPlace
  /\ NothingHeldBack
  /\ EndsInOrder

-----------------------------------------------------------------------------
(* What the framer holds is the beginning of the next sent record, or of    *)
(* the torn one, which it will never complete.                              *)
LEMMA NextToDecode ==
  ASSUME ReceiverInv, Len(decoded) < Len(sent)
  PROVE  /\ IsFrame(sent[Len(decoded) + 1])
         /\ sent[Len(decoded) + 1] \in Frames
         /\ StartsRecord(buf, sent[Len(decoded) + 1])
<1> DEFINE d == Len(decoded) + 1
<1>1. d \in 1 .. Len(sent) /\ sent[d] \in Frames
  BY DEF ReceiverInv, StreamInv, StreamTypes, ReceiverTypes
<1>2. IsFrame(sent[d])
  BY <1>1, FramesAssumption
<1>3. RecordLen(sent[d]) \in Nat
  BY <1>2, FrameSizes DEF RecordLen
<1>4. ASSUME NEW i \in 1 .. Len(buf), i <= RecordLen(sent[d])
      PROVE  buf[i] = Record(sent[d])[i]
  <2>1. i \in 1 .. RecordLen(sent[d])
    BY <1>3, <1>4 DEF ReceiverInv, StreamInv, StreamTypes, ReceiverTypes
  <2>2. stream[off[d] + i] = Record(sent[d])[i]
    BY <1>1, <2>1 DEF ReceiverInv, StreamInv, RecordsInPlace
  <2> QED
    BY <2>2 DEF ReceiverInv, BufferInPlace, DecodedEnd
<1>5. buf \in Seq(Byte)
  BY DEF ReceiverInv, StreamInv, StreamTypes, ReceiverTypes
<1> QED
  BY <1>1, <1>2, <1>4, <1>5 DEF StartsRecord

LEMMA OnlySentRecords ==
  ASSUME ReceiverInv, HasRecord(buf)
  PROVE  Len(decoded) < Len(sent)
<1> SUFFICES ASSUME ~ (Len(decoded) < Len(sent)) PROVE FALSE
  OBVIOUS
<1>1. Len(decoded) = Len(sent) /\ DecodedEnd = SentEnd
  BY DEF ReceiverInv, StreamInv, StreamTypes, ReceiverTypes, DecodedSent, DecodedEnd, SentEnd
<1>2. /\ buf \in Seq(Byte) /\ Len(buf) \in Nat
      /\ taken \in Nat /\ Len(stream) \in Nat /\ taken <= Len(stream)
      /\ SentEnd \in Nat
      /\ Len(buf) = taken - SentEnd
  BY <1>1 DEF ReceiverInv, StreamInv, StreamTypes, ReceiverTypes, BufferInPlace, SentEnd
<1>3. CASE Len(stream) = SentEnd
  BY <1>2, <1>3 DEF HasRecord
<1>4. CASE \E f \in Frames : TornBy(f)
  <2>1. PICK f \in Frames : TornBy(f)
    BY <1>4
  <2>2. IsFrame(f)
    BY FramesAssumption
  <2>3. RecordLen(f) \in Nat
    BY <2>2, FrameSizes DEF RecordLen
  <2>4. Len(buf) < RecordLen(f)
    BY <1>2, <2>1, <2>3 DEF TornBy
  <2>5. ASSUME NEW i \in 1 .. Len(buf)
        PROVE  buf[i] = Record(f)[i]
    <3>1. i \in 1 .. Len(stream) - SentEnd
      BY <1>2
    <3>2. stream[SentEnd + i] = Record(f)[i]
      BY <3>1, <2>1 DEF TornBy
    <3> QED
      BY <3>2, <1>1 DEF ReceiverInv, BufferInPlace
  <2>6. StartsRecord(buf, f)
    BY <2>5, <1>2 DEF StartsRecord
  <2> QED
    BY <2>2, <2>3, <2>4, <2>6, <1>2, FramerWaits
<1> QED
  BY <1>3, <1>4 DEF ReceiverInv, StreamInv, TornTail

-----------------------------------------------------------------------------
LEMMA ReceiverStarts ==
  ASSUME PyReceiverInit, SenderInit
  PROVE  ReceiverInv /\ line = "up" /\ stream = << >> /\ SentEnd = 0
<1>1. /\ stream = << >> /\ taken = 0 /\ line = "up" /\ buf = << >> /\ pc = "recv"
      /\ decoded = << >> /\ bus = << >> /\ sent = << >> /\ off = <<0>>
  BY DEF PyReceiverInit, TcpInit, SenderInit
<1>2. StreamInv /\ SentEnd = 0
  BY <1>1 DEF StreamInv, StreamTypes, RecordsInPlace, TornTail, SentEnd
<1>3. ReceiverTypes /\ DecodedSent /\ EndsInOrder
  BY <1>1 DEF ReceiverTypes, DecodedSent, EndsInOrder
<1>4. BufferInPlace /\ NothingHeldBack
  BY <1>1 DEF BufferInPlace, DecodedEnd, NothingHeldBack, HasRecord
<1> QED
  BY <1>1, <1>2, <1>3, <1>4 DEF ReceiverInv

(* A new connection begins where the first one did.                         *)
LEMMA ReceiverRestarts ==
  ASSUME FreshFramer, SenderReset
  PROVE  ReceiverInv' /\ line' = "up" /\ stream' = << >> /\ SentEnd' = 0
<1>1. /\ stream' = << >> /\ taken' = 0 /\ line' = "up" /\ buf' = << >> /\ pc' = "recv"
      /\ decoded' = << >> /\ bus' = << >> /\ sent' = << >> /\ off' = <<0>>
  BY DEF FreshFramer, EnterLoopWith, TcpReset, SenderReset
<1>2. StreamInv' /\ SentEnd' = 0
  BY <1>1, NothingWritten
<1>3. ReceiverTypes' /\ DecodedSent' /\ EndsInOrder'
  BY <1>1 DEF ReceiverTypes, DecodedSent, EndsInOrder
<1>4. BufferInPlace' /\ NothingHeldBack'
  BY <1>1 DEF BufferInPlace, DecodedEnd, NothingHeldBack, HasRecord
<1> QED
  BY <1>1, <1>2, <1>3, <1>4 DEF ReceiverInv

(* recv() extends the framer by the bytes that follow those it has.         *)
LEMMA RecvChunkKeeps ==
  ASSUME ReceiverInv, RecvChunk, UNCHANGED senderVars
  PROVE  ReceiverInv'
<1> USE DEF senderVars
<1>1. PICK k \in 1 .. MaxChunk :
        /\ CanTake(k)
        /\ buf' = buf \o NextBytes(k)
        /\ TakeBytes(k)
  BY DEF RecvChunk
<1>2. /\ k \in Nat /\ taken' = taken + k /\ taken + k <= Len(stream)
      /\ stream \in Seq(Byte) /\ buf \in Seq(Byte) /\ taken \in Nat
      /\ UNCHANGED <<stream, line, decoded, bus, sent, off>>
      /\ pc' = "parse"
  BY <1>1, ChunkAssumption DEF CanTake, TakeBytes, Unread, RecvChunk, ReceiverInv, StreamInv,
                               StreamTypes, ReceiverTypes
<1>3. /\ NextBytes(k) \in Seq(Byte)
      /\ Len(NextBytes(k)) = k
      /\ \A i \in 1 .. k : NextBytes(k)[i] = stream[taken + i]
  BY <1>2 DEF NextBytes
<1>4. /\ buf' \in Seq(Byte)
      /\ Len(buf') = Len(buf) + k
      /\ \A i \in 1 .. Len(buf) : buf'[i] = buf[i]
      /\ \A i \in 1 .. k : buf'[Len(buf) + i] = NextBytes(k)[i]
  <2>1. buf \in Seq(Byte) /\ NextBytes(k) \in Seq(Byte)
    BY <1>2, <1>3
  <2>2. /\ buf' \in Seq(Byte)
        /\ Len(buf') = Len(buf) + Len(NextBytes(k))
        /\ \A i \in 1 .. Len(buf) : buf'[i] = buf[i]
        /\ \A i \in 1 .. Len(NextBytes(k)) : buf'[Len(buf) + i] = NextBytes(k)[i]
    <3>1. buf' = buf \o NextBytes(k)
      BY <1>1
    <3> QED
      BY <2>1, <3>1, ConcatBytes, Zenon
  <2> QED
    BY <2>2, <1>3, Zenon
<1>5. ReceiverTypes' /\ StreamInv'
  BY <1>2, <1>4, StreamStays DEF ReceiverInv, ReceiverTypes
<1>6. DecodedEnd \in Nat /\ DecodedEnd' = DecodedEnd /\ SentEnd' = SentEnd
  BY <1>2 DEF ReceiverInv, StreamInv, StreamTypes, ReceiverTypes, DecodedSent, DecodedEnd, SentEnd
<1>7. DecodedSent' /\ EndsInOrder' /\ NothingHeldBack'
  BY <1>2 DEF ReceiverInv, DecodedSent, EndsInOrder, NothingHeldBack
<1>8. BufferInPlace'
  <2>1. Len(buf') = taken' - DecodedEnd'
    BY <1>2, <1>4, <1>6 DEF ReceiverInv, BufferInPlace
  <2>2. ASSUME NEW j \in 1 .. Len(buf')
        PROVE  buf'[j] = stream[DecodedEnd + j]
    <3>1. Len(buf) \in Nat /\ Len(buf) = taken - DecodedEnd
      BY <1>2 DEF ReceiverInv, BufferInPlace
    <3>2. CASE j <= Len(buf)
      BY <3>1, <3>2, <1>4 DEF ReceiverInv, BufferInPlace
    <3>3. CASE ~ (j <= Len(buf))
      <4>1. PICK i \in 1 .. k : j = Len(buf) + i
        <5>1. j - Len(buf) \in 1 .. k /\ j = Len(buf) + (j - Len(buf))
          BY <3>1, <3>3, <1>2, <1>4
        <5> QED
          BY <5>1
      <4>2. buf'[j] = stream[taken + i]
        BY <4>1, <1>3, <1>4
      <4>3. taken + i = DecodedEnd + j
        BY <4>1, <3>1, <1>2, <1>6
      <4> QED
        BY <4>2, <4>3
    <3> QED
      BY <3>2, <3>3
  <2> QED
    BY <2>1, <2>2, <1>2, <1>6 DEF BufferInPlace
<1> QED
  BY <1>5, <1>7, <1>8 DEF ReceiverInv

(* A decoded record is the next sent one, and what remains in the framer    *)
(* starts where the record after it does.                                   *)
LEMMA ForwardRecordKeeps ==
  ASSUME ReceiverInv, ForwardRecord, UNCHANGED senderVars
  PROVE  ReceiverInv'
<1> DEFINE d == Len(decoded) + 1
           f == sent[d]
           n == RecordLen(f)
<1>1. /\ HasRecord(buf) /\ pc = "parse" /\ pc' = "parse"
      /\ UNCHANGED <<stream, taken, line, sent, off>>
      /\ decoded' = Append(decoded, CanFromFrame(NextRecord(buf)))
      /\ bus' \in {Append(bus, CanFromFrame(NextRecord(buf))), bus}
      /\ buf' = AfterRecord(buf)
  BY DEF ForwardRecord, ForwardThen, tcpVars, senderVars
<1>2. Len(decoded) < Len(sent)
  BY <1>1, OnlySentRecords
<1>3. IsFrame(f) /\ f \in Frames /\ StartsRecord(buf, f)
  BY <1>2, NextToDecode
<1>4. /\ CanFromFrame(NextRecord(buf)) = f
      /\ AfterRecord(buf) = SubSeq(buf, n + 1, Len(buf))
      /\ Len(buf) >= n
      /\ n \in Nat /\ n >= 1
  <2> HIDE DEF f
  <2>1. /\ CanFromFrame(NextRecord(buf)) = f
        /\ AfterRecord(buf) = SubSeq(buf, n + 1, Len(buf))
    BY <1>1, <1>3, FramerReturns
  <2>2. Len(buf) >= n
    BY <1>1, <1>3, FramerWaits
  <2>3. n \in Nat /\ n >= 1
    BY <1>3, FrameSizes DEF RecordLen
  <2> QED
    BY <2>1, <2>2, <2>3
<1> HIDE DEF f, n
<1>5. /\ stream \in Seq(Byte) /\ buf \in Seq(Byte)
      /\ decoded \in Seq(Frames) /\ bus \in Seq(Frames) /\ sent \in Seq(Frames)
      /\ off \in Seq(Nat) /\ Len(off) = Len(sent) + 1
      /\ taken \in Nat /\ Len(buf) \in Nat
      /\ Len(decoded) \in Nat /\ Len(sent) \in Nat
  BY DEF ReceiverInv, StreamInv, StreamTypes, ReceiverTypes
<1>6. /\ decoded' \in Seq(Frames) /\ Len(decoded') = d /\ decoded'[d] = f
      /\ \A i \in 1 .. Len(decoded) : decoded'[i] = decoded[i]
  <2>1. decoded' = Append(decoded, f)
    BY <1>1, <1>4
  <2>2. f \in Frames /\ decoded \in Seq(Frames)
    BY <1>3, <1>5
  <2>3. /\ Append(decoded, f) \in Seq(Frames) /\ Len(Append(decoded, f)) = d
        /\ Append(decoded, f)[d] = f
        /\ \A i \in 1 .. Len(decoded) : Append(decoded, f)[i] = decoded[i]
    BY <2>2, AppendProperties
  <2> QED
    BY <2>1, <2>3
<1>7. bus' \in Seq(Frames)
  <2>1. bus' = Append(bus, f) \/ bus' = bus
    BY <1>1, <1>4
  <2>2. f \in Frames /\ bus \in Seq(Frames)
    BY <1>3, <1>5
  <2>3. Append(bus, f) \in Seq(Frames)
    BY <2>2, AppendProperties, Zenon
  <2> QED
    BY <2>1, <2>2, <2>3
<1>8. /\ buf' \in Seq(Byte)
      /\ Len(buf') = Len(buf) - n
      /\ \A j \in 1 .. Len(buf) - n : buf'[j] = buf[n + j]
  BY <1>1, <1>4, <1>5
<1>9. /\ DecodedEnd \in Nat
      /\ DecodedEnd' = DecodedEnd + n
      /\ SentEnd' = SentEnd
  <2>1. d \in 1 .. Len(sent) /\ d \in 1 .. Len(off)
    BY <1>2, <1>5
  <2>2. off[d + 1] = off[d] + n
    BY <2>1 DEF ReceiverInv, StreamInv, RecordsInPlace, n, f
  <2> QED
    BY <2>1, <2>2, <1>1, <1>5, <1>6 DEF DecodedEnd, SentEnd
<1>10. ReceiverTypes' /\ StreamInv'
  BY <1>1, <1>6, <1>7, <1>8, StreamStays DEF ReceiverInv, ReceiverTypes, senderVars
<1>11. EndsInOrder' /\ NothingHeldBack'
  BY <1>1 DEF EndsInOrder, NothingHeldBack
<1>12. DecodedSent'
  <2>1. Len(decoded') <= Len(sent')
    BY <1>1, <1>2, <1>5, <1>6
  <2>2. ASSUME NEW i \in 1 .. Len(decoded')
        PROVE  decoded'[i] = sent[i]
    <3>1. CASE i = d
      BY <3>1, <1>6 DEF f
    <3>2. CASE i # d
      <4>1. i \in 1 .. Len(decoded)
        BY <3>2, <1>5, <1>6
      <4> QED
        BY <4>1, <1>6 DEF ReceiverInv, DecodedSent
    <3> QED
      BY <3>1, <3>2
  <2> QED
    BY <2>1, <2>2, <1>1 DEF DecodedSent
<1>13. BufferInPlace'
  <2>1. Len(buf') = taken' - DecodedEnd'
    BY <1>1, <1>4, <1>5, <1>8, <1>9 DEF ReceiverInv, BufferInPlace
  <2>2. ASSUME NEW j \in 1 .. Len(buf')
        PROVE  buf'[j] = stream[DecodedEnd' + j]
    <3>1. n + j \in 1 .. Len(buf) /\ j \in 1 .. Len(buf) - n
      BY <1>4, <1>5, <1>8
    <3>2. buf[n + j] = stream[DecodedEnd + (n + j)]
      BY <3>1 DEF ReceiverInv, BufferInPlace
    <3>3. DecodedEnd + (n + j) = DecodedEnd' + j
      BY <3>1, <1>4, <1>9
    <3> QED
      BY <3>1, <3>2, <3>3, <1>8
  <2> QED
    BY <2>1, <2>2, <1>1 DEF BufferInPlace
<1> QED
  BY <1>10, <1>11, <1>12, <1>13 DEF ReceiverInv

(* can_from_frame never raises: a complete record is always a sent one.     *)
LEMMA AlwaysWellFormed ==
  ASSUME ReceiverInv, HasRecord(buf)
  PROVE  WellFormed(NextRecord(buf))
<1>1. Len(decoded) < Len(sent)
  BY OnlySentRecords
<1> QED
  BY <1>1, NextToDecode, FramerReturns

(* When the peer closed and every byte was taken, no sent record can be     *)
(* left, since the framer would hold all of it.                             *)
LEMMA RecvEndsKeeps ==
  ASSUME ReceiverInv, RecvEnds, UNCHANGED senderVars
  PROVE  ReceiverInv'
<1>1. /\ pc = "recv" /\ (AtEnd \/ Broken) /\ pc' = "ended"
      /\ UNCHANGED <<stream, taken, line, buf, decoded, bus, sent, off>>
  BY DEF RecvEnds, tcpVars, senderVars
<1>2. StreamInv' /\ ReceiverTypes' /\ DecodedSent' /\ BufferInPlace'
  BY <1>1, StreamStays DEF ReceiverInv, ReceiverTypes, DecodedSent, BufferInPlace, DecodedEnd,
                           senderVars
<1>3. NothingHeldBack'
  BY <1>1 DEF NothingHeldBack
<1>4. line' # "up"
  BY <1>1 DEF AtEnd, Broken
<1>5. ASSUME line = "fin", Len(decoded) < Len(sent)
      PROVE  FALSE
  <2> DEFINE d == Len(decoded) + 1
  <2>1. taken = Len(stream)
    BY <1>1, <1>5 DEF AtEnd, Broken, Unread, ReceiverInv, StreamInv, StreamTypes, ReceiverTypes
  <2>2. IsFrame(sent[d]) /\ StartsRecord(buf, sent[d])
    BY <1>5, NextToDecode
  <2>3. RecordLen(sent[d]) \in Nat
    BY <2>2, FrameSizes DEF RecordLen
  <2>4. /\ d \in 1 .. Len(sent) /\ d + 1 \in 1 .. Len(off)
        /\ off[d] \in Nat /\ off[d + 1] \in Nat
    BY <1>5 DEF ReceiverInv, StreamInv, StreamTypes, ReceiverTypes
  <2>5. off[d + 1] = off[d] + RecordLen(sent[d]) /\ off[d + 1] <= Len(stream)
    BY <2>4 DEF ReceiverInv, StreamInv, StreamTypes, RecordsInPlace
  <2>6. Len(buf) >= RecordLen(sent[d])
    <3>1. Len(buf) = taken - off[d] /\ taken \in Nat /\ Len(stream) \in Nat
      BY DEF ReceiverInv, BufferInPlace, DecodedEnd, StreamInv, StreamTypes, ReceiverTypes
    <3> HIDE DEF d
    <3> QED
      BY <3>1, <2>1, <2>3, <2>4, <2>5
  <2>7. HasRecord(buf)
    BY <2>2, <2>6, FramerWaits
  <2> QED
    BY <2>7, <1>1 DEF ReceiverInv, NothingHeldBack
<1>6. EndsInOrder'
  <2>1. Len(decoded) \in Nat /\ Len(sent) \in Nat /\ Len(decoded) <= Len(sent)
    BY DEF ReceiverInv, StreamInv, StreamTypes, ReceiverTypes, DecodedSent
  <2> QED
    BY <2>1, <1>1, <1>4, <1>5 DEF EndsInOrder
<1> QED
  BY <1>2, <1>3, <1>6 DEF ReceiverInv

LEMMA NeedMoreBytesKeeps ==
  ASSUME ReceiverInv, NeedMoreBytes, UNCHANGED senderVars
  PROVE  ReceiverInv'
<1>1. /\ ~ HasRecord(buf) /\ pc' = "recv"
      /\ UNCHANGED <<stream, taken, line, buf, decoded, bus, sent, off>>
  BY DEF NeedMoreBytes, tcpVars, senderVars
<1>2. StreamInv' /\ ReceiverTypes' /\ DecodedSent' /\ BufferInPlace'
  BY <1>1, StreamStays DEF ReceiverInv, ReceiverTypes, DecodedSent, BufferInPlace, DecodedEnd,
                           senderVars
<1>3. NothingHeldBack' /\ EndsInOrder'
  BY <1>1 DEF NothingHeldBack, EndsInOrder, HasRecord, Length
<1> QED
  BY <1>2, <1>3 DEF ReceiverInv

LEMMA ReceiverStepKeeps ==
  ASSUME ReceiverInv, ReceiverStep, UNCHANGED senderVars
  PROVE  ReceiverInv'
<1>1. CASE RecvChunk
  BY <1>1, RecvChunkKeeps
<1>2. CASE ForwardRecord
  BY <1>2, ForwardRecordKeeps
<1>3. CASE RejectRecord
  BY <1>3, AlwaysWellFormed DEF RejectRecord
<1>4. CASE NeedMoreBytes
  BY <1>4, NeedMoreBytesKeeps
<1>5. CASE RecvEnds
  BY <1>5, RecvEndsKeeps
<1> QED
  BY <1>1, <1>2, <1>3, <1>4, <1>5 DEF ReceiverStep

(* Bytes written behind those already there do not disturb what the framer  *)
(* holds.                                                                   *)
LEMMA ReceiverStays ==
  ASSUME ReceiverInv, line = "up", UNCHANGED <<taken, receiverVars>>,
         StreamInv', Len(stream') \in Nat, Len(stream) <= Len(stream'),
         \A j \in 1 .. Len(stream) : stream'[j] = stream[j],
         Len(sent') \in Nat, Len(sent) <= Len(sent'),
         \A i \in 1 .. Len(sent) : sent'[i] = sent[i],
         \A i \in 1 .. Len(off) : off'[i] = off[i]
  PROVE  ReceiverInv'
<1>1. /\ taken' = taken /\ buf' = buf /\ pc' = pc /\ decoded' = decoded /\ bus' = bus
  BY DEF receiverVars
<1>2. /\ Len(stream) \in Nat /\ taken \in Nat /\ taken <= Len(stream)
      /\ Len(sent) \in Nat /\ Len(decoded) \in Nat /\ Len(decoded) <= Len(sent)
      /\ off \in Seq(Nat) /\ Len(off) = Len(sent) + 1 /\ Len(buf) \in Nat
  BY DEF ReceiverInv, StreamInv, StreamTypes, ReceiverTypes, DecodedSent
<1>3. ReceiverTypes'
  BY <1>1, <1>2 DEF ReceiverInv, ReceiverTypes
<1>4. DecodedSent'
  BY <1>1, <1>2 DEF ReceiverInv, DecodedSent
<1>5. NothingHeldBack' /\ EndsInOrder'
  BY <1>1 DEF ReceiverInv, NothingHeldBack, EndsInOrder, HasRecord, Length
<1>6. DecodedEnd' = DecodedEnd /\ DecodedEnd \in Nat
  BY <1>1, <1>2 DEF DecodedEnd
<1>7. ASSUME NEW j \in 1 .. Len(buf)
      PROVE  buf[j] = stream'[DecodedEnd + j]
  <2>1. Len(buf) = taken - DecodedEnd /\ buf[j] = stream[DecodedEnd + j]
    BY DEF ReceiverInv, BufferInPlace
  <2>2. DecodedEnd + j \in 1 .. Len(stream)
    BY <2>1, <1>2, <1>6
  <2> QED
    BY <2>1, <2>2
<1>8. BufferInPlace'
  BY <1>1, <1>6, <1>7 DEF ReceiverInv, BufferInPlace
<1> QED
  BY <1>3, <1>4, <1>5, <1>8 DEF ReceiverInv

LEMMA ReceiverUnchanged ==
  ASSUME ReceiverInv, UNCHANGED <<tcpVars, receiverVars, senderVars>>
  PROVE  ReceiverInv' /\ SentEnd' = SentEnd
<1>1. UNCHANGED <<stream, taken, line>>
  BY DEF tcpVars
<1>2. StreamInv' /\ SentEnd' = SentEnd
  BY <1>1, StreamStays DEF ReceiverInv, StreamInv, StreamTypes
<1> QED
  BY <1>1, <1>2 DEF receiverVars, senderVars, ReceiverInv, ReceiverTypes, DecodedSent,
                    BufferInPlace, NothingHeldBack, EndsInOrder, DecodedEnd, HasRecord, Length

(* What was decoded is the beginning of what was sent.                      *)
LEMMA DecodesPrefix ==
  ASSUME ReceiverInv
  PROVE  Len(decoded) <= Len(sent) /\ decoded = SubSeq(sent, 1, Len(decoded))
<1>1. /\ sent \in Seq(Frames) /\ decoded \in Seq(Frames)
      /\ Len(sent) \in Nat /\ Len(decoded) \in Nat
      /\ Len(decoded) <= Len(sent)
      /\ \A i \in 1 .. Len(decoded) : decoded[i] = sent[i]
  BY DEF ReceiverInv, StreamInv, StreamTypes, ReceiverTypes, DecodedSent
<1> DEFINE p == SubSeq(sent, 1, Len(decoded))
<1>2. /\ p \in Seq(Frames) /\ Len(p) = Len(decoded)
      /\ \A i \in 1 .. Len(decoded) : p[i] = sent[i]
  BY <1>1
<1> HIDE DEF p
<1>3. \A i \in 1 .. Len(decoded) : decoded[i] = p[i]
  BY <1>1, <1>2
<1>4. decoded = p
  BY <1>1, <1>2, <1>3, SeqEqual, Zenon
<1> QED
  BY <1>1, <1>4 DEF p

-----------------------------------------------------------------------------
(* Two Python bridges.                                                      *)
IInv == ReceiverInv /\ SenderInv

LEMMA SendRecordIInv ==
  ASSUME IInv, NEW f \in Frames, SendRecord(f), UNCHANGED receiverVars
  PROVE  IInv'
<1>1. /\ SenderInv' /\ line = "up" /\ taken' = taken /\ sent' = Append(sent, f)
      /\ Len(stream') \in Nat /\ Len(stream) <= Len(stream')
      /\ \A j \in 1 .. Len(stream) : stream'[j] = stream[j]
      /\ \A i \in 1 .. Len(off) : off'[i] = off[i]
  BY SendRecordKeeps DEF IInv
<1>2. /\ Len(sent') \in Nat /\ Len(sent) <= Len(sent')
      /\ \A i \in 1 .. Len(sent) : sent'[i] = sent[i]
  <2>1. sent \in Seq(Frames)
    BY DEF IInv, SenderInv, StreamInv, StreamTypes
  <2> QED
    BY <1>1, <2>1, AppendProperties
<1> QED
  BY <1>1, <1>2, ReceiverStays DEF IInv, SenderInv

LEMMA EndConnectionIInv ==
  ASSUME IInv, NEW f \in Frames, NEW k, EndConnection(f, k), UNCHANGED receiverVars
  PROVE  IInv'
<1>1. /\ SenderInv' /\ line = "up" /\ taken' = taken /\ sent' = sent /\ off' = off
      /\ Len(stream') \in Nat /\ Len(stream) <= Len(stream')
      /\ \A j \in 1 .. Len(stream) : stream'[j] = stream[j]
  BY EndConnectionKeeps DEF IInv, senderVars
<1>2. Len(sent') \in Nat /\ Len(sent) <= Len(sent')
  BY <1>1, SentInside DEF IInv, ReceiverInv
<1> QED
  BY <1>1, <1>2, ReceiverStays DEF IInv, SenderInv

(* recv() and the framer leave what was written alone.                      *)
LEMMA ReceiveIInv == IInv /\ Receive => IInv'
<1> SUFFICES ASSUME IInv, Receive PROVE IInv'
  OBVIOUS
<1>1. ReceiverStep /\ UNCHANGED senderVars /\ UNCHANGED <<stream, line>>
  BY DEF Receive, ReceiverStep, RecvChunk, TakeBytes, ForwardRecord, ForwardThen,
         RejectRecord, NeedMoreBytes, RecvEnds, tcpVars
<1>2. SenderInv'
  BY <1>1, StreamStays DEF IInv, SenderInv
<1>3. ReceiverInv'
  BY <1>1, ReceiverStepKeeps DEF IInv
<1> QED
  BY <1>2, <1>3 DEF IInv

LEMMA NextIInv == IInv /\ [Next]_vars => IInv'
<1> SUFFICES ASSUME IInv, [Next]_vars PROVE IInv'
  OBVIOUS
<1>1. CASE Send
  <2>1. PICK f \in Frames :
          SendRecord(f) \/ \E k \in 0 .. HdrLen + 1 + MaxFd : EndConnection(f, k)
    BY <1>1 DEF Send, SenderStep
  <2> QED
    BY <1>1, <2>1, SendRecordIInv, EndConnectionIInv DEF Send
<1>2. CASE Receive
  BY <1>2, ReceiveIInv
<1>3. CASE Reconnect
  BY <1>3, ReceiverRestarts DEF Reconnect, IInv, SenderInv, ReceiverInv
<1>4. CASE UNCHANGED vars
  BY <1>4, ReceiverUnchanged DEF vars, tcpVars, IInv, SenderInv, ReceiverInv
<1> QED
  BY <1>1, <1>2, <1>3, <1>4 DEF Next

(* IInv holds in every reachable state of the link.                         *)
THEOREM LinkInvariant == Spec => []IInv
<1>1. Init => IInv
  BY ReceiverStarts DEF Init, IInv, SenderInv, ReceiverInv
<1> QED
  BY <1>1, NextIInv, PTL DEF Spec

(* Every variable of the link keeps its type.                               *)
THEOREM LinkTypes == Spec => []TypeOK
<1>1. IInv => TypeOK
  <2> SUFFICES ASSUME IInv PROVE TypeOK
    OBVIOUS
  <2>1. \A f \in Frames : IsFrame(f)
    BY FramesAssumption
  <2>2. \A i \in 1 .. Len(off) : off[i] \in 0 .. Len(stream)
    BY DEF IInv, ReceiverInv, StreamInv, StreamTypes, ReceiverTypes
  <2>3. /\ \A i \in 1 .. Len(sent) : sent[i] \in Frames
        /\ \A i \in 1 .. Len(decoded) : decoded[i] \in Frames
        /\ \A i \in 1 .. Len(bus) : bus[i] \in Frames
    BY DEF IInv, ReceiverInv, StreamInv, StreamTypes, ReceiverTypes
  <2>4. taken \in 0 .. Len(stream)
    BY DEF IInv, ReceiverInv, StreamInv, StreamTypes, ReceiverTypes
  <2> QED
    BY <2>1, <2>2, <2>3, <2>4 DEF TypeOK, PyReceiverTypeOK, IInv, ReceiverInv,
                                     StreamInv, StreamTypes, ReceiverTypes
<1> QED
  BY <1>1, LinkInvariant, PTL

(* The frames decoded are the first frames sent, in their order, whatever   *)
(* the sizes of the chunks recv() returns and wherever the connection tore. *)
THEOREM LinkDecodesInOrder == Spec => []DecodedInOrder
<1>1. IInv => DecodedInOrder
  BY DecodesPrefix DEF IInv, DecodedInOrder
<1> QED
  BY <1>1, LinkInvariant, PTL

(* can_from_frame never raises ValueError on a record of the peer's bridge. *)
THEOREM LinkNeverRejects == Spec => []NeverRejects
<1>1. IInv => NeverRejects
  BY AlwaysWellFormed DEF NeverRejects, IInv
<1> QED
  BY <1>1, LinkInvariant, PTL

(* recv() is entered only when the framer holds no complete record.         *)
THEOREM LinkHoldsNothingBack == Spec => []NothingHeldBack
<1>1. IInv => NothingHeldBack
  BY DEF IInv, ReceiverInv
<1> QED
  BY <1>1, LinkInvariant, PTL

(* A peer that closes in good order loses none of its complete records.     *)
THEOREM LinkOrderlyEnd == Spec => []OrderlyEndLosesNothing
<1>1. IInv => OrderlyEndLosesNothing
  BY DEF IInv, ReceiverInv, EndsInOrder, OrderlyEndLosesNothing
<1> QED
  BY <1>1, LinkInvariant, PTL

-----------------------------------------------------------------------------
(* The abstract channel.  Its queue is the part of "sent" after the last    *)
(* decoded frame: what sending adds to it, and what decoding takes from it. *)

LEMMA SendRefines ==
  ASSUME ReceiverInv, NEW f \in Frames, RecordSent(f), UNCHANGED receiverVars
  PROVE  Channel!Put(f)
<1>1. /\ sent' = Append(sent, f) /\ decoded' = decoded /\ bus' = bus
      /\ sent \in Seq(Frames) /\ Len(decoded) \in Nat /\ Len(decoded) <= Len(sent)
  BY DEF RecordSent, receiverVars, ReceiverInv, StreamInv, StreamTypes,
         ReceiverTypes, DecodedSent
<1>2. InFlight' = Append(InFlight, f)
  BY <1>1, SuffixAppend DEF InFlight
<1> QED
  BY <1>1, <1>2 DEF Channel!Put

LEMMA ForwardRefines ==
  ASSUME ReceiverInv, ForwardRecord, UNCHANGED senderVars
  PROVE  Channel!Deliver \/ Channel!Refuse
<1> DEFINE f == sent[Len(decoded) + 1]
<1>1. /\ HasRecord(buf) /\ sent' = sent
      /\ decoded' = Append(decoded, CanFromFrame(NextRecord(buf)))
      /\ bus' \in {Append(bus, CanFromFrame(NextRecord(buf))), bus}
  BY DEF ForwardRecord, ForwardThen, senderVars
<1>2. Len(decoded) < Len(sent)
  BY <1>1, OnlySentRecords
<1>3. CanFromFrame(NextRecord(buf)) = f /\ f \in Frames
  BY <1>1, <1>2, NextToDecode, FramerReturns
<1>4. sent \in Seq(Frames) /\ decoded \in Seq(Frames) /\ Len(decoded) \in Nat
  BY DEF ReceiverInv, StreamInv, StreamTypes, ReceiverTypes
<1>5. InFlight # << >> /\ Head(InFlight) = f
  BY <1>2, <1>4, SuffixHead DEF InFlight
<1>6. InFlight' = Tail(InFlight)
  <2> HIDE DEF f
  <2>1. Len(decoded') = Len(decoded) + 1
    BY <1>1, <1>3, <1>4, AppendProperties
  <2>2. Tail(InFlight) = SubSeq(sent, Len(decoded) + 1 + 1, Len(sent))
    BY <1>2, <1>4, SuffixHead DEF InFlight
  <2> QED
    BY <2>1, <2>2, <1>1 DEF InFlight
<1> HIDE DEF f
<1>7. CASE bus' = bus
  BY <1>5, <1>6, <1>7 DEF Channel!Refuse
<1>8. CASE bus' = Append(bus, f)
  BY <1>5, <1>6, <1>8 DEF Channel!Deliver
<1> QED
  BY <1>1, <1>3, <1>7, <1>8

(* Every step of the link is a step of the channel or invisible to it.      *)
LEMMA StepRefines == IInv /\ [Next]_vars => [Channel!Next]_Channel!channelVars
<1> SUFFICES ASSUME IInv, [Next]_vars
             PROVE  Channel!Next \/ UNCHANGED <<InFlight, bus>>
  BY DEF Channel!channelVars
<1>1. CASE Send
  <2>1. PICK f \in Frames :
          SendRecord(f) \/ \E k \in 0 .. HdrLen + 1 + MaxFd : EndConnection(f, k)
    BY <1>1 DEF Send, SenderStep
  <2>2. UNCHANGED receiverVars
    BY <1>1 DEF Send
  <2>3. CASE SendRecord(f)
    BY <2>2, <2>3, SendRefines DEF Channel!Next, SendRecord, IInv
  <2>4. CASE \E k \in 0 .. HdrLen + 1 + MaxFd : EndConnection(f, k)
    BY <2>2, <2>4 DEF EndConnection, senderVars, receiverVars, InFlight
  <2> QED
    BY <2>1, <2>3, <2>4
<1>2. CASE Receive
  <2>1. UNCHANGED senderVars
    BY <1>2 DEF Receive
  <2>2. CASE ForwardRecord
    BY <2>1, <2>2, ForwardRefines DEF Channel!Next, IInv
  <2>3. CASE RecvChunk \/ RejectRecord \/ NeedMoreBytes \/ RecvEnds
    BY <2>1, <2>3 DEF RecvChunk, RejectRecord, NeedMoreBytes, RecvEnds, senderVars, InFlight
  <2> QED
    BY <1>2, <2>2, <2>3 DEF Receive, ReceiverStep
<1>3. CASE Reconnect
  <2>1. sent' = << >> /\ decoded' = << >> /\ bus' = << >>
    BY <1>3 DEF Reconnect, FreshFramer, EnterLoopWith, SenderReset
  <2>2. InFlight' = << >>
    BY <2>1 DEF InFlight
  <2> QED
    BY <2>1, <2>2 DEF Channel!Next, Channel!Cut
<1>4. CASE UNCHANGED vars
  BY <1>4 DEF vars, receiverVars, senderVars, InFlight
<1> QED
  BY <1>1, <1>2, <1>3, <1>4 DEF Next

(* One direction between two Python bridges is a first-in first-out channel *)
(* that alters, repeats and reorders nothing and forgets its content only   *)
(* when the connection is replaced.                                         *)
THEOREM LinkImplementsChannel == Spec => ImplementsChannel
<1>1. Init => Channel!Init
  BY DEF Init, PyReceiverInit, SenderInit, Channel!Init, InFlight
<1> QED
  BY <1>1, StepRefines, LinkInvariant, PTL DEF Spec, ImplementsChannel, Channel!Spec

-----------------------------------------------------------------------------
(* The ESP32's CAN -> TCP half.  A record is written in three calls of      *)
(* zsock_send; WrittenBefore says how many of its bytes are there already.  *)

UplinkTypes ==
  /\ q \in Seq(Frames) /\ heard \in Seq(Frames)
  /\ short \in BOOLEAN
  /\ snd \in {"drain", "len", "hdr", "data"}
  /\ snd # "drain" => cur \in Frames
  /\ snd = "data" => cur.data # << >>

WrittenBefore(part) ==
  CASE part = "hdr" -> 2 [] part = "data" -> 2 + HdrLen [] OTHER -> 0

PartInPlace ==
  line = "up" =>
    /\ Len(stream) = SentEnd + WrittenBefore(snd)
    /\ \A j \in 1 .. WrittenBefore(snd) : stream[SentEnd + j] = Record(cur)[j]

WholeWrites == ReceiverInv /\ PartInPlace /\ NothingLostInside

UInv == UplinkTypes /\ (~ short => WholeWrites)

(* Where the three writes put their bytes, and what is left to write.       *)
LEMMA FrameParts ==
  ASSUME NEW f \in Frames
  PROVE  /\ IsFrame(f) /\ HdrLen \in Nat /\ HdrLen >= 1
         /\ f.head \in Seq(Byte) /\ f.data \in Seq(Byte)
         /\ Len(f.head) = HdrLen - 1 /\ Len(f.data) \in Nat /\ Len(f.data) < 256
         /\ HdrLen + Len(f.data) \in Nat /\ HdrLen + Len(f.data) < 65536
         /\ RecordLen(f) = 2 + HdrLen + Len(f.data)
<1>1. IsFrame(f)
  BY FrameLen
<1> QED
  BY <1>1, FrameSizes DEF RecordLen

Lies(b, f, n) == b \in Seq(Byte) /\ \A j \in 1 .. Len(b) : b[j] = Record(f)[n + j]

LEMMA LengthLies ==
  ASSUME NEW f \in Frames
  PROVE  /\ Lies(LenField(HdrLen + Len(f.data)), f, 0)
         /\ 0 + Len(LenField(HdrLen + Len(f.data))) = 2
         /\ 2 < RecordLen(f)
<1> DEFINE b == LenField(HdrLen + Len(f.data))
<1>1. b \in Seq(Byte) /\ Len(b) = 2
  BY FrameParts, LenFieldValue
<1>2. Record(f)[0 + 1] = b[1] /\ Record(f)[0 + 2] = b[2]
  BY FrameParts, RecordBytes
<1> HIDE DEF b
<1>3. \A j \in 1 .. 2 : b[j] = Record(f)[0 + j]
  BY <1>2
<1>4. 2 < RecordLen(f)
  BY FrameParts
<1> QED
  BY <1>1, <1>3, <1>4 DEF Lies, b

LEMMA HeaderLies ==
  ASSUME NEW f \in Frames
  PROVE  /\ Lies(Append(f.head, Len(f.data)), f, 2)
         /\ 2 + Len(Append(f.head, Len(f.data))) = 2 + HdrLen
         /\ f.data = << >> => 2 + HdrLen = RecordLen(f)
         /\ f.data # << >> => 2 + HdrLen < RecordLen(f)
<1> DEFINE b == Append(f.head, Len(f.data))
<1>1. /\ HdrLen \in Nat /\ HdrLen >= 1 /\ Len(f.head) = HdrLen - 1
      /\ f.head \in Seq(Byte) /\ f.data \in Seq(Byte) /\ Len(f.data) \in Nat
      /\ Len(f.data) < 256 /\ RecordLen(f) = 2 + HdrLen + Len(f.data)
  BY FrameParts
<1>2. /\ Record(f)[2 + HdrLen] = Len(f.data)
      /\ \A i \in 1 .. HdrLen - 1 : Record(f)[2 + i] = f.head[i]
  BY FrameParts, RecordBytes
<1>3. Len(f.data) \in Byte
  BY <1>1 DEF Byte
<1>4. /\ b \in Seq(Byte) /\ Len(b) = Len(f.head) + 1
      /\ \A i \in 1 .. Len(f.head) : b[i] = f.head[i]
      /\ b[Len(f.head) + 1] = Len(f.data)
  BY <1>1, <1>3, AppendProperties
<1> HIDE DEF b
<1>5. Len(b) = HdrLen
  BY <1>1, <1>4
<1>6. ASSUME NEW j \in 1 .. HdrLen
      PROVE  b[j] = Record(f)[2 + j]
  <2>1. CASE j = HdrLen
    BY <1>1, <1>2, <1>4, <2>1
  <2>2. CASE j # HdrLen
    <3>1. j \in 1 .. HdrLen - 1
      BY <1>1, <2>2
    <3> QED
      BY <1>1, <1>2, <1>4, <3>1
  <2> QED
    BY <2>1, <2>2
<1>7. (f.data = << >> => Len(f.data) = 0) /\ (f.data # << >> => Len(f.data) > 0)
  BY <1>1
<1>8. Lies(b, f, 2)
  BY <1>4, <1>5, <1>6 DEF Lies
<1>9. /\ 2 + Len(b) = 2 + HdrLen
      /\ Len(f.data) = 0 => 2 + HdrLen = RecordLen(f)
      /\ Len(f.data) > 0 => 2 + HdrLen < RecordLen(f)
  <2>1. \A h, n \in Nat : /\ n = 0 => 2 + h = 2 + h + n
                          /\ n > 0 => 2 + h < 2 + h + n
    OBVIOUS
  <2> QED
    BY <1>1, <1>5, <2>1, Zenon
<1> QED
  BY <1>7, <1>8, <1>9, Zenon DEF b

LEMMA DataLies ==
  ASSUME NEW f \in Frames
  PROVE  Lies(f.data, f, 2 + HdrLen) /\ 2 + HdrLen + Len(f.data) = RecordLen(f)
  BY FrameParts, RecordBytes DEF Lies

LEMMA PartLies ==
  ASSUME NEW f \in Frames, NEW p \in {"len", "hdr", "data"}
  PROVE  /\ Lies(Part(p, f), f, WrittenBefore(p))
         /\ AfterPart(p, f) \in {"drain", "hdr", "data"}
         /\ AfterPart(p, f) = "drain" =>
              WrittenBefore(p) + Len(Part(p, f)) = RecordLen(f)
         /\ AfterPart(p, f) # "drain" =>
              /\ WrittenBefore(p) + Len(Part(p, f)) = WrittenBefore(AfterPart(p, f))
              /\ WrittenBefore(AfterPart(p, f)) < RecordLen(f)
         /\ AfterPart(p, f) = "data" => f.data # << >>
<1>1. /\ WrittenBefore("len") = 0 /\ WrittenBefore("hdr") = 2
      /\ WrittenBefore("data") = 2 + HdrLen
  BY DEF WrittenBefore
<1>2. CASE p = "len"
  <2>1. Part(p, f) = LenField(HdrLen + Len(f.data)) /\ AfterPart(p, f) = "hdr"
    BY <1>2 DEF Part, AfterPart
  <2>2. "hdr" # "drain" /\ "hdr" # "data"
    OBVIOUS
  <2> QED
    BY <1>1, <1>2, <2>1, <2>2, LengthLies, Zenon
<1>3. CASE p = "hdr"
  <2>1. Part(p, f) = Append(f.head, Len(f.data))
    BY <1>3 DEF Part
  <2>2. AfterPart(p, f) = IF f.data # << >> THEN "data" ELSE "drain"
    BY <1>3 DEF AfterPart
  <2>3. "data" # "drain"
    OBVIOUS
  <2>4. CASE f.data # << >>
    BY <1>1, <1>3, <2>1, <2>2, <2>3, <2>4, HeaderLies, Zenon
  <2>5. CASE f.data = << >>
    BY <1>1, <1>3, <2>1, <2>2, <2>3, <2>5, HeaderLies, Zenon
  <2> QED
    BY <2>4, <2>5
<1>4. CASE p = "data"
  <2>1. Part(p, f) = f.data /\ AfterPart(p, f) = "drain"
    BY <1>4 DEF Part, AfterPart
  <2>2. "data" # "drain"
    OBVIOUS
  <2> QED
    BY <1>1, <1>4, <2>1, <2>2, DataLies, Zenon
<1> QED
  BY <1>2, <1>3, <1>4, Zenon

(* Taking the first element out and putting it back.                        *)
LEMMA HeadAndTail ==
  ASSUME NEW S, NEW s \in Seq(S), s # << >>
  PROVE  <<Head(s)>> \o Tail(s) = s
<1>1. Len(s) \in Nat /\ 1 \in 1 .. Len(s) /\ Len(s) \in 1 .. Len(s)
  BY EmptySeq
<1>2. SubSeq(s, 1, Len(s)) = <<s[1]>> \o SubSeq(s, 1 + 1, Len(s))
  BY <1>1, SubSeqRecursiveFirst, Zenon
<1>3. 1 + 1 = 2 /\ Head(s) = s[1]
  OBVIOUS
<1>4. SubSeq(s, 1, Len(s)) = s /\ Tail(s) = SubSeq(s, 2, Len(s))
  BY SubSeqFull, TailIsSubSeq, Zenon
<1> QED
  BY <1>2, <1>3, <1>4

(* While no write falls short, the frames on the connection, the one being  *)
(* written and the queue together stay what was heard ...                   *)
LEMMA FrameQueued ==
  ASSUME NEW S, NEW s \in Seq(S), NEW c \in Seq(S), NEW t \in Seq(S), NEW f \in S
  PROVE  s \o c \o Append(t, f) = Append(s \o c \o t, f)
<1>1. s \o c \in Seq(S) /\ s \o c \o t \in Seq(S) /\ <<f>> \in Seq(S)
  BY ConcatProperties
<1>2. Append(t, f) = t \o <<f>> /\ Append(s \o c \o t, f) = (s \o c \o t) \o <<f>>
  BY <1>1, AppendIsConcat, Zenon
<1>3. (s \o c) \o (t \o <<f>>) = ((s \o c) \o t) \o <<f>>
  BY <1>1, ConcatAssociative
<1> QED
  BY <1>2, <1>3, Zenon

LEMMA FrameTaken ==
  ASSUME NEW S, NEW s \in Seq(S), NEW t \in Seq(S), t # << >>
  PROVE  s \o <<Head(t)>> \o Tail(t) = s \o << >> \o t
<1>1. <<Head(t)>> \in Seq(S) /\ Tail(t) \in Seq(S)
  BY HeadTailProperties
<1>2. s \o <<Head(t)>> \o Tail(t) = s \o (<<Head(t)>> \o Tail(t))
  BY <1>1, ConcatAssociative
<1> QED
  BY <1>2, HeadAndTail, ConcatEmptySeq, Zenon

LEMMA FrameFinished ==
  ASSUME NEW S, NEW s \in Seq(S), NEW t \in Seq(S), NEW f \in S
  PROVE  Append(s, f) \o << >> \o t = s \o <<f>> \o t
<1>1. Append(s, f) \in Seq(S) /\ Append(s, f) = s \o <<f>>
  BY AppendProperties, AppendIsConcat, Zenon
<1> QED
  BY <1>1, ConcatEmptySeq, Zenon

LEMMA CanRxCbUInv ==
  ASSUME UInv, NEW f \in Frames, CanRxCb(f), UNCHANGED receiverVars
  PROVE  UInv'
<1>1. /\ q' = Append(q, f) /\ heard' = Append(heard, f)
      /\ UNCHANGED <<cur, snd, short, tcpVars, senderVars>>
  BY DEF CanRxCb, Enqueue
<1>2. q \in Seq(Frames) /\ heard \in Seq(Frames)
  BY DEF UInv, UplinkTypes
<1>3. UplinkTypes'
  BY <1>1, <1>2, AppendProperties DEF UInv, UplinkTypes
<1>4. ASSUME ~ short
      PROVE  WholeWrites'
  <2>1. ReceiverInv' /\ SentEnd' = SentEnd
    BY <1>1, <1>4, ReceiverUnchanged DEF UInv, WholeWrites
  <2>2. PartInPlace'
    BY <1>1, <1>4, <2>1 DEF UInv, WholeWrites, PartInPlace, tcpVars
  <2>3. NothingLostInside'
    <3> DEFINE c == IF snd = "drain" THEN << >> ELSE <<cur>>
    <3>1. sent \in Seq(Frames) /\ c \in Seq(Frames)
      BY <1>4 DEF UInv, UplinkTypes, WholeWrites, ReceiverInv, StreamInv, StreamTypes
    <3>2. line = "up" => heard = sent \o c \o q
      BY <1>4 DEF UInv, WholeWrites, NothingLostInside
    <3>3. sent' = sent /\ c' = c /\ line' = line
      BY <1>1 DEF senderVars, tcpVars
    <3> HIDE DEF c
    <3>4. sent \o c \o Append(q, f) = Append(sent \o c \o q, f)
      BY <1>2, <3>1, FrameQueued
    <3>5. line' = "up" => heard' = sent' \o c' \o q'
      BY <1>1, <3>2, <3>3, <3>4, Zenon
    <3> QED
      BY <3>5 DEF NothingLostInside, c
  <2> QED
    BY <2>1, <2>2, <2>3 DEF WholeWrites
<1> QED
  BY <1>1, <1>3, <1>4 DEF UInv

LEMMA GetFrameUInv ==
  ASSUME UInv, GetFrame, UNCHANGED receiverVars
  PROVE  UInv'
<1>1. /\ snd = "drain" /\ q # << >> /\ cur' = Head(q) /\ q' = Tail(q) /\ snd' = "len"
      /\ UNCHANGED <<heard, short, tcpVars, senderVars>>
  BY DEF GetFrame
<1>2. q \in Seq(Frames)
  BY DEF UInv, UplinkTypes
<1>3. cur' \in Frames /\ q' \in Seq(Frames)
  BY <1>1, <1>2, HeadTailProperties
<1>4. UplinkTypes'
  BY <1>1, <1>3 DEF UInv, UplinkTypes
<1>5. ASSUME ~ short
      PROVE  WholeWrites'
  <2>1. ReceiverInv' /\ SentEnd' = SentEnd
    BY <1>1, <1>5, ReceiverUnchanged DEF UInv, WholeWrites
  <2>2. PartInPlace'
    <3>1. WrittenBefore(snd) = 0 /\ WrittenBefore(snd') = 0
      BY <1>1 DEF WrittenBefore
    <3>2. \A j \in 1 .. 0 : stream[SentEnd + j] = Record(cur')[j]
      OBVIOUS
    <3> QED
      BY <1>1, <1>5, <2>1, <3>1, <3>2 DEF UInv, WholeWrites, PartInPlace, tcpVars
  <2>3. NothingLostInside'
    <3>1. sent \in Seq(Frames) /\ sent' = sent /\ line' = line
      BY <1>1, <1>5 DEF UInv, WholeWrites, ReceiverInv, StreamInv, StreamTypes, senderVars,
                        tcpVars
    <3>2. line = "up" => heard = sent \o << >> \o q
      BY <1>1, <1>5 DEF UInv, WholeWrites, NothingLostInside
    <3>3. sent \o <<cur'>> \o q' = sent \o << >> \o q
      BY <1>1, <1>2, <3>1, FrameTaken
    <3>4. snd' # "drain"
      BY <1>1
    <3> QED
      BY <1>1, <3>1, <3>2, <3>3, <3>4, Zenon DEF NothingLostInside
  <2> QED
    BY <2>1, <2>2, <2>3 DEF WholeWrites
<1> QED
  BY <1>1, <1>4, <1>5 DEF UInv

(* A write that falls short, fails, or meets a dead connection.             *)
LEMMA SendPartShortUInv ==
  ASSUME UInv, SendPartShort
  PROVE  UInv'
<1>1. snd' = "drain" /\ short' = TRUE /\ q' = q /\ heard' = heard
  BY DEF SendPartShort
<1>2. UplinkTypes'
  BY <1>1 DEF UInv, UplinkTypes
<1> QED
  BY <1>1, <1>2 DEF UInv

LEMMA SendPartFailsUInv ==
  ASSUME UInv, SendPartFails, UNCHANGED receiverVars
  PROVE  UInv'
<1>1. /\ line # "up" /\ line' = line /\ snd' = "drain"
      /\ UNCHANGED <<tcpVars, q, cur, heard, short, senderVars>>
  BY DEF SendPartFails, tcpVars
<1>2. UplinkTypes'
  BY <1>1 DEF UInv, UplinkTypes
<1>3. ASSUME ~ short
      PROVE  WholeWrites'
  <2>1. ReceiverInv'
    BY <1>1, <1>3, ReceiverUnchanged DEF UInv, WholeWrites
  <2> QED
    BY <1>1, <2>1 DEF WholeWrites, PartInPlace, NothingLostInside
<1> QED
  BY <1>1, <1>2, <1>3 DEF UInv

(* The connection breaks or is closed.                                      *)
LEMMA EndUInv ==
  ASSUME UInv, ConnectionBreaks \/ MainEnds, UNCHANGED receiverVars
  PROVE  UInv'
<1>1. /\ line = "up" /\ line' \in {"fin", "rst"}
      /\ UNCHANGED <<stream, taken, mainVars, senderVars>>
  BY DEF ConnectionBreaks, MainEnds
<1>2. UplinkTypes'
  BY <1>1 DEF UInv, UplinkTypes, mainVars
<1>3. ASSUME ~ short
      PROVE  WholeWrites'
  <2>1. ReceiverInv /\ StreamInv
    BY <1>3 DEF UInv, WholeWrites, ReceiverInv
  <2>2. StreamInv'
    BY <1>1, <2>1, EndLeavesStream
  <2>3. Len(stream) \in Nat /\ Len(sent) \in Nat
    BY <2>1, SentInside
  <2>4. stream' = stream /\ sent' = sent /\ off' = off
    BY <1>1 DEF senderVars
  <2>5. Len(stream) <= Len(stream) /\ Len(sent) <= Len(sent)
    BY <2>3
  <2>6. ReceiverInv'
    BY <1>1, <2>1, <2>2, <2>3, <2>4, <2>5, ReceiverStays
  <2> QED
    BY <1>1, <2>6 DEF WholeWrites, PartInPlace, NothingLostInside
<1> QED
  BY <1>1, <1>2, <1>3 DEF UInv, mainVars

(* A whole part behind what is there makes a longer beginning of the record.*)
LEMMA PartAppended ==
  ASSUME StreamInv, NEW f \in Frames, NEW b, NEW n \in Nat, Lies(b, f, n),
         stream' = stream \o b, Len(stream) = SentEnd + n,
         \A j \in 1 .. n : stream[SentEnd + j] = Record(f)[j]
  PROVE  /\ b \in Seq(Byte) /\ Len(b) \in Nat
         /\ Len(stream') \in Nat /\ Len(stream) <= Len(stream')
         /\ Len(stream') = SentEnd + (n + Len(b))
         /\ \A j \in 1 .. Len(stream) : stream'[j] = stream[j]
         /\ \A j \in 1 .. n + Len(b) : stream'[SentEnd + j] = Record(f)[j]
<1>1. /\ stream \in Seq(Byte) /\ b \in Seq(Byte) /\ Len(stream) \in Nat /\ Len(b) \in Nat
      /\ SentEnd \in Nat
      /\ \A j \in 1 .. Len(b) : b[j] = Record(f)[n + j]
  BY SentInside DEF Lies
<1>2. /\ Len(stream') = Len(stream) + Len(b)
      /\ \A j \in 1 .. Len(stream) : stream'[j] = stream[j]
      /\ \A j \in 1 .. Len(b) : stream'[Len(stream) + j] = b[j]
  BY <1>1, ConcatBytes
<1>3. /\ Len(stream') \in Nat /\ Len(stream) <= Len(stream')
      /\ Len(stream') = SentEnd + (n + Len(b))
  BY <1>1, <1>2
<1>4. ASSUME NEW j \in 1 .. n + Len(b)
      PROVE  stream'[SentEnd + j] = Record(f)[j]
  <2>1. CASE j <= n
    <3>1. j \in 1 .. n /\ SentEnd + j \in 1 .. Len(stream)
      BY <1>1, <2>1
    <3> QED
      BY <1>2, <3>1
  <2>2. CASE ~ (j <= n)
    <3>1. PICK i \in 1 .. Len(b) : j = n + i
      <4>1. j - n \in 1 .. Len(b) /\ j = n + (j - n)
        BY <1>1, <2>2
      <4> QED
        BY <4>1
    <3>2. SentEnd + j = Len(stream) + i
      BY <1>1, <3>1
    <3> QED
      BY <1>1, <1>2, <3>1, <3>2
  <2> QED
    BY <2>1, <2>2
<1> QED
  BY <1>1, <1>2, <1>3, <1>4

LEMMA SendPartUInv ==
  ASSUME UInv, SendPart, UNCHANGED receiverVars
  PROVE  UInv'
<1> DEFINE b == Part(snd, cur)
           n == WrittenBefore(snd)
<1>1. /\ snd # "drain" /\ line = "up" /\ line' = "up" /\ taken' = taken
      /\ stream' = stream \o b /\ snd' = AfterPart(snd, cur)
      /\ UNCHANGED <<q, cur, heard, short>>
  BY DEF SendPart, WriteBytes
<1>2. /\ snd' = "drain" => RecordSent(cur)
      /\ snd' # "drain" => sent' = sent /\ off' = off
  BY DEF SendPart, senderVars
<1>3. cur \in Frames /\ snd \in {"len", "hdr", "data"} /\ q \in Seq(Frames)
  BY <1>1 DEF UInv, UplinkTypes
<1>4. /\ Lies(b, cur, n)
      /\ snd' \in {"drain", "hdr", "data"}
      /\ snd' = "drain" => n + Len(b) = RecordLen(cur)
      /\ snd' # "drain" => /\ n + Len(b) = WrittenBefore(snd')
                           /\ WrittenBefore(snd') < RecordLen(cur)
      /\ snd' = "data" => cur.data # << >>
  BY <1>1, <1>3, PartLies
<1>5. n \in Nat
  BY FramingAssumption DEF WrittenBefore
<1>6. UplinkTypes'
  BY <1>1, <1>3, <1>4 DEF UInv, UplinkTypes
<1>7. ASSUME ~ short
      PROVE  WholeWrites'
  <2>1. /\ ReceiverInv /\ StreamInv /\ Len(stream) = SentEnd + n
        /\ \A j \in 1 .. n : stream[SentEnd + j] = Record(cur)[j]
    BY <1>1, <1>7 DEF UInv, WholeWrites, ReceiverInv, PartInPlace
  <2> HIDE DEF b, n
  <2>2. /\ b \in Seq(Byte) /\ Len(b) \in Nat
        /\ Len(stream') \in Nat /\ Len(stream) <= Len(stream')
        /\ Len(stream') = SentEnd + (n + Len(b))
        /\ \A j \in 1 .. Len(stream) : stream'[j] = stream[j]
        /\ \A j \in 1 .. n + Len(b) : stream'[SentEnd + j] = Record(cur)[j]
    BY <1>1, <1>3, <1>4, <1>5, <2>1, PartAppended
  <2>3. /\ sent \in Seq(Frames) /\ Len(sent) \in Nat /\ SentEnd \in Nat
        /\ heard = sent \o <<cur>> \o q
    BY <1>1, <1>7, SentInside DEF UInv, WholeWrites, NothingLostInside, ReceiverInv, StreamInv,
                                  StreamTypes
  <2>4. CASE snd' = "drain"
    <3>1. /\ RecordSent(cur) /\ n + Len(b) = RecordLen(cur) /\ sent' = Append(sent, cur)
      BY <1>2, <1>4, <2>4 DEF RecordSent
    <3>2. /\ StreamInv' /\ SentEnd' = Len(stream')
          /\ \A i \in 1 .. Len(off) : off'[i] = off[i]
      BY <1>1, <1>3, <2>1, <2>2, <3>1, RecordWritten
    <3>3. /\ Len(sent') \in Nat /\ Len(sent) <= Len(sent')
          /\ \A i \in 1 .. Len(sent) : sent'[i] = sent[i]
      BY <1>3, <2>3, <3>1, AppendProperties
    <3>4. ReceiverInv'
      BY <1>1, <2>1, <2>2, <3>2, <3>3, ReceiverStays
    <3>5. PartInPlace'
      <4>1. WrittenBefore(snd') = 0
        BY <2>4 DEF WrittenBefore
      <4>2. SentEnd' + 0 = Len(stream') /\ \A j \in 1 .. 0 : stream'[SentEnd' + j] = Record(cur')[j]
        BY <2>2, <3>2
      <4> QED
        BY <4>1, <4>2 DEF PartInPlace
    <3>6. NothingLostInside'
      <4>1. Append(sent, cur) \o << >> \o q = sent \o <<cur>> \o q
        BY <1>3, <2>3, FrameFinished
      <4> QED
        BY <1>1, <2>3, <2>4, <3>1, <4>1, Zenon DEF NothingLostInside
    <3> QED
      BY <3>4, <3>5, <3>6 DEF WholeWrites
  <2>5. CASE snd' # "drain"
    <3>1. /\ sent' = sent /\ off' = off
          /\ n + Len(b) = WrittenBefore(snd') /\ WrittenBefore(snd') < RecordLen(cur)
      BY <1>2, <1>4, <2>5
    <3>2. StreamInv' /\ SentEnd' = SentEnd
      <4>1. Len(stream') < SentEnd + RecordLen(cur) /\ Len(stream') - SentEnd = n + Len(b)
        <5>1. RecordLen(cur) \in Nat /\ n + Len(b) \in Nat /\ n + Len(b) < RecordLen(cur)
          BY <1>3, <1>5, <2>2, <3>1, FrameLen
        <5> QED
          BY <2>2, <2>3, <5>1
      <4>2. \A j \in 1 .. Len(stream') - SentEnd : stream'[SentEnd + j] = Record(cur)[j]
        BY <2>2, <4>1, Zenon
      <4>3. line' \in {"up", "fin", "rst"} /\ UNCHANGED senderVars
        BY <1>1, <3>1 DEF senderVars
      <4> QED
        BY <1>1, <1>3, <2>1, <2>2, <4>1, <4>2, <4>3, PartWritten
    <3>3. Len(sent) <= Len(sent)
      BY <2>3
    <3>4. ReceiverInv'
      BY <1>1, <2>1, <2>2, <2>3, <3>1, <3>2, <3>3, ReceiverStays
    <3>5. PartInPlace'
      BY <1>1, <2>2, <3>1, <3>2, Zenon DEF PartInPlace
    <3>6. NothingLostInside'
      BY <1>1, <2>3, <2>5, <3>1, Zenon DEF NothingLostInside
    <3> QED
      BY <3>4, <3>5, <3>6 DEF WholeWrites
  <2> QED
    BY <2>4, <2>5
<1> QED
  BY <1>1, <1>6, <1>7 DEF UInv

LEMMA PythonReceivesUInv ==
  ASSUME UInv, PythonReceives
  PROVE  UInv'
<1>1. /\ ReceiverStep /\ UNCHANGED <<mainVars, senderVars>>
      /\ UNCHANGED <<stream, line, sent, off, q, cur, snd, heard, short>>
  BY DEF PythonReceives, ReceiverStep, RecvChunk, TakeBytes, ForwardRecord, ForwardThen,
         RejectRecord, NeedMoreBytes, RecvEnds, tcpVars, senderVars, mainVars
<1>2. UplinkTypes'
  BY <1>1 DEF UInv, UplinkTypes
<1>3. ASSUME ~ short
      PROVE  WholeWrites'
  <2>1. ReceiverInv /\ PartInPlace /\ NothingLostInside
    BY <1>3 DEF UInv, WholeWrites
  <2>2. ReceiverInv'
    BY <1>1, <2>1, ReceiverStepKeeps
  <2>3. SentEnd' = SentEnd
    BY <1>1 DEF SentEnd
  <2> QED
    BY <1>1, <2>1, <2>2, <2>3 DEF WholeWrites, PartInPlace, NothingLostInside
<1> QED
  BY <1>1, <1>2, <1>3 DEF UInv

LEMMA RestartUInv ==
  ASSUME Restart
  PROVE  UInv'
<1>1. /\ FreshFramer /\ SenderReset
      /\ q' = << >> /\ snd' = "drain" /\ heard' = << >> /\ short' = FALSE /\ sent' = << >>
  BY DEF Restart, SenderReset
<1>2. UplinkTypes'
  <2>1. << >> \in Seq(Frames) /\ snd' # "data"
    BY <1>1, EmptySeq
  <2> QED
    BY <1>1, <2>1 DEF UplinkTypes
<1>3. ReceiverInv' /\ stream' = << >> /\ SentEnd' = 0
  BY <1>1, ReceiverRestarts
<1>4. PartInPlace'
  <2>1. WrittenBefore(snd') = 0
    BY <1>1 DEF WrittenBefore
  <2>2. Len(stream') = 0 + 0
    BY <1>3
  <2>3. \A j \in 1 .. 0 : stream'[0 + j] = Record(cur')[j]
    OBVIOUS
  <2> QED
    BY <1>3, <2>1, <2>2, <2>3, Zenon DEF PartInPlace
<1>5. NothingLostInside'
  BY <1>1 DEF NothingLostInside
<1> QED
  BY <1>2, <1>3, <1>4, <1>5 DEF UInv, WholeWrites

LEMMA UplinkInitUInv == UplinkInit => UInv
<1> SUFFICES ASSUME UplinkInit PROVE UInv
  OBVIOUS
<1>1. /\ PyReceiverInit /\ SenderInit /\ sent = << >>
      /\ q = << >> /\ snd = "drain" /\ heard = << >> /\ short = FALSE
  BY DEF UplinkInit, SenderInit
<1>2. UplinkTypes
  <2>1. << >> \in Seq(Frames) /\ snd # "data"
    BY <1>1, EmptySeq
  <2> QED
    BY <1>1, <2>1 DEF UplinkTypes
<1>3. ReceiverInv /\ stream = << >> /\ SentEnd = 0
  BY <1>1, ReceiverStarts
<1>4. PartInPlace
  <2>1. WrittenBefore(snd) = 0
    BY <1>1 DEF WrittenBefore
  <2>2. Len(stream) = 0 + 0
    BY <1>3
  <2>3. \A j \in 1 .. 0 : stream[0 + j] = Record(cur)[j]
    OBVIOUS
  <2> QED
    BY <1>3, <2>1, <2>2, <2>3, Zenon DEF PartInPlace
<1>5. NothingLostInside
  BY <1>1 DEF NothingLostInside
<1> QED
  BY <1>2, <1>3, <1>4, <1>5 DEF UInv, WholeWrites

LEMMA UplinkNextUInv == UInv /\ [UplinkNext]_uplinkVars => UInv'
<1> SUFFICES ASSUME UInv, [UplinkNext]_uplinkVars PROVE UInv'
  OBVIOUS
<1>1. CASE Uplink
  <2>1. UNCHANGED receiverVars
    BY <1>1 DEF Uplink
  <2>2. CASE \E f \in Frames : CanRxCb(f)
    BY <2>1, <2>2, CanRxCbUInv
  <2>3. CASE GetFrame
    BY <2>1, <2>3, GetFrameUInv
  <2>4. CASE SendPart
    BY <2>1, <2>4, SendPartUInv
  <2>5. CASE SendPartShort
    BY <2>5, SendPartShortUInv
  <2>6. CASE SendPartFails
    BY <2>1, <2>6, SendPartFailsUInv
  <2>7. CASE ConnectionBreaks \/ MainEnds
    BY <2>1, <2>7, EndUInv
  <2> QED
    BY <1>1, <2>2, <2>3, <2>4, <2>5, <2>6, <2>7 DEF Uplink
<1>2. CASE PythonReceives
  BY <1>2, PythonReceivesUInv
<1>3. CASE Restart
  BY <1>3, RestartUInv
<1>4. CASE UNCHANGED uplinkVars
  <2>1. UNCHANGED <<tcpVars, receiverVars, senderVars, mainVars>>
    BY <1>4 DEF uplinkVars
  <2>2. UplinkTypes'
    BY <2>1 DEF UInv, UplinkTypes, mainVars
  <2>3. ASSUME ~ short
        PROVE  WholeWrites'
    <3>1. ReceiverInv' /\ SentEnd' = SentEnd
      BY <2>1, <2>3, ReceiverUnchanged DEF UInv, WholeWrites
    <3> QED
      BY <2>1, <2>3, <3>1 DEF UInv, WholeWrites, PartInPlace, NothingLostInside, tcpVars,
                              senderVars, mainVars
  <2> QED
    BY <2>1, <2>2, <2>3 DEF UInv, mainVars
<1> QED
  BY <1>1, <1>2, <1>3, <1>4 DEF UplinkNext

(* UInv holds in every reachable state of the ESP32's uplink.               *)
THEOREM UplinkInvariant == UplinkSpec => []UInv
  BY UplinkInitUInv, UplinkNextUInv, PTL DEF UplinkSpec

(* While the connection lives and no write fell short, every frame that     *)
(* can_rx_cb put in the queue is on the connection, in tcp_send_can_frame   *)
(* or in the queue, in the order of reception.                              *)
THEOREM UplinkLosesNothingInside == UplinkSpec => []NothingLostInside
<1>1. UInv => NothingLostInside
  <2>1. CASE short
    BY <2>1 DEF NothingLostInside
  <2>2. CASE ~ short
    BY <2>2 DEF UInv, WholeWrites
  <2> QED
    BY <2>1, <2>2
<1> QED
  BY <1>1, UplinkInvariant, PTL

(* As long as no write fell short the Python side decodes the frames        *)
(* written, in order, and raises ValueError on none, although each record   *)
(* is written in three pieces and read in any number of chunks.             *)
THEOREM UplinkDecodesInOrder == UplinkSpec => []UplinkInOrder
<1>1. ASSUME UInv, ~ short
      PROVE  ReceiverInv
  BY <1>1 DEF UInv, WholeWrites
<1>2. UInv => UplinkInOrder
  BY <1>1, DecodesPrefix, AlwaysWellFormed DEF UplinkInOrder
<1> QED
  BY <1>2, UplinkInvariant, PTL
-----------------------------------------------------------------------------
(* The same abstract channel.                                               *)

(* Every step of the ESP32 and of the Python end is a step of the channel   *)
(* or invisible to it, as long as no write falls short.                     *)
LEMMA UplinkStepRefines ==
  UInv /\ ~ short /\ [UplinkNext]_uplinkVars => [Channel!Next]_Channel!channelVars
<1> SUFFICES ASSUME UInv, ~ short, [UplinkNext]_uplinkVars
             PROVE  Channel!Next \/ UNCHANGED <<InFlight, bus>>
  BY DEF Channel!channelVars
<1>1. ReceiverInv
  BY DEF UInv, WholeWrites
<1>2. CASE Uplink
  <2>1. UNCHANGED receiverVars
    BY <1>2 DEF Uplink
  <2>2. CASE SendPart
    <3>1. CASE snd' = "drain"
      <4>1. RecordSent(cur)
        BY <2>2, <3>1 DEF SendPart
      <4>2. cur \in Frames
        BY <2>2 DEF SendPart, UInv, UplinkTypes
      <4> QED
        BY <1>1, <2>1, <4>1, <4>2, SendRefines DEF Channel!Next
    <3>2. CASE snd' # "drain"
      BY <2>1, <2>2, <3>2 DEF SendPart, senderVars, receiverVars, InFlight
    <3> QED
      BY <3>1, <3>2
  <2>3. CASE ~ SendPart
    <3>1. UNCHANGED senderVars
      BY <1>2, <2>3 DEF Uplink, CanRxCb, Enqueue, GetFrame, SendPartShort, SendPartFails,
                        ConnectionBreaks, MainEnds
    <3> QED
      BY <2>1, <3>1 DEF senderVars, receiverVars, InFlight
  <2> QED
    BY <2>2, <2>3
<1>3. CASE PythonReceives
  <2>1. UNCHANGED senderVars
    BY <1>3 DEF PythonReceives
  <2>2. CASE ForwardRecord
    BY <1>1, <2>1, <2>2, ForwardRefines DEF Channel!Next
  <2>3. CASE RecvChunk \/ RejectRecord \/ NeedMoreBytes \/ RecvEnds
    BY <2>1, <2>3 DEF RecvChunk, RejectRecord, NeedMoreBytes, RecvEnds, senderVars, InFlight
  <2> QED
    BY <1>3, <2>2, <2>3 DEF PythonReceives, ReceiverStep
<1>4. CASE Restart
  <2>1. sent' = << >> /\ decoded' = << >> /\ bus' = << >>
    BY <1>4 DEF Restart, FreshFramer, EnterLoopWith, SenderReset
  <2>2. InFlight' = << >>
    BY <2>1 DEF InFlight
  <2> QED
    BY <2>1, <2>2 DEF Channel!Next, Channel!Cut
<1>5. CASE UNCHANGED uplinkVars
  BY <1>5 DEF uplinkVars, receiverVars, senderVars, InFlight
<1> QED
  BY <1>2, <1>3, <1>4, <1>5 DEF UplinkNext

(* While every zsock_send writes what it is given, the ESP32's sending      *)
(* direction is the same channel as that between two Python bridges, though *)
(* a record comes in three writes.  esp_uplink_short shows that it is none  *)
(* after a write that falls short.                                          *)
THEOREM UplinkImplementsChannel == UplinkSpec /\ [](~ short) => ImplementsChannel
<1>1. UplinkInit => Channel!Init
  BY DEF UplinkInit, PyReceiverInit, SenderInit, Channel!Init, InFlight
<1> QED
  BY <1>1, UplinkStepRefines, UplinkInvariant, PTL DEF UplinkSpec, ImplementsChannel, Channel!Spec
=============================================================================
