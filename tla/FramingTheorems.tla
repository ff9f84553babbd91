-------------------------- MODULE FramingTheorems --------------------------
(***************************************************************************)
(* What the framing functions compute, for every frame and every size of   *)
(* header and payload that FramingAssumption admits, and what a stream     *)
(* looks like that is written record by record.                            *)
(***************************************************************************)
EXTENDS RecordSender, SequenceTheorems, TLAPS

RecordLen(f) == 2 + HdrLen + Len(f.data)

(* The two bytes of the length field give back the number they encode.      *)
LEMMA LenFieldValue ==
  ASSUME NEW n \in Nat, n < 65536
  PROVE  /\ LenField(n) \in Seq(Byte)
         /\ Len(LenField(n)) = 2
         /\ 256 * LenField(n)[1] + LenField(n)[2] = n
<1>1. n \div 256 \in Byte /\ n % 256 \in Byte
  BY DEF Byte
<1>2. 256 * (n \div 256) + (n % 256) = n
  OBVIOUS
<1>3. /\ LenField(n) \in Seq(Byte)
      /\ Len(LenField(n)) = 2
      /\ LenField(n)[1] = n \div 256
      /\ LenField(n)[2] = n % 256
  BY <1>1 DEF LenField
<1> QED
  BY <1>2, <1>3

(* The sizes of a frame's parts.                                            *)
LEMMA FrameSizes ==
  ASSUME NEW f, IsFrame(f)
  PROVE  /\ HdrLen \in Nat /\ HdrLen >= 1 /\ MaxFd \in Nat /\ MaxFd < 256
         /\ f.head \in Seq(Byte) /\ f.data \in Seq(Byte)
         /\ Len(f.head) = HdrLen - 1
         /\ Len(f.data) \in 0 .. MaxFd
         /\ HdrLen + Len(f.data) \in Nat /\ HdrLen + Len(f.data) < 65536
         /\ f = [head |-> f.head, data |-> f.data]
<1>1. HdrLen \in Nat /\ HdrLen >= 1 /\ MaxFd \in Nat /\ MaxFd < 256 /\ HdrLen + MaxFd < 65536
  BY FramingAssumption
<1>2. /\ f.head \in Seq(Byte) /\ f.data \in Seq(Byte)
      /\ Len(f.head) = HdrLen - 1 /\ Len(f.data) <= MaxFd
      /\ f = [head |-> f.head, data |-> f.data]
  BY DEF IsFrame
<1>3. Len(f.data) \in Nat
  BY <1>2
<1> QED
  BY <1>1, <1>2, <1>3

(* Concatenation keeps the bytes of both parts.                             *)
LEMMA ConcatBytes ==
  ASSUME NEW s \in Seq(Byte), NEW t \in Seq(Byte)
  PROVE  /\ s \o t \in Seq(Byte)
         /\ Len(s \o t) = Len(s) + Len(t)
         /\ \A i \in 1 .. Len(s) : (s \o t)[i] = s[i]
         /\ \A i \in 1 .. Len(t) : (s \o t)[Len(s) + i] = t[i]
  OBVIOUS

(* Cutting out of s the place where t lies gives t.                         *)
LEMMA CutOut ==
  ASSUME NEW s \in Seq(Byte), NEW t \in Seq(Byte), NEW m \in Nat,
         m + Len(t) <= Len(s),
         \A i \in 1 .. Len(t) : s[m + i] = t[i]
  PROVE  SubSeq(s, m + 1, m + Len(t)) = t
<1> DEFINE u == SubSeq(s, m + 1, m + Len(t))
<1>1. /\ u \in Seq(Byte)
      /\ Len(u) = Len(t)
      /\ \A i \in 1 .. Len(t) : u[i] = s[m + i]
  OBVIOUS
<1> HIDE DEF u
<1>2. \A i \in 1 .. Len(u) : u[i] = t[i]
  BY <1>1
<1>3. u = t
  BY <1>1, <1>2, SeqEqual, Zenon
<1> QED
  BY <1>3 DEF u

(* The bytes of a record, one by one: the length field says how many bytes *)
(* follow it, the last header byte how many of them are data.              *)
LEMMA RecordBytes ==
  ASSUME NEW f, IsFrame(f)
  PROVE  /\ Record(f) \in Seq(Byte)
         /\ Len(Record(f)) = RecordLen(f)
         /\ 256 * Record(f)[1] + Record(f)[2] = HdrLen + Len(f.data)
         /\ Record(f)[1] = LenField(HdrLen + Len(f.data))[1]
         /\ Record(f)[2] = LenField(HdrLen + Len(f.data))[2]
         /\ \A i \in 1 .. HdrLen - 1 : Record(f)[2 + i] = f.head[i]
         /\ Record(f)[2 + HdrLen] = Len(f.data)
         /\ \A i \in 1 .. Len(f.data) : Record(f)[2 + HdrLen + i] = f.data[i]
<1> DEFINE A == LenField(HdrLen + Len(f.data))
           B == A \o f.head
           C == B \o <<Len(f.data)>>
           R == C \o f.data
<1>1. /\ HdrLen \in Nat /\ HdrLen >= 1
      /\ f.head \in Seq(Byte) /\ f.data \in Seq(Byte)
      /\ Len(f.head) = HdrLen - 1
      /\ Len(f.data) \in Nat /\ Len(f.data) < 256
      /\ HdrLen + Len(f.data) \in Nat /\ HdrLen + Len(f.data) < 65536
  BY FrameSizes
<1>2. /\ A \in Seq(Byte) /\ Len(A) = 2
      /\ 256 * A[1] + A[2] = HdrLen + Len(f.data)
  BY <1>1, LenFieldValue
<1>3. /\ <<Len(f.data)>> \in Seq(Byte)
      /\ Len(<<Len(f.data)>>) = 1
      /\ <<Len(f.data)>>[1] = Len(f.data)
  <2>1. Len(f.data) \in Byte
    BY <1>1 DEF Byte
  <2> QED
    BY <2>1
<1> HIDE DEF A
<1>4. /\ B \in Seq(Byte) /\ Len(B) = Len(A) + Len(f.head)
      /\ \A i \in 1 .. Len(A) : B[i] = A[i]
      /\ \A i \in 1 .. Len(f.head) : B[Len(A) + i] = f.head[i]
  <2>1. A \in Seq(Byte)
    BY <1>2
  <2>2. f.head \in Seq(Byte)
    BY <1>1
  <2> QED
    BY <2>1, <2>2, ConcatBytes, Zenon
<1> HIDE DEF B
<1>5. /\ C \in Seq(Byte) /\ Len(C) = Len(B) + Len(<<Len(f.data)>>)
      /\ \A i \in 1 .. Len(B) : C[i] = B[i]
      /\ \A i \in 1 .. Len(<<Len(f.data)>>) : C[Len(B) + i] = <<Len(f.data)>>[i]
  <2>1. B \in Seq(Byte)
    BY <1>4
  <2>2. <<Len(f.data)>> \in Seq(Byte)
    BY <1>3
  <2> QED
    BY <2>1, <2>2, ConcatBytes, Zenon
<1> HIDE DEF C
<1>6. /\ R \in Seq(Byte) /\ Len(R) = Len(C) + Len(f.data)
      /\ \A i \in 1 .. Len(C) : R[i] = C[i]
      /\ \A i \in 1 .. Len(f.data) : R[Len(C) + i] = f.data[i]
  <2>1. C \in Seq(Byte)
    BY <1>5
  <2>2. f.data \in Seq(Byte)
    BY <1>1
  <2> QED
    BY <2>1, <2>2, ConcatBytes, Zenon
<1>7. Record(f) = R
  BY DEF Record, A, B, C
<1> HIDE DEF R
<1>8. Len(B) = 1 + HdrLen /\ Len(C) = 2 + HdrLen
  BY <1>1, <1>2, <1>3, <1>4, <1>5
<1>9. C[2 + HdrLen] = Len(f.data)
  <2>1. C[Len(B) + 1] = <<Len(f.data)>>[1]
    <3>1. 1 \in 1 .. Len(<<Len(f.data)>>)
      BY <1>3
    <3> QED
      BY <3>1, <1>5
  <2>2. Len(B) + 1 = 2 + HdrLen
    BY <1>1, <1>8
  <2> QED
    BY <2>1, <2>2, <1>3
<1>10. /\ R[1] = A[1] /\ R[2] = A[2] /\ R[2 + HdrLen] = Len(f.data)
  <2>1. /\ 1 \in 1 .. Len(B) /\ 2 \in 1 .. Len(B)
        /\ 1 \in 1 .. Len(C) /\ 2 \in 1 .. Len(C) /\ 2 + HdrLen \in 1 .. Len(C)
    BY <1>1, <1>8
  <2>2. B[1] = A[1] /\ B[2] = A[2]
    <3>1. 1 \in 1 .. Len(A) /\ 2 \in 1 .. Len(A)
      BY <1>2
    <3> QED
      BY <3>1, <1>4
  <2>3. C[1] = B[1] /\ C[2] = B[2]
    BY <2>1, <1>5
  <2>4. R[1] = C[1] /\ R[2] = C[2] /\ R[2 + HdrLen] = C[2 + HdrLen]
    BY <2>1, <1>6
  <2> QED
    BY <2>2, <2>3, <2>4, <1>9
<1>11. ASSUME NEW i \in 1 .. HdrLen - 1
       PROVE  R[2 + i] = f.head[i]
  <2>1. /\ i \in 1 .. Len(f.head)
        /\ 2 + i \in 1 .. Len(B) /\ 2 + i \in 1 .. Len(C)
    BY <1>1, <1>8
  <2>2. R[2 + i] = B[2 + i]
    BY <2>1, <1>5, <1>6
  <2>3. B[2 + i] = f.head[i]
    <3>1. B[Len(A) + i] = f.head[i]
      BY <2>1, <1>4
    <3> QED
      BY <3>1, <1>2
  <2> QED
    BY <2>2, <2>3
<1>12. \A i \in 1 .. Len(f.data) : R[2 + HdrLen + i] = f.data[i]
  BY <1>6, <1>8
<1>13. Len(R) = 2 + HdrLen + Len(f.data)
  BY <1>6, <1>8
<1>14. 256 * R[1] + R[2] = HdrLen + Len(f.data)
  BY <1>2, <1>10
<1> QED
  BY <1>6, <1>7, <1>10, <1>11, <1>12, <1>13, <1>14 DEF RecordLen, A

-----------------------------------------------------------------------------
(* A buffer that agrees with a record as far as either goes.                *)
StartsRecord(b, f) ==
  /\ b \in Seq(Byte)
  /\ \A i \in 1 .. Len(b) : i <= RecordLen(f) => b[i] = Record(f)[i]

(* The framer sees a record exactly when all of its bytes have arrived.     *)
LEMMA FramerWaits ==
  ASSUME NEW f, IsFrame(f), NEW b, StartsRecord(b, f)
  PROVE  /\ HasRecord(b) <=> Len(b) >= RecordLen(f)
         /\ Len(b) >= 2 => Length(b) = HdrLen + Len(f.data)
<1>1. /\ RecordLen(f) \in Nat /\ RecordLen(f) >= 2
      /\ RecordLen(f) = 2 + (HdrLen + Len(f.data))
      /\ Len(b) \in Nat
  BY FrameSizes DEF RecordLen, StartsRecord
<1>2. ASSUME Len(b) >= 2
      PROVE  Length(b) = HdrLen + Len(f.data)
  <2>1. b[1] = Record(f)[1] /\ b[2] = Record(f)[2]
    BY <1>1, <1>2 DEF StartsRecord
  <2> QED
    BY <2>1, RecordBytes DEF Length
<1>3. CASE Len(b) >= 2
  BY <1>1, <1>2, <1>3 DEF HasRecord
<1>4. CASE ~ (Len(b) >= 2)
  BY <1>1, <1>4 DEF HasRecord
<1> QED
  BY <1>2, <1>3, <1>4

(* What the framer then returns is accepted by can_from_frame and is the    *)
(* frame that was packed, and what stays in the buffer begins after it.     *)
LEMMA FramerReturns ==
  ASSUME NEW f, IsFrame(f), NEW b, StartsRecord(b, f), HasRecord(b)
  PROVE  /\ WellFormed(NextRecord(b))
         /\ CanFromFrame(NextRecord(b)) = f
         /\ AfterRecord(b) = SubSeq(b, RecordLen(f) + 1, Len(b))
<1> DEFINE n == HdrLen + Len(f.data)
           r == NextRecord(b)
<1>1. /\ HdrLen \in Nat /\ HdrLen >= 1
      /\ MaxFd \in Nat
      /\ f.head \in Seq(Byte) /\ f.data \in Seq(Byte)
      /\ Len(f.head) = HdrLen - 1
      /\ Len(f.data) \in Nat /\ Len(f.data) <= MaxFd
      /\ f = [head |-> f.head, data |-> f.data]
  BY FrameSizes
<1>2. /\ Len(b) \in Nat /\ Len(b) >= 2 + n /\ Length(b) = n
      /\ RecordLen(f) = 2 + n /\ n \in Nat
  BY <1>1, FramerWaits DEF StartsRecord, RecordLen
<1>3. AfterRecord(b) = SubSeq(b, RecordLen(f) + 1, Len(b))
  <2>1. 3 + n = RecordLen(f) + 1
    BY <1>1, <1>2
  <2> QED
    BY <2>1, <1>2 DEF AfterRecord
<1>4. /\ r \in Seq(Byte) /\ Len(r) = n
      /\ \A i \in 1 .. n : r[i] = b[2 + i]
  <2>1. r = SubSeq(b, 3, 2 + n)
    BY <1>2 DEF NextRecord
  <2> HIDE DEF r, n
  <2>2. b \in Seq(Byte)
    BY DEF StartsRecord
  <2>3. SubSeq(b, 3, 2 + n) \in Seq(Byte) /\ Len(SubSeq(b, 3, 2 + n)) = n
    BY <2>2, <1>2
  <2>4. \A i \in 1 .. n : SubSeq(b, 3, 2 + n)[i] = b[2 + i]
    BY <2>2, <1>2
  <2> QED
    BY <2>1, <2>3, <2>4
<1> HIDE DEF r
<1>5. \A i \in 1 .. n : r[i] = Record(f)[2 + i]
  <2>1. ASSUME NEW i \in 1 .. n
        PROVE  b[2 + i] = Record(f)[2 + i]
    BY <1>2 DEF StartsRecord
  <2> QED
    BY <2>1, <1>4
<1>6. r[HdrLen] = Len(f.data)
  <2>1. HdrLen \in 1 .. n
    BY <1>1
  <2> QED
    BY <2>1, <1>5, RecordBytes
<1>7. WellFormed(r)
  BY <1>1, <1>4, <1>6 DEF WellFormed
<1>8. SubSeq(r, 1, HdrLen - 1) = f.head
  <2>1. ASSUME NEW i \in 1 .. HdrLen - 1
        PROVE  r[i] = f.head[i]
    <3>1. i \in 1 .. n
      BY <1>1
    <3> QED
      BY <3>1, <1>5, RecordBytes
  <2>2. 0 + Len(f.head) <= Len(r) /\ 0 + 1 = 1 /\ 0 + Len(f.head) = HdrLen - 1
    BY <1>1, <1>4
  <2>3. \A i \in 1 .. Len(f.head) : r[0 + i] = f.head[i]
    BY <2>1, <1>1
  <2>4. SubSeq(r, 0 + 1, 0 + Len(f.head)) = f.head
    BY <2>2, <2>3, <1>1, <1>4, CutOut
  <2> QED
    BY <2>2, <2>4
<1>9. SubSeq(r, HdrLen + 1, HdrLen + r[HdrLen]) = f.data
  <2>1. ASSUME NEW i \in 1 .. Len(f.data)
        PROVE  r[HdrLen + i] = f.data[i]
    <3>1. HdrLen + i \in 1 .. n /\ 2 + (HdrLen + i) = 2 + HdrLen + i
      BY <1>1
    <3>2. r[HdrLen + i] = Record(f)[2 + (HdrLen + i)]
      BY <3>1, <1>5
    <3> QED
      BY <3>1, <3>2, RecordBytes
  <2>2. HdrLen + Len(f.data) <= Len(r)
    BY <1>1, <1>4
  <2>3. SubSeq(r, HdrLen + 1, HdrLen + Len(f.data)) = f.data
    BY <2>1, <2>2, <1>1, <1>4, CutOut
  <2> QED
    BY <2>3, <1>6
<1>10. CanFromFrame(r) = f
  BY <1>1, <1>8, <1>9 DEF CanFromFrame
<1> QED
  BY <1>3, <1>7, <1>10 DEF r

-----------------------------------------------------------------------------
(* A stream of records.  Every sent record lies at its place, and what      *)
(* follows the last one is a proper beginning of a record.                  *)

SentEnd == off[Len(sent) + 1]          \* where the last complete record ends

StreamTypes ==
  /\ stream \in Seq(Byte) /\ line \in {"up", "fin", "rst"}
  /\ sent \in Seq(Frames)
  /\ off \in Seq(Nat) /\ Len(off) = Len(sent) + 1
  /\ \A i \in 1 .. Len(off) : off[i] <= Len(stream)

RecordsInPlace ==
  \A i \in 1 .. Len(sent) :
    /\ off[i + 1] = off[i] + RecordLen(sent[i])
    /\ \A j \in 1 .. RecordLen(sent[i]) : stream[off[i] + j] = Record(sent[i])[j]

TornBy(f) ==
  /\ Len(stream) < SentEnd + RecordLen(f)
  /\ \A j \in 1 .. Len(stream) - SentEnd : stream[SentEnd + j] = Record(f)[j]

TornTail == Len(stream) = SentEnd \/ \E f \in Frames : TornBy(f)

StreamInv == StreamTypes /\ RecordsInPlace /\ TornTail

LEMMA FrameLen ==
  ASSUME NEW f \in Frames
  PROVE  /\ IsFrame(f) /\ Len(f.data) \in Nat
         /\ RecordLen(f) \in Nat /\ RecordLen(f) >= 2
         /\ RecordLen(f) = 2 + (HdrLen + Len(f.data))
         /\ HdrLen + Len(f.data) \in Nat /\ HdrLen + Len(f.data) >= HdrLen
         /\ Record(f) \in Seq(Byte) /\ Len(Record(f)) = RecordLen(f)
  BY FramesAssumption, RecordBytes, FrameSizes DEF RecordLen

LEMMA WithinBound ==
  ASSUME NEW a \in Nat, NEW n \in Nat, NEW l \in Nat, a + n <= l,
         NEW j \in 1 .. n
  PROVE  a + j \in 1 .. l
  OBVIOUS

LEMMA SentInside ==
  ASSUME StreamInv
  PROVE  /\ stream \in Seq(Byte) /\ Len(stream) \in Nat
         /\ Len(sent) \in Nat /\ Len(sent) + 1 \in 1 .. Len(off)
         /\ SentEnd \in Nat /\ SentEnd <= Len(stream)
  BY DEF StreamInv, StreamTypes, SentEnd

(* Bytes written behind those already there do not disturb the records in   *)
(* place.                                                                   *)
LEMMA WriteKeeps ==
  ASSUME StreamInv, NEW b \in Seq(Byte), stream' = stream \o b,
         \A i \in 1 .. Len(off) : off'[i] = off[i]
  PROVE  /\ stream' \in Seq(Byte) /\ Len(stream') = Len(stream) + Len(b)
         /\ \A j \in 1 .. Len(stream) : stream'[j] = stream[j]
         /\ \A j \in 1 .. Len(b) : stream'[Len(stream) + j] = b[j]
         /\ \A i \in 1 .. Len(sent) :
              /\ off'[i + 1] = off'[i] + RecordLen(sent[i])
              /\ \A j \in 1 .. RecordLen(sent[i]) :
                   stream'[off'[i] + j] = Record(sent[i])[j]
<1>1. /\ stream \in Seq(Byte) /\ Len(stream) \in Nat
      /\ Len(sent) \in Nat /\ off \in Seq(Nat) /\ Len(off) = Len(sent) + 1
  BY DEF StreamInv, StreamTypes
<1>2. /\ stream' \in Seq(Byte) /\ Len(stream') = Len(stream) + Len(b)
      /\ \A j \in 1 .. Len(stream) : stream'[j] = stream[j]
      /\ \A j \in 1 .. Len(b) : stream'[Len(stream) + j] = b[j]
  BY <1>1, ConcatBytes
<1>3. ASSUME NEW i \in 1 .. Len(sent)
      PROVE  /\ off'[i + 1] = off'[i] + RecordLen(sent[i])
             /\ \A j \in 1 .. RecordLen(sent[i]) :
                  stream'[off'[i] + j] = Record(sent[i])[j]
  <2>1. i \in 1 .. Len(off) /\ i + 1 \in 1 .. Len(off)
    BY <1>1
  <2>2. off[i] \in Nat /\ off[i + 1] \in Nat /\ off[i + 1] <= Len(stream)
    BY <1>1, <2>1, ElementOfSeq DEF StreamInv, StreamTypes
  <2>3. off[i + 1] = off[i] + RecordLen(sent[i])
    BY DEF StreamInv, RecordsInPlace
  <2>4. RecordLen(sent[i]) \in Nat
    <3>1. sent[i] \in Frames
      BY DEF StreamInv, StreamTypes
    <3>. QED
      BY <3>1, FrameLen
  <2>5. ASSUME NEW j \in 1 .. RecordLen(sent[i])
        PROVE  stream'[off[i] + j] = Record(sent[i])[j]
    <3>1. off[i] + j \in 1 .. Len(stream)
      <4>1. off[i] + RecordLen(sent[i]) <= Len(stream)
        BY <2>2, <2>3, Zenon
      <4>. QED
        BY <1>1, <2>2, <2>4, <4>1, WithinBound, Zenon
    <3>2. stream[off[i] + j] = Record(sent[i])[j]
      BY DEF StreamInv, RecordsInPlace
    <3>. QED
      BY <1>2, <3>1, <3>2
  <2>. QED
    BY <2>1, <2>3, <2>5
<1>. QED
  BY <1>2, <1>3

(* A write in the middle of f's record leaves a torn tail.                  *)
LEMMA PartWritten ==
  ASSUME StreamInv, NEW f \in Frames, NEW b \in Seq(Byte), stream' = stream \o b,
         line' \in {"up", "fin", "rst"}, UNCHANGED senderVars,
         Len(stream') < SentEnd + RecordLen(f),
         \A j \in 1 .. Len(stream') - SentEnd : stream'[SentEnd + j] = Record(f)[j]
  PROVE  StreamInv' /\ SentEnd' = SentEnd
<1>1. sent' = sent /\ off' = off /\ SentEnd' = SentEnd
  BY DEF senderVars, SentEnd
<1>2. /\ stream' \in Seq(Byte) /\ Len(stream') = Len(stream) + Len(b)
      /\ \A i \in 1 .. Len(sent) :
           /\ off'[i + 1] = off'[i] + RecordLen(sent[i])
           /\ \A j \in 1 .. RecordLen(sent[i]) :
                stream'[off'[i] + j] = Record(sent[i])[j]
  BY <1>1, WriteKeeps
<1>3. StreamTypes'
  <2>1. Len(stream) <= Len(stream') /\ Len(stream) \in Nat /\ Len(stream') \in Nat
    BY <1>2, SentInside
  <2>2. \A i \in 1 .. Len(off) : off[i] \in Nat /\ off[i] <= Len(stream')
    BY <2>1 DEF StreamInv, StreamTypes
  <2>. QED
    BY <1>1, <1>2, <2>2 DEF StreamInv, StreamTypes
<1>4. RecordsInPlace'
  BY <1>1, <1>2 DEF RecordsInPlace
<1>5. TornTail'
  BY <1>1 DEF TornTail, TornBy
<1>. QED
  BY <1>1, <1>3, <1>4, <1>5 DEF StreamInv

(* The write that completes f's record puts it in place.                    *)
LEMMA RecordWritten ==
  ASSUME StreamInv, NEW f \in Frames, NEW b \in Seq(Byte), stream' = stream \o b,
         line' \in {"up", "fin", "rst"}, RecordSent(f),
         Len(stream') = SentEnd + RecordLen(f),
         \A j \in 1 .. RecordLen(f) : stream'[SentEnd + j] = Record(f)[j]
  PROVE  /\ StreamInv' /\ SentEnd' = Len(stream')
         /\ \A i \in 1 .. Len(off) : off'[i] = off[i]
<1>. DEFINE n == Len(sent) + 1
<1>1. /\ sent' = Append(sent, f) /\ off' = Append(off, Len(stream'))
      /\ sent \in Seq(Frames) /\ Len(sent) \in Nat /\ off \in Seq(Nat)
      /\ Len(off) = n /\ n \in Nat /\ off[n] = SentEnd
      /\ Len(stream) \in Nat /\ SentEnd \in Nat /\ RecordLen(f) \in Nat
  BY SentInside, FrameLen DEF RecordSent, StreamInv, StreamTypes, SentEnd
<1>2. Len(stream') \in Nat
  BY <1>1
<1>3. /\ sent' \in Seq(Frames) /\ Len(sent') = n /\ sent'[n] = f
      /\ \A i \in 1 .. Len(sent) : sent'[i] = sent[i]
  BY <1>1, AppendProperties
<1>4. /\ off' \in Seq(Nat) /\ Len(off') = n + 1 /\ off'[n + 1] = Len(stream')
      /\ \A i \in 1 .. n : off'[i] = off[i]
  BY <1>1, <1>2, AppendProperties
<1>5. /\ stream' \in Seq(Byte) /\ Len(stream') = Len(stream) + Len(b)
      /\ \A i \in 1 .. Len(sent) :
           /\ off'[i + 1] = off'[i] + RecordLen(sent[i])
           /\ \A j \in 1 .. RecordLen(sent[i]) :
                stream'[off'[i] + j] = Record(sent[i])[j]
  BY <1>1, <1>4, WriteKeeps
<1>6. SentEnd' = Len(stream')
  BY <1>3, <1>4 DEF SentEnd
<1>7. StreamTypes'
  <2>1. ASSUME NEW i \in 1 .. Len(off')
        PROVE  off'[i] <= Len(stream')
    <3>1. CASE i = n + 1
      BY <1>1, <1>2, <1>4, <3>1
    <3>2. CASE i # n + 1
      <4>1. i \in 1 .. n
        BY <1>1, <1>4, <3>2
      <4>2. off'[i] = off[i] /\ off[i] <= Len(stream) /\ off[i] \in Nat
        BY <1>1, <1>4, <4>1 DEF StreamInv, StreamTypes
      <4>3. Len(stream) <= Len(stream')
        BY <1>1, <1>2, <1>5
      <4>. QED
        BY <1>1, <1>2, <4>2, <4>3
    <3>. QED
      BY <3>1, <3>2
  <2>. QED
    BY <1>1, <1>3, <1>4, <1>5, <2>1 DEF StreamTypes
<1>8. RecordsInPlace'
  <2>1. ASSUME NEW i \in 1 .. Len(sent')
        PROVE  /\ off'[i + 1] = off'[i] + RecordLen(sent'[i])
               /\ \A j \in 1 .. RecordLen(sent'[i]) :
                    stream'[off'[i] + j] = Record(sent'[i])[j]
    <3>1. CASE i = n
      <4>1. sent'[i] = f /\ off'[i] = SentEnd /\ off'[i + 1] = SentEnd + RecordLen(f)
        BY <1>1, <1>3, <1>4, <3>1
      <4>. QED
        BY <4>1
    <3>2. CASE i # n
      <4>1. i \in 1 .. Len(sent)
        BY <1>1, <1>3, <3>2
      <4>2. sent'[i] = sent[i]
        BY <1>3, <4>1
      <4>. HIDE DEF n
      <4>. QED
        BY <1>5, <4>1, <4>2
    <3>. QED
      BY <3>1, <3>2
  <2>. QED
    BY <2>1 DEF RecordsInPlace
<1>9. TornTail'
  BY <1>6 DEF TornTail
<1>. QED
  BY <1>1, <1>4, <1>6, <1>7, <1>8, <1>9 DEF StreamInv

LEMMA StreamStays ==
  ASSUME StreamInv, UNCHANGED <<stream, line, senderVars>>
  PROVE  StreamInv' /\ SentEnd' = SentEnd
  BY DEF StreamInv, StreamTypes, RecordsInPlace, TornTail, TornBy, SentEnd, senderVars

(* The end of the connection leaves what was written alone.                 *)
LEMMA EndLeavesStream ==
  ASSUME StreamInv, UNCHANGED <<stream, senderVars>>, line' \in {"fin", "rst"}
  PROVE  StreamInv' /\ SentEnd' = SentEnd
  BY DEF StreamInv, StreamTypes, RecordsInPlace, TornTail, TornBy, SentEnd, senderVars

(* A connection on which nothing was written.                               *)
LEMMA NothingWritten ==
  ASSUME stream' = << >>, line' \in {"up", "fin", "rst"}, sent' = << >>, off' = << 0 >>
  PROVE  StreamInv' /\ SentEnd' = 0
  BY DEF StreamInv, StreamTypes, RecordsInPlace, TornTail, SentEnd

-----------------------------------------------------------------------------
(* RecordSender writes whole records while its connection lives.            *)
SenderInv == StreamInv /\ (line = "up" => Len(stream) = SentEnd)

LEMMA SendRecordKeeps ==
  ASSUME SenderInv, NEW f \in Frames, SendRecord(f)
  PROVE  /\ SenderInv' /\ line = "up" /\ line' = "up" /\ taken' = taken
         /\ sent' = Append(sent, f)
         /\ Len(stream') \in Nat /\ Len(stream) <= Len(stream')
         /\ \A j \in 1 .. Len(stream) : stream'[j] = stream[j]
         /\ \A i \in 1 .. Len(off) : off'[i] = off[i]
<1>1. /\ line = "up" /\ line' = "up" /\ taken' = taken
      /\ stream' = stream \o Record(f) /\ RecordSent(f) /\ sent' = Append(sent, f)
  BY DEF SendRecord, WriteBytes, RecordSent
<1>2. /\ Record(f) \in Seq(Byte) /\ Len(Record(f)) = RecordLen(f) /\ RecordLen(f) \in Nat
  BY FrameLen
<1>3. StreamInv /\ stream \in Seq(Byte) /\ Len(stream) \in Nat /\ Len(stream) = SentEnd
  BY <1>1, SentInside DEF SenderInv
<1>4. /\ Len(stream') = Len(stream) + Len(Record(f))
      /\ \A j \in 1 .. Len(stream) : stream'[j] = stream[j]
      /\ \A j \in 1 .. Len(Record(f)) : stream'[Len(stream) + j] = Record(f)[j]
  BY <1>1, <1>2, <1>3, ConcatBytes
<1>5. /\ Len(stream') = SentEnd + RecordLen(f)
      /\ \A j \in 1 .. RecordLen(f) : stream'[SentEnd + j] = Record(f)[j]
  BY <1>2, <1>3, <1>4
<1>6. /\ StreamInv' /\ SentEnd' = Len(stream')
      /\ \A i \in 1 .. Len(off) : off'[i] = off[i]
  BY <1>1, <1>2, <1>3, <1>5, RecordWritten
<1>7. Len(stream') \in Nat /\ Len(stream) <= Len(stream')
  BY <1>2, <1>3, <1>4
<1>. QED
  BY <1>1, <1>4, <1>6, <1>7 DEF SenderInv

LEMMA EndConnectionKeeps ==
  ASSUME SenderInv, NEW f \in Frames, NEW k, EndConnection(f, k)
  PROVE  /\ SenderInv' /\ line = "up" /\ line' \in {"fin", "rst"} /\ taken' = taken
         /\ UNCHANGED senderVars
         /\ Len(stream') \in Nat /\ Len(stream) <= Len(stream')
         /\ \A j \in 1 .. Len(stream) : stream'[j] = stream[j]
<1>. DEFINE b == SubSeq(Record(f), 1, k)
<1>1. /\ line = "up" /\ line' \in {"fin", "rst"} /\ taken' = taken /\ UNCHANGED senderVars
      /\ stream' = stream \o b /\ k \in 0 .. Len(Record(f)) - 1
  BY DEF EndConnection, WriteBytes
<1>2. /\ Record(f) \in Seq(Byte) /\ Len(Record(f)) = RecordLen(f) /\ RecordLen(f) \in Nat
  BY FrameLen
<1>3. /\ b \in Seq(Byte) /\ Len(b) = k /\ k \in Nat /\ k < RecordLen(f)
      /\ \A j \in 1 .. k : b[j] = Record(f)[j]
  BY <1>1, <1>2
<1>. HIDE DEF b
<1>4. StreamInv /\ stream \in Seq(Byte) /\ Len(stream) \in Nat /\ Len(stream) = SentEnd
  BY <1>1, SentInside DEF SenderInv
<1>5. /\ Len(stream') = Len(stream) + Len(b)
      /\ \A j \in 1 .. Len(stream) : stream'[j] = stream[j]
      /\ \A j \in 1 .. Len(b) : stream'[Len(stream) + j] = b[j]
  BY <1>1, <1>3, <1>4, ConcatBytes
<1>6. /\ Len(stream') < SentEnd + RecordLen(f)
      /\ \A j \in 1 .. Len(stream') - SentEnd : stream'[SentEnd + j] = Record(f)[j]
  BY <1>2, <1>3, <1>4, <1>5
<1>7. StreamInv'
  BY <1>1, <1>3, <1>4, <1>6, PartWritten
<1>8. Len(stream') \in Nat /\ Len(stream) <= Len(stream')
  BY <1>3, <1>4, <1>5
<1>. QED
  BY <1>1, <1>5, <1>7, <1>8 DEF SenderInv

-----------------------------------------------------------------------------
(* The part of a sequence behind its first d elements: the queue of the     *)
(* abstract channel.  What is sent comes in at its end, and what is decoded *)
(* is taken from its beginning.                                             *)

LEMMA SuffixAppend ==
  ASSUME NEW S, NEW s \in Seq(S), NEW e \in S, NEW d \in Nat, d <= Len(s)
  PROVE  SubSeq(Append(s, e), d + 1, Len(Append(s, e)))
           = Append(SubSeq(s, d + 1, Len(s)), e)
<1> DEFINE a == Append(s, e)
           l == SubSeq(a, d + 1, Len(s) + 1)
           x == SubSeq(s, d + 1, Len(s))
           r == Append(x, e)
<1>1. /\ a \in Seq(S) /\ Len(a) = Len(s) + 1 /\ a[Len(s) + 1] = e
      /\ \A i \in 1 .. Len(s) : a[i] = s[i]
      /\ Len(s) \in Nat
  BY AppendProperties
<1> HIDE DEF a
<1>2. /\ x \in Seq(S) /\ Len(x) = Len(s) - d
      /\ \A i \in 1 .. Len(s) - d : x[i] = s[d + i]
  OBVIOUS
<1>3. /\ l \in Seq(S) /\ Len(l) = Len(s) + 1 - d
      /\ \A i \in 1 .. Len(s) + 1 - d : l[i] = a[d + i]
  BY <1>1
<1> HIDE DEF l, x
<1>4. /\ r \in Seq(S) /\ Len(r) = Len(x) + 1 /\ r[Len(x) + 1] = e
      /\ \A i \in 1 .. Len(x) : r[i] = x[i]
  BY <1>2, AppendProperties
<1> HIDE DEF r
<1>5. ASSUME NEW i \in 1 .. Len(l)
      PROVE  l[i] = r[i]
  <2>1. l[i] = a[d + i]
    BY <1>3
  <2>2. CASE i = Len(x) + 1
    <3>1. d + i = Len(s) + 1
      BY <2>2, <1>1, <1>2
    <3> QED
      BY <3>1, <2>1, <2>2, <1>1, <1>4
  <2>3. CASE i # Len(x) + 1
    <3>1. i \in 1 .. Len(x) /\ d + i \in 1 .. Len(s) /\ i \in 1 .. Len(s) - d
      <4>1. Len(s) \in Nat /\ Len(x) = Len(s) - d /\ Len(l) = Len(s) + 1 - d
        BY <1>1, <1>2, <1>3
      <4>2. i \in 1 .. Len(s) - d
        BY <4>1, <2>3
      <4> QED
        BY <4>1, <4>2
    <3>2. r[i] = x[i] /\ x[i] = s[d + i]
      BY <3>1, <1>2, <1>4
    <3>3. a[d + i] = s[d + i]
      BY <3>1, <1>1
    <3> QED
      BY <2>1, <3>2, <3>3
  <2> QED
    BY <2>2, <2>3
<1>6. Len(l) = Len(r)
  BY <1>1, <1>2, <1>3, <1>4
<1>7. l = r
  BY <1>3, <1>4, <1>5, <1>6, SeqEqual, Zenon
<1> QED
  BY <1>1, <1>7 DEF a, l, x, r

LEMMA SuffixHead ==
  ASSUME NEW S, NEW s \in Seq(S), NEW d \in Nat, d < Len(s)
  PROVE  /\ SubSeq(s, d + 1, Len(s)) # << >>
         /\ Head(SubSeq(s, d + 1, Len(s))) = s[d + 1]
         /\ Tail(SubSeq(s, d + 1, Len(s))) = SubSeq(s, d + 1 + 1, Len(s))
<1> DEFINE x == SubSeq(s, d + 1, Len(s))
           t == SubSeq(s, d + 1 + 1, Len(s))
<1>1. /\ x \in Seq(S) /\ Len(x) = Len(s) - d /\ Len(x) \in Nat /\ Len(x) > 0
      /\ \A i \in 1 .. Len(s) - d : x[i] = s[d + i]
  OBVIOUS
<1>2. /\ t \in Seq(S) /\ Len(t) = Len(s) - d - 1
      /\ \A i \in 1 .. Len(s) - d - 1 : t[i] = s[d + 1 + i]
  OBVIOUS
<1> HIDE DEF x, t
<1>3. x # << >>
  BY <1>1
<1>4. /\ Head(x) = x[1] /\ Tail(x) \in Seq(S) /\ Len(Tail(x)) = Len(x) - 1
      /\ \A i \in 1 .. Len(Tail(x)) : Tail(x)[i] = x[i + 1]
  BY <1>1, <1>3, HeadTailProperties
<1>5. ASSUME NEW i \in 1 .. Len(Tail(x))
      PROVE  Tail(x)[i] = t[i]
  <2>1. i + 1 \in 1 .. Len(s) - d /\ i \in 1 .. Len(s) - d - 1 /\ d + (i + 1) = d + 1 + i
    BY <1>1, <1>4
  <2> QED
    BY <2>1, <1>1, <1>2, <1>4
<1>6. Len(Tail(x)) = Len(t)
  BY <1>1, <1>2, <1>4
<1>7. Tail(x) = t
  BY <1>2, <1>4, <1>5, <1>6, SeqEqual, Zenon
<1>8. x[1] = s[d + 1]
  BY <1>1
<1> QED
  BY <1>3, <1>4, <1>7, <1>8 DEF x, t
=============================================================================
