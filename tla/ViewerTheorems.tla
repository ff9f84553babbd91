--------------------------- MODULE ViewerTheorems ---------------------------
(***************************************************************************)
(* Theorems about Viewer, for every number of messages, every length of    *)
(* the two lists and every kind of message.                                *)
(*                                                                         *)
(* What is new in a frame is decided by the front of a filtered list.      *)
(* That this is enough rests on an order that goes through the whole       *)
(* program: the front of the list is no newer than what a frame has seen,  *)
(* that is no newer than what was sent last, and that is no newer than     *)
(* what is stored.                                                         *)
(***************************************************************************)
EXTENDS Viewer, SequenceTheorems, WellFoundedInduction, TLAPS

-----------------------------------------------------------------------------
(* What is claimed of a state.                                              *)

Increasing(s) == \A i, j \in 1 .. Len(s) : i < j => s[i].index < s[j].index
Decreasing(s) == \A i, j \in 1 .. Len(s) : i < j => s[i].index > s[j].index

(* The newest message of a list that has the oldest first.                  *)
Top(s) == IF s = << >> THEN 0 ELSE s[Len(s)].index

(* The list s has m, or nothing that is as old.                             *)
Accounted(m, s) ==
  \/ \E i \in 1 .. Len(s) : s[i] = m
  \/ \A i \in 1 .. Len(s) : s[i].index > m.index

PinType == [kind : Kinds \cup {Nothing}, base : Nat, last : Nat]

ViewerTypes ==
  /\ index \in Nat /\ seen \in Nat
  /\ rcv \in Kinds \cup {Nothing}
  /\ data \in Seq(Message) /\ shown \in Seq(Message)
  /\ published.data \in Seq(Message)
  /\ pin \in PinType

ListsInOrder ==
  /\ Increasing(data) /\ Increasing(published.data)
  /\ NewestFirst

FrontBehindSource ==
  /\ FrontIndex <= seen
  /\ seen <= Top(published.data)
  /\ Top(published.data) <= index
  /\ Top(data) = index

(* What was sent is still stored, or was pushed out by what is newer.       *)
SentAccounted ==
  \A i \in 1 .. Len(published.data) : Accounted(published.data[i], data)

(* The message a pin measures to; it may be a hidden one, and then it is in *)
(* no list of the window.                                                   *)
PinMessage == [index |-> pin.last, kind |-> pin.kind]

PinAccounted ==
  \/ pin.last <= FrontIndex
  \/ /\ pin.last <= index
     /\ Accounted(PinMessage, data)
     /\ Accounted(PinMessage, published.data)

ViewerInv ==
  /\ ViewerTypes
  /\ ListsInOrder
  /\ FrontBehindSource
  /\ SentAccounted
  /\ PinAccounted

-----------------------------------------------------------------------------
(* Induction over the natural numbers, for sets.                            *)

(* A set of natural numbers has a smallest one.                             *)
LEMMA SmallestNat ==
  ASSUME NEW G \in SUBSET Nat, G # {}
  PROVE  \E n \in G : \A m \in G : n <= m
<1>1. IsWellFoundedOn(OpToRel(<, Nat), Nat)
  BY NatLessThanWellFounded
<1>2. PICK n \in G : \A y \in Nat : <<y, n>> \in OpToRel(<, Nat) => ~ (y \in G)
  BY <1>1, WFMin
<1>3. ASSUME NEW m \in G PROVE n <= m
  <2>1. SUFFICES ASSUME m < n PROVE FALSE
    OBVIOUS
  <2>2. <<m, n>> \in OpToRel(<, Nat)
    BY <2>1 DEF OpToRel
  <2> QED BY <2>2, <1>2
<1> QED BY <1>3

(* A set that has 0, and with a number the next one, has them all.          *)
LEMMA NatInductionOverSets ==
  ASSUME NEW G, 0 \in G, \A n \in Nat : n \in G => n + 1 \in G
  PROVE  \A n \in Nat : n \in G
<1> SUFFICES ASSUME NEW x \in Nat, ~ (x \in G) PROVE FALSE
  OBVIOUS
<1> DEFINE Out == {n \in Nat : ~ (n \in G)}
<1>1. PICK b \in Out : \A m \in Out : b <= m
  BY SmallestNat
<1>2. b \in Nat /\ b # 0
  OBVIOUS
<1>3. b - 1 \in Nat /\ b - 1 \in G
  BY <1>1, <1>2
<1>4. (b - 1) + 1 \in G
  BY <1>3
<1> QED BY <1>2, <1>4

-----------------------------------------------------------------------------
(* What Kept returns.                                                       *)

(* k is what is kept of the first n elements of s.                          *)
IsKept(k, s, n, S, T) ==
  /\ k \in Seq(T)
  /\ \A j \in 1 .. Len(k) : k[j] \in S /\ \E i \in 1 .. n : k[j] = s[i]
  /\ \A i \in 1 .. n : s[i] \in S => \E j \in 1 .. Len(k) : k[j] = s[i]

(* Before the first element nothing is kept.                                *)
LEMMA NothingKept ==
  ASSUME NEW T, NEW s, NEW S
  PROVE  IsKept(<< >>, s, 0, S, T) /\ Increasing(<< >>)
<1>1. << >> \in Seq(T) /\ Len(<< >>) = 0
  BY EmptySeq
<1>2. 1 .. Len(<< >>) = {} /\ 1 .. 0 = {}
  BY <1>1
<1> QED BY <1>1, <1>2, Zenon DEF IsKept, Increasing

(* The next element of the list, kept or not.                               *)
LEMMA KeptStep ==
  ASSUME NEW T, NEW s \in Seq(T), NEW S, NEW n \in Nat, n + 1 <= Len(s),
         NEW k, IsKept(k, s, n, S, T)
  PROVE  /\ s[n + 1] \in S => IsKept(Append(k, s[n + 1]), s, n + 1, S, T)
         /\ s[n + 1] \notin S => IsKept(k, s, n + 1, S, T)
<1>1. n + 1 \in 1 .. Len(s) /\ s[n + 1] \in T
  BY ElementOfSeq
<1>2. k \in Seq(T)
  BY DEF IsKept
<1>3. ASSUME s[n + 1] \in S
      PROVE  IsKept(Append(k, s[n + 1]), s, n + 1, S, T)
  <2> DEFINE k2 == Append(k, s[n + 1])
  <2>1. /\ k2 \in Seq(T) /\ Len(k2) = Len(k) + 1 /\ Len(k) \in Nat
        /\ k2[Len(k) + 1] = s[n + 1]
        /\ \A j \in 1 .. Len(k) : k2[j] = k[j]
    BY <1>1, <1>2, AppendProperties, LenProperties
  <2> HIDE DEF k2
  <2>2. ASSUME NEW j \in 1 .. Len(k2)
        PROVE  k2[j] \in S /\ \E i \in 1 .. n + 1 : k2[j] = s[i]
    <3>1. CASE j = Len(k) + 1
      BY <3>1, <2>1, <1>3
    <3>2. CASE j \in 1 .. Len(k)
      BY <3>2, <2>1 DEF IsKept
    <3> QED BY <2>1, <3>1, <3>2
  <2>3. ASSUME NEW i \in 1 .. n + 1, s[i] \in S
        PROVE  \E j \in 1 .. Len(k2) : k2[j] = s[i]
    <3>1. CASE i = n + 1
      BY <3>1, <2>1
    <3>2. CASE i \in 1 .. n
      BY <3>2, <2>1, <2>3 DEF IsKept
    <3> QED BY <3>1, <3>2
  <2> QED BY <2>1, <2>2, <2>3 DEF IsKept, k2
<1>4. ASSUME s[n + 1] \notin S
      PROVE  IsKept(k, s, n + 1, S, T)
  BY <1>4 DEF IsKept
<1> QED BY <1>3, <1>4

(* What is kept of a list in order is in order, as long as what is added    *)
(* comes after all of it.                                                   *)
LEMMA KeptStepIncreasing ==
  ASSUME NEW s \in Seq(Message), NEW S, NEW n \in Nat, n + 1 <= Len(s),
         NEW k, IsKept(k, s, n, S, Message), Increasing(s), Increasing(k)
  PROVE  Increasing(Append(k, s[n + 1]))
<1>1. n + 1 \in 1 .. Len(s) /\ s[n + 1] \in Message
  BY ElementOfSeq
<1>2. k \in Seq(Message)
  BY DEF IsKept
<1> DEFINE k2 == Append(k, s[n + 1])
<1>3. /\ k2 \in Seq(Message) /\ Len(k2) = Len(k) + 1 /\ Len(k) \in Nat
      /\ k2[Len(k) + 1] = s[n + 1]
      /\ \A j \in 1 .. Len(k) : k2[j] = k[j]
  BY <1>1, <1>2, AppendProperties, LenProperties
<1>4. ASSUME NEW j \in 1 .. Len(k) PROVE k[j].index < s[n + 1].index
  <2>1. PICK i \in 1 .. n : k[j] = s[i]
    BY DEF IsKept
  <2>2. i \in 1 .. Len(s) /\ i < n + 1
    OBVIOUS
  <2> QED BY <2>1, <2>2, <1>1 DEF Increasing
<1> HIDE DEF k2
<1>5. ASSUME NEW i \in 1 .. Len(k2), NEW j \in 1 .. Len(k2), i < j
      PROVE  k2[i].index < k2[j].index
  <2>1. i \in 1 .. Len(k)
    BY <1>3, <1>5
  <2>2. CASE j = Len(k) + 1
    BY <2>1, <2>2, <1>3, <1>4
  <2>3. CASE j \in 1 .. Len(k)
    BY <2>1, <2>3, <1>3, <1>5 DEF Increasing
  <2> QED BY <1>3, <2>2, <2>3
<1> QED BY <1>5 DEF Increasing, k2

(* The recursion of Kept has a solution.                                    *)
KeptUpTo(f, s, S, n) ==
  f = [i \in 0 .. n |-> IF i = 0 THEN << >>
                        ELSE IF s[i] \in S THEN Append(f[i - 1], s[i])
                        ELSE f[i - 1]]

LEMMA KeptExists ==
  ASSUME NEW s, NEW S, NEW L \in Nat
  PROVE  \E f : KeptUpTo(f, s, S, L)
<1> DEFINE G == {n \in Nat : \E f : KeptUpTo(f, s, S, n)}
<1>1. 0 \in G
  <2> DEFINE f == [i \in 0 .. 0 |-> << >>]
  <2>1. KeptUpTo(f, s, S, 0)
    BY DEF KeptUpTo
  <2> QED BY <2>1
<1>2. ASSUME NEW n \in Nat, n \in G PROVE n + 1 \in G
  <2>1. PICK f : KeptUpTo(f, s, S, n)
    BY <1>2
  <2> DEFINE last == IF s[n + 1] \in S THEN Append(f[n], s[n + 1]) ELSE f[n]
             g == [i \in 0 .. n + 1 |-> IF i = n + 1 THEN last ELSE f[i]]
             h == [i \in 0 .. n + 1 |->
                     IF i = 0 THEN << >>
                     ELSE IF s[i] \in S THEN Append(g[i - 1], s[i])
                     ELSE g[i - 1]]
  <2>2. ASSUME NEW i \in 0 .. n + 1 PROVE g[i] = h[i]
    <3>1. CASE i = n + 1
      <4>1. i # 0 /\ i - 1 = n /\ n \in 0 .. n + 1 /\ n # n + 1
        BY <3>1
      <4>2. g[n] = f[n] /\ g[i] = last
        BY <4>1, <3>1
      <4> QED BY <4>1, <4>2, <3>1
    <3>2. CASE i = 0
      <4>1. f[0] = << >> /\ 0 # n + 1
        BY <2>1 DEF KeptUpTo
      <4> QED BY <4>1, <3>2
    <3>3. CASE i \in 1 .. n
      <4>1. /\ i \in 0 .. n /\ i # 0 /\ i # n + 1
            /\ i - 1 \in 0 .. n + 1 /\ i - 1 # n + 1
        BY <3>3
      <4>2. f[i] = IF s[i] \in S THEN Append(f[i - 1], s[i]) ELSE f[i - 1]
        BY <2>1, <4>1 DEF KeptUpTo
      <4>3. g[i] = f[i] /\ g[i - 1] = f[i - 1]
        BY <4>1
      <4> QED BY <4>1, <4>2, <4>3
    <3> QED BY <3>1, <3>2, <3>3
  <2>3. g = h
    BY <2>2
  <2>4. KeptUpTo(g, s, S, n + 1)
    BY <2>3 DEF KeptUpTo
  <2> QED BY <2>4
<1> HIDE DEF G
<1>3. \A n \in Nat : n \in G
  BY <1>1, <1>2, NatInductionOverSets
<1> QED BY <1>3 DEF G

(* Kept has every element of s that is in S, and nothing else.              *)
LEMMA KeptIsKept ==
  ASSUME NEW T, NEW s \in Seq(T), NEW S
  PROVE  IsKept(Kept(s, S), s, Len(s), S, T)
<1> DEFINE K == CHOOSE k : KeptUpTo(k, s, S, Len(s))
           G == {n \in Nat : n <= Len(s) => IsKept(K[n], s, n, S, T)}
<1>1. Kept(s, S) = K[Len(s)]
  BY Zenon DEF Kept, KeptUpTo
<1>2. KeptUpTo(K, s, S, Len(s))
  BY KeptExists, LenProperties, Zenon
<1> HIDE DEF K
<1>3. 0 \in G
  <2>1. K[0] = << >>
    BY <1>2, LenProperties DEF KeptUpTo
  <2> QED BY <2>1, NothingKept
<1>4. ASSUME NEW n \in Nat, n \in G PROVE n + 1 \in G
  <2> SUFFICES ASSUME n + 1 <= Len(s) PROVE IsKept(K[n + 1], s, n + 1, S, T)
    OBVIOUS
  <2>1. IsKept(K[n], s, n, S, T)
    BY <1>4, LenProperties
  <2>2. n + 1 \in 0 .. Len(s) /\ n + 1 # 0 /\ (n + 1) - 1 = n
    BY LenProperties
  <2>3. K[n + 1] = IF s[n + 1] \in S THEN Append(K[n], s[n + 1]) ELSE K[n]
    BY <1>2, <2>2 DEF KeptUpTo
  <2>4. /\ s[n + 1] \in S => IsKept(Append(K[n], s[n + 1]), s, n + 1, S, T)
        /\ s[n + 1] \notin S => IsKept(K[n], s, n + 1, S, T)
    BY <2>1, KeptStep
  <2> QED BY <2>3, <2>4, Zenon
<1> HIDE DEF G
<1>5. \A n \in Nat : n \in G
  BY <1>3, <1>4, NatInductionOverSets
<1>6. Len(s) \in Nat /\ Len(s) <= Len(s)
  BY LenProperties
<1> QED BY <1>1, <1>5, <1>6 DEF G

(* Kept leaves the order.                                                   *)
LEMMA KeptIncreasing ==
  ASSUME NEW s \in Seq(Message), NEW S, Increasing(s)
  PROVE  Increasing(Kept(s, S))
<1> DEFINE K == CHOOSE k : KeptUpTo(k, s, S, Len(s))
           G == {n \in Nat : n <= Len(s) =>
                   IsKept(K[n], s, n, S, Message) /\ Increasing(K[n])}
<1>1. Kept(s, S) = K[Len(s)]
  BY Zenon DEF Kept, KeptUpTo
<1>2. KeptUpTo(K, s, S, Len(s))
  BY KeptExists, LenProperties, Zenon
<1> HIDE DEF K
<1>3. 0 \in G
  <2>1. K[0] = << >>
    BY <1>2, LenProperties DEF KeptUpTo
  <2> QED BY <2>1, NothingKept
<1>4. ASSUME NEW n \in Nat, n \in G PROVE n + 1 \in G
  <2> SUFFICES ASSUME n + 1 <= Len(s)
               PROVE  IsKept(K[n + 1], s, n + 1, S, Message) /\ Increasing(K[n + 1])
    OBVIOUS
  <2>1. IsKept(K[n], s, n, S, Message) /\ Increasing(K[n])
    BY <1>4, LenProperties
  <2>2. n + 1 \in 0 .. Len(s) /\ n + 1 # 0 /\ (n + 1) - 1 = n
    BY LenProperties
  <2>3. K[n + 1] = IF s[n + 1] \in S THEN Append(K[n], s[n + 1]) ELSE K[n]
    BY <1>2, <2>2 DEF KeptUpTo
  <2>4. /\ s[n + 1] \in S => IsKept(Append(K[n], s[n + 1]), s, n + 1, S, Message)
        /\ s[n + 1] \notin S => IsKept(K[n], s, n + 1, S, Message)
    BY <2>1, KeptStep
  <2>5. Increasing(Append(K[n], s[n + 1]))
    BY <2>1, KeptStepIncreasing
  <2> QED BY <2>1, <2>3, <2>4, <2>5, Zenon
<1> HIDE DEF G
<1>5. \A n \in Nat : n \in G
  BY <1>3, <1>4, NatInductionOverSets
<1>6. Len(s) \in Nat /\ Len(s) <= Len(s)
  BY LenProperties
<1> QED BY <1>1, <1>5, <1>6 DEF G

(* Every message of a list has a number.                                    *)
LEMMA Indexed ==
  ASSUME NEW s \in Seq(Message)
  PROVE  \A i \in 1 .. Len(s) : s[i] \in Message /\ s[i].index \in Nat
<1>1. ASSUME NEW i \in 1 .. Len(s) PROVE s[i] \in Message
  BY ElementOfSeq
<1> QED BY <1>1 DEF Message

-----------------------------------------------------------------------------
(* What the driver stores.                                                  *)

(* The newest n elements of a list are its end.                             *)
LEMMA NewestIsTheEnd ==
  ASSUME NEW s \in Seq(Message), NEW n \in Nat \ {0}
  PROVE  /\ Newest(s, n) \in Seq(Message)
         /\ \E o \in 0 .. Len(s) :
              /\ Len(Newest(s, n)) = Len(s) - o
              /\ \A j \in 1 .. Len(s) - o : Newest(s, n)[j] = s[j + o]
<1>1. Len(s) \in Nat
  BY LenProperties
<1>2. CASE Len(s) > n
  <2> DEFINE o == Len(s) - n
             a == Len(s) - n + 1
  <2>1. /\ o \in 0 .. Len(s) /\ a \in Int /\ Len(s) \in Int
        /\ a >= 1 /\ a <= Len(s)
        /\ Len(s) - a + 1 = n /\ Len(s) - o = n /\ a - 1 = o
    BY <1>1, <1>2
  <2>2. \A i \in a .. Len(s) : s[i] \in Message
    BY <2>1, <1>1, ElementOfSeq
  <2>3. Newest(s, n) = SubSeq(s, a, Len(s))
    BY <1>2 DEF Newest
  <2>4. /\ SubSeq(s, a, Len(s)) \in Seq(Message)
        /\ Len(SubSeq(s, a, Len(s))) = n
        /\ \A i \in 1 .. n : SubSeq(s, a, Len(s))[i] = s[a + i - 1]
    <3> HIDE DEF o, a
    <3> QED BY <2>1, <2>2, SubSeqProperties
  <2> HIDE DEF o, a
  <2>5. \A i \in 1 .. n : a + i - 1 = i + o
    BY <2>1, SMTT(20)
  <2> QED BY <2>1, <2>3, <2>4, <2>5
<1>3. CASE ~ (Len(s) > n)
  <2>1. Newest(s, n) = s
    BY <1>3 DEF Newest
  <2>2. /\ 0 \in 0 .. Len(s) /\ Len(s) = Len(s) - 0
        /\ \A j \in 1 .. Len(s) - 0 : s[j] = s[j + 0]
    BY <1>1
  <2> QED BY <2>1, <2>2
<1> QED BY <1>2, <1>3

(* The list stays in order, and a message it accounted for is still there   *)
(* or older than all the list has.                                          *)
LEMMA StoreKeeps ==
  ASSUME NEW s \in Seq(Message), NEW n \in Nat \ {0}, NEW x \in Message,
         Increasing(s), \A i \in 1 .. Len(s) : s[i].index < x.index,
         NEW d, d = Append(Newest(s, n), x)
  PROVE  /\ d \in Seq(Message) /\ Increasing(d)
         /\ Top(d) = x.index
         /\ \A m \in [index : Nat, kind : Kinds \cup {Nothing}] :
              m.index < x.index /\ Accounted(m, s) => Accounted(m, d)
<1>1. Len(s) \in Nat /\ x.index \in Nat
  BY LenProperties DEF Message
<1>2. /\ Newest(s, n) \in Seq(Message)
      /\ \E o \in 0 .. Len(s) :
           /\ Len(Newest(s, n)) = Len(s) - o
           /\ \A j \in 1 .. Len(s) - o : Newest(s, n)[j] = s[j + o]
  BY NewestIsTheEnd
<1> DEFINE r == Newest(s, n)
<1>3. PICK o \in 0 .. Len(s) :
        Len(r) = Len(s) - o /\ \A j \in 1 .. Len(s) - o : r[j] = s[j + o]
  BY <1>2
<1> DEFINE l == Len(s) - o
<1>4. /\ d \in Seq(Message) /\ Len(d) = l + 1 /\ d[l + 1] = x
      /\ \A j \in 1 .. l : d[j] = r[j]
  BY <1>2, <1>3, AppendProperties
<1>5. l \in Nat /\ \A j \in 1 .. l : j + o \in 1 .. Len(s)
  BY <1>1
<1>6. \A j \in 1 .. l : d[j] = s[j + o]
  BY <1>3, <1>4
<1>7. \A i \in 1 .. Len(s) : s[i].index \in Nat
  BY Indexed
<1> HIDE DEF r, l
<1>8. ASSUME NEW i \in 1 .. Len(d), NEW j \in 1 .. Len(d), i < j
      PROVE  d[i].index < d[j].index
  <2>1. i \in 1 .. l /\ i + o \in 1 .. Len(s)
    BY <1>4, <1>5, <1>8
  <2>2. CASE j = l + 1
    BY <2>1, <2>2, <1>4, <1>6
  <2>3. CASE j \in 1 .. l
    <3>1. j + o \in 1 .. Len(s) /\ i + o < j + o
      BY <2>3, <2>1, <1>5, <1>8
    <3>2. s[i + o].index < s[j + o].index
      BY <3>1, <2>1 DEF Increasing
    <3> QED BY <3>2, <2>1, <2>3, <1>6
  <2> QED BY <1>4, <1>5, <2>2, <2>3
<1>9. Top(d) = x.index
  <2>1. d # << >>
    BY <1>4, <1>5, EmptySeq
  <2> QED BY <2>1, <1>4 DEF Top
<1>10. ASSUME NEW m \in [index : Nat, kind : Kinds \cup {Nothing}],
              m.index < x.index, Accounted(m, s)
       PROVE  Accounted(m, d)
  <2>1. m.index \in Nat
    OBVIOUS
  <2>2. CASE \A i \in 1 .. Len(s) : s[i].index > m.index
    <3>1. ASSUME NEW j \in 1 .. Len(d) PROVE d[j].index > m.index
      <4>1. CASE j = l + 1
        BY <4>1, <1>4, <1>10, <1>1, <2>1
      <4>2. CASE j \in 1 .. l
        BY <4>2, <1>5, <1>6, <2>2
      <4> QED BY <1>4, <1>5, <4>1, <4>2
    <3> QED BY <3>1 DEF Accounted
  <2>3. CASE \E i \in 1 .. Len(s) : s[i] = m
    <3>1. PICK i \in 1 .. Len(s) : s[i] = m
      BY <2>3
    <3>2. CASE i > o
      <4>1. i - o \in 1 .. l /\ (i - o) + o = i
        BY <3>2, <1>1 DEF l
      <4>2. d[i - o] = m /\ i - o \in 1 .. Len(d)
        BY <4>1, <3>1, <1>6, <1>4, <1>5
      <4> QED BY <4>2 DEF Accounted
    <3>3. CASE i <= o
      <4>1. ASSUME NEW j \in 1 .. Len(d) PROVE d[j].index > m.index
        <5>1. CASE j = l + 1
          BY <5>1, <1>4, <1>10, <1>1, <2>1
        <5>2. CASE j \in 1 .. l
          <6>1. j + o \in 1 .. Len(s) /\ i < j + o
            BY <5>2, <1>5, <3>3, <1>1
          <6>2. s[i].index < s[j + o].index
            BY <6>1 DEF Increasing
          <6>3. s[j + o].index \in Nat
            BY <6>1, <1>7
          <6> QED BY <6>2, <6>3, <5>2, <1>6, <3>1, <2>1
        <5> QED BY <1>4, <1>5, <5>1, <5>2
      <4> QED BY <4>1 DEF Accounted
    <3> QED BY <3>2, <3>3, <1>1
  <2> QED BY <1>10, <2>2, <2>3 DEF Accounted
<1> QED BY <1>4, <1>8, <1>9, <1>10 DEF Increasing

-----------------------------------------------------------------------------
(* What a frame shows.                                                      *)

LEMMA ReverseIsMirror ==
  ASSUME NEW p \in Seq(Message)
  PROVE  /\ Reverse(p) \in Seq(Message) /\ Len(Reverse(p)) = Len(p)
         /\ \A i \in 1 .. Len(p) : Reverse(p)[i] = p[(Len(p) - i) + 1]
<1>1. Len(p) \in Nat
  BY LenProperties
<1> DEFINE R == [i \in 1 .. Len(p) |-> p[(Len(p) - i) + 1]]
<1>2. \A i \in 1 .. Len(p) : p[(Len(p) - i) + 1] \in Message
  <2>1. \A i \in 1 .. Len(p) : (Len(p) - i) + 1 \in 1 .. Len(p)
    BY <1>1
  <2> QED BY <2>1, ElementOfSeq
<1>3. R \in Seq(Message) /\ Len(R) = Len(p)
  BY <1>1, <1>2, IsASeq
<1> QED BY <1>3 DEF Reverse

LEMMA FirstElements ==
  ASSUME NEW s \in Seq(Message), NEW n \in 0 .. Len(s)
  PROVE  /\ SubSeq(s, 1, n) \in Seq(Message) /\ Len(SubSeq(s, 1, n)) = n
         /\ \A i \in 1 .. n : SubSeq(s, 1, n)[i] = s[i]
<1>1. n \in Nat /\ \A i \in 1 .. n : s[i] \in Message
  BY ElementOfSeq, LenProperties
<1> QED BY <1>1, SubSeqProperties

(* r shows the new messages p, the oldest of them first, above the list l   *)
(* and has room for n.                                                      *)
AllNewer(p, l) ==
  \A i \in 1 .. Len(p) : \A j \in 1 .. Len(l) : p[i].index > l[j].index

Shows(r, p, l, n) ==
  /\ r \in Seq(Message) /\ Decreasing(r)
  /\ \A i \in 1 .. Len(p) :
       \/ \E j \in 1 .. Len(r) : r[j] = p[i]
       \/ Len(r) = n /\ r[n].index > p[i].index
  /\ p # << >> => r # << >> /\ r[1] = p[Len(p)]
  /\ p = << >> => (r = << >> <=> l = << >>) /\ (l # << >> => r[1] = l[1])

LEMMA ShownIsInOrder ==
  ASSUME NEW p \in Seq(Message), NEW l \in Seq(Message), NEW n \in Nat \ {0},
         Increasing(p), Decreasing(l), AllNewer(p, l),
         NEW all, all = Reverse(p) \o l,
         NEW c \in 0 .. Len(all), c <= n, c = n \/ c = Len(all),
         NEW r, r = SubSeq(all, 1, c)
  PROVE  Shows(r, p, l, n)
<1> DEFINE P == Len(p)
           L == Len(l)
<1>1. P \in Nat /\ L \in Nat
  BY LenProperties
<1>2. /\ Reverse(p) \in Seq(Message) /\ Len(Reverse(p)) = P
      /\ \A i \in 1 .. P : Reverse(p)[i] = p[(P - i) + 1]
  BY ReverseIsMirror
<1>3. /\ all \in Seq(Message) /\ Len(all) = P + L
      /\ \A i \in 1 .. P : all[i] = Reverse(p)[i]
      /\ \A i \in P + 1 .. P + L : all[i] = l[i - P]
  <2>1. /\ all \in Seq(Message) /\ Len(all) = Len(Reverse(p)) + L
        /\ \A i \in 1 .. Len(Reverse(p)) + L : all[i] =
             IF i <= Len(Reverse(p)) THEN Reverse(p)[i]
             ELSE l[i - Len(Reverse(p))]
    BY <1>2, ConcatProperties, Zenon
  <2> QED BY <2>1, <1>1, <1>2
<1>4. \A i \in 1 .. P : all[i] = p[(P - i) + 1]
  BY <1>2, <1>3
<1>5. /\ \A i \in 1 .. P : p[i] \in Message /\ p[i].index \in Nat
      /\ \A i \in 1 .. L : l[i] \in Message /\ l[i].index \in Nat
      /\ \A i \in 1 .. P + L : all[i] \in Message /\ all[i].index \in Nat
  BY <1>3, Indexed
<1>6. /\ c \in Nat /\ c <= P + L /\ c <= n
      /\ (c = n \/ c = P + L)
  BY <1>1, <1>3
<1>7. /\ r \in Seq(Message) /\ Len(r) = c
      /\ \A i \in 1 .. c : r[i] = all[i]
  <2>1. c \in 0 .. Len(all) /\ r = SubSeq(all, 1, c)
    BY <1>1, <1>3
  <2> QED BY <2>1, <1>3, FirstElements
<1>8. ASSUME NEW i \in 1 .. P + L, NEW j \in 1 .. P + L, i < j
      PROVE  all[i].index > all[j].index
  <2>1. CASE j <= P
    <3>1. /\ (P - i) + 1 \in 1 .. P /\ (P - j) + 1 \in 1 .. P
          /\ (P - j) + 1 < (P - i) + 1 /\ i \in 1 .. P /\ j \in 1 .. P
      BY <2>1, <1>1, <1>8
    <3>2. p[(P - j) + 1].index < p[(P - i) + 1].index
      BY <3>1 DEF Increasing
    <3>3. all[i] = p[(P - i) + 1] /\ all[j] = p[(P - j) + 1]
      BY <3>1, <1>4
    <3>4. all[i].index \in Nat /\ all[j].index \in Nat
      BY <1>5
    <3> QED BY <3>2, <3>3, <3>4
  <2>2. CASE i <= P /\ j > P
    <3>1. /\ (P - i) + 1 \in 1 .. P /\ j - P \in 1 .. L
          /\ i \in 1 .. P /\ j \in P + 1 .. P + L
      BY <2>2, <1>1
    <3>2. all[i] = p[(P - i) + 1] /\ all[j] = l[j - P]
      BY <3>1, <1>3, <1>4
    <3> QED BY <3>1, <3>2 DEF AllNewer
  <2>3. CASE i > P
    <3>1. /\ i - P \in 1 .. L /\ j - P \in 1 .. L /\ i - P < j - P
          /\ i \in P + 1 .. P + L /\ j \in P + 1 .. P + L
      BY <2>3, <1>1, <1>8
    <3>2. all[i] = l[i - P] /\ all[j] = l[j - P]
      BY <3>1, <1>3
    <3>3. l[i - P].index > l[j - P].index
      BY <3>1 DEF Decreasing
    <3> QED BY <3>2, <3>3
  <2>4. j <= P \/ (i <= P /\ j > P) \/ i > P
    BY <1>1, <1>8
  <2> QED BY <2>1, <2>2, <2>3, <2>4, Zenon
<1>9. n \in Nat /\ n > 0 /\ n \in Int
  OBVIOUS
<1> HIDE DEF P, L
<1>10. Decreasing(r)
  <2>1. ASSUME NEW i \in 1 .. Len(r), NEW j \in 1 .. Len(r), i < j
        PROVE  r[i].index > r[j].index
    <3>1. /\ i \in 1 .. c /\ j \in 1 .. c
          /\ i \in 1 .. P + L /\ j \in 1 .. P + L
      BY <1>1, <1>6, <1>7
    <3> QED BY <3>1, <2>1, <1>7, <1>8
  <2> QED BY <2>1 DEF Decreasing
<1>11. ASSUME NEW i \in 1 .. P
       PROVE  \/ \E j \in 1 .. Len(r) : r[j] = p[i]
              \/ Len(r) = n /\ r[n].index > p[i].index
  <2> DEFINE k == (P - i) + 1
  <2>1. k \in 1 .. P /\ k \in 1 .. P + L /\ (P - k) + 1 = i
    BY <1>1
  <2>2. all[k] = p[i]
    BY <2>1, <1>4
  <2>3. CASE k <= c
    <3>1. k \in 1 .. c
      BY <2>1, <2>3, <1>6
    <3> QED BY <3>1, <2>2, <1>7
  <2>4. CASE k > c
    <3>1. c = n /\ n < k /\ n \in 1 .. P + L /\ n \in 1 .. c
      BY <2>1, <2>4, <1>1, <1>6, <1>9
    <3>2. all[n].index > all[k].index
      BY <3>1, <2>1, <1>8
    <3> QED BY <3>1, <3>2, <2>2, <1>7
  <2> QED BY <2>1, <2>3, <2>4, <1>1, <1>6
<1>12. ASSUME p # << >> PROVE r # << >> /\ r[1] = p[P]
  <2>1. P # 0
    BY <1>12, EmptySeq DEF P
  <2>2. /\ 1 \in 1 .. P /\ 1 \in 1 .. c /\ (P - 1) + 1 = P /\ c # 0
    BY <2>1, <1>1, <1>6, <1>9
  <2>3. r # << >>
    BY <2>2, <1>7, EmptySeq
  <2> QED BY <2>2, <2>3, <1>4, <1>7
<1>13. ASSUME p = << >>
       PROVE  (r = << >> <=> l = << >>) /\ (l # << >> => r[1] = l[1])
  <2>1. P = 0
    BY <1>13, EmptySeq DEF P
  <2>2. CASE l = << >>
    <3>1. L = 0
      BY <2>2, EmptySeq DEF L
    <3>2. c = 0
      BY <3>1, <2>1, <1>6
    <3> QED BY <3>2, <2>2, <1>7, EmptySeq
  <2>3. CASE l # << >>
    <3>1. L # 0
      BY <2>3, EmptySeq DEF L
    <3>2. /\ 1 \in P + 1 .. P + L /\ 1 - P = 1 /\ 1 \in 1 .. c /\ c # 0
      BY <3>1, <2>1, <1>1, <1>6, <1>9
    <3>3. r # << >>
      BY <3>2, <1>7, EmptySeq
    <3>4. r[1] = l[1]
      BY <3>2, <1>3, <1>7
    <3> QED BY <3>3, <3>4, <2>3
  <2> QED BY <2>2, <2>3
<1> QED BY <1>7, <1>10, <1>11, <1>12, <1>13 DEF P, Shows

(* The last message of a list in order is its newest.                       *)
LEMMA TopIsNewest ==
  ASSUME NEW s \in Seq(Message), Increasing(s)
  PROVE  /\ Top(s) \in Nat
         /\ \A i \in 1 .. Len(s) : s[i].index <= Top(s)
         /\ s # << >> => Len(s) \in 1 .. Len(s) /\ Top(s) = s[Len(s)].index
<1>1. Len(s) \in Nat
  BY LenProperties
<1>2. \A i \in 1 .. Len(s) : s[i].index \in Nat
  BY Indexed
<1>3. CASE s = << >>
  <2>1. Len(s) = 0
    BY <1>3, EmptySeq
  <2>2. Top(s) = 0
    BY <1>3 DEF Top
  <2> QED BY <2>1, <2>2, <1>3
<1>4. CASE s # << >>
  <2>1. Len(s) # 0
    BY <1>4, EmptySeq
  <2>2. Top(s) = s[Len(s)].index
    BY <1>4 DEF Top
  <2>3. Len(s) \in 1 .. Len(s)
    BY <2>1, <1>1
  <2>4. ASSUME NEW i \in 1 .. Len(s) PROVE s[i].index <= s[Len(s)].index
    <3>1. CASE i = Len(s)
      BY <3>1, <1>2
    <3>2. CASE i < Len(s)
      <4>1. s[i].index < s[Len(s)].index
        BY <3>2, <2>3 DEF Increasing
      <4>2. s[i].index \in Nat /\ s[Len(s)].index \in Nat
        BY <1>2, <2>3
      <4> QED BY <4>1, <4>2
    <3> QED BY <3>1, <3>2, <1>1
  <2> QED BY <2>2, <2>3, <2>4, <1>2, <1>4
<1> QED BY <1>3, <1>4

(* What is newer than the front, and what of it is in S.                    *)
LEMMA KeptOfKept ==
  ASSUME NEW d \in Seq(Message), Increasing(d), NEW f \in Nat, NEW S,
         NEW fresh, fresh = Kept(d, Newer(f)), NEW p, p = Kept(fresh, S)
  PROVE  /\ fresh \in Seq(Message) /\ Increasing(fresh)
         /\ p \in Seq(Message) /\ Increasing(p)
         /\ \A j \in 1 .. Len(fresh) :
              fresh[j].index > f /\ \E i \in 1 .. Len(d) : fresh[j] = d[i]
         /\ \A j \in 1 .. Len(p) :
              /\ p[j].index > f /\ p[j] \in S
              /\ \E i \in 1 .. Len(d) : p[j] = d[i]
         /\ \A i \in 1 .. Len(d) : d[i].index > f /\ d[i] \in S =>
              \E j \in 1 .. Len(p) : p[j] = d[i]
<1>1. IsKept(fresh, d, Len(d), Newer(f), Message)
  BY KeptIsKept
<1>2. fresh \in Seq(Message)
  BY <1>1 DEF IsKept
<1>3. IsKept(p, fresh, Len(fresh), S, Message)
  BY <1>2, KeptIsKept
<1>4. p \in Seq(Message)
  BY <1>3 DEF IsKept
<1>5. Increasing(fresh)
  BY KeptIncreasing
<1>6. Increasing(p)
  BY <1>2, <1>5, KeptIncreasing
<1>7. ASSUME NEW j \in 1 .. Len(fresh)
      PROVE  fresh[j].index > f /\ \E i \in 1 .. Len(d) : fresh[j] = d[i]
  <2>1. fresh[j] \in Newer(f) /\ \E i \in 1 .. Len(d) : fresh[j] = d[i]
    BY <1>1 DEF IsKept
  <2>2. fresh[j].index > f
    BY <2>1 DEF Newer
  <2> QED BY <2>1, <2>2
<1>8. ASSUME NEW j \in 1 .. Len(p)
      PROVE  /\ p[j].index > f /\ p[j] \in S
             /\ \E i \in 1 .. Len(d) : p[j] = d[i]
  <2>1. p[j] \in S /\ \E i \in 1 .. Len(fresh) : p[j] = fresh[i]
    BY <1>3 DEF IsKept
  <2> QED BY <2>1, <1>7
<1>9. ASSUME NEW i \in 1 .. Len(d), d[i].index > f, d[i] \in S
      PROVE  \E j \in 1 .. Len(p) : p[j] = d[i]
  <2>1. d[i] \in Message /\ d[i].index \in Nat
    BY Indexed
  <2>2. d[i] \in Newer(f)
    BY <2>1, <1>9 DEF Newer, Message
  <2>3. PICK j \in 1 .. Len(fresh) : fresh[j] = d[i]
    BY <2>2, <1>1 DEF IsKept
  <2> QED BY <2>3, <1>3, <1>9 DEF IsKept
<1> QED BY <1>2, <1>4, <1>5, <1>6, <1>7, <1>8, <1>9

-----------------------------------------------------------------------------
(* One frame.                                                               *)

LEMMA FrontIsNewest ==
  ASSUME ViewerInv
  PROVE  /\ FrontIndex \in Nat
         /\ \A i \in 1 .. Len(shown) : shown[i].index <= FrontIndex
<1>1. shown \in Seq(Message) /\ Decreasing(shown)
  BY DEF ViewerInv, ViewerTypes, ListsInOrder, NewestFirst, Decreasing
<1>2. \A i \in 1 .. Len(shown) : shown[i].index \in Nat
  BY <1>1, Indexed
<1>3. CASE shown = << >>
  BY <1>3, EmptySeq DEF FrontIndex
<1>4. CASE shown # << >>
  <2>1. Len(shown) \in Nat /\ Len(shown) # 0
    BY <1>1, <1>4, EmptySeq, LenProperties
  <2>2. 1 \in 1 .. Len(shown) /\ FrontIndex = shown[1].index
    BY <2>1, <1>4 DEF FrontIndex
  <2>3. ASSUME NEW i \in 1 .. Len(shown) PROVE shown[i].index <= shown[1].index
    <3>1. i = 1 \/ 1 < i
      OBVIOUS
    <3>2. 1 < i => shown[1].index > shown[i].index
      BY <1>1, <2>2 DEF Decreasing
    <3> QED BY <3>1, <3>2, <1>2, <2>2
  <2> QED BY <2>2, <2>3, <1>2
<1> QED BY <1>3, <1>4

(* The list after a frame is in order, its front no older than before and   *)
(* no newer than the source, and what is new and passes is in it, or the    *)
(* list is full of what is newer.                                           *)
LEMMA FrameShows ==
  ASSUME ViewerInv, Frame
  PROVE  /\ shown' \in Seq(Message) /\ Decreasing(shown')
         /\ FrontIndex' \in Nat
         /\ FrontIndex <= FrontIndex' /\ FrontIndex' <= Top(published.data)
         /\ \A i \in 1 .. Len(published.data) :
              LET m == published.data[i]
              IN m.index > FrontIndex /\ m \in Passing =>
                   \/ \E j \in 1 .. Len(shown') : shown'[j] = m
                   \/ Len(shown') = Count /\ shown'[Count].index > m.index
<1> DEFINE d == published.data
           fresh == Kept(d, Newer(FrontIndex))
           p == Kept(fresh, Passing)
           all == Reverse(p) \o shown
<1>1. /\ d \in Seq(Message) /\ shown \in Seq(Message)
      /\ Increasing(d) /\ Decreasing(shown)
      /\ FrontIndex <= seen /\ seen <= Top(d) /\ seen \in Nat
  BY DEF ViewerInv, ViewerTypes, ListsInOrder, NewestFirst, Decreasing,
         FrontBehindSource
<1>2. shown' = SubSeq(all, 1, IF Len(all) < Count THEN Len(all) ELSE Count)
  BY DEF Frame, FrameSince
<1>3. Count \in Nat \ {0}
  BY ViewerAssumption
<1>4. \A i \in 1 .. Len(shown) : shown[i].index \in Nat
  BY <1>1, Indexed
<1>5. FrontIndex \in Nat /\ \A i \in 1 .. Len(shown) : shown[i].index <= FrontIndex
  BY FrontIsNewest
<1>6. /\ p \in Seq(Message) /\ Increasing(p)
      /\ \A j \in 1 .. Len(p) :
           p[j].index > FrontIndex /\ \E i \in 1 .. Len(d) : p[j] = d[i]
      /\ \A i \in 1 .. Len(d) : d[i].index > FrontIndex /\ d[i] \in Passing =>
           \E j \in 1 .. Len(p) : p[j] = d[i]
  <2>1. fresh = Kept(d, Newer(FrontIndex)) /\ p = Kept(fresh, Passing)
    OBVIOUS
  <2> HIDE DEF d, fresh, p
  <2> QED BY <1>1, <1>5, <2>1, KeptOfKept
<1> HIDE DEF p
<1>7. \A i \in 1 .. Len(p) : p[i].index \in Nat
  BY <1>6, Indexed
<1>8. AllNewer(p, shown)
  BY <1>4, <1>5, <1>6, <1>7 DEF AllNewer
<1>9. Shows(shown', p, shown, Count)
  <2>1. all \in Seq(Message)
    BY <1>1, <1>6, ReverseIsMirror, ConcatProperties
  <2>2. PICK c \in 0 .. Len(all) :
          /\ c <= Count /\ (c = Count \/ c = Len(all))
          /\ shown' = SubSeq(all, 1, c)
    BY <2>1, <1>2, <1>3, LenProperties
  <2> HIDE DEF d, fresh, all
  <2> QED BY <1>1, <1>3, <1>6, <1>8, <2>2, ShownIsInOrder, Zenon DEF all
<1>10. /\ FrontIndex' \in Nat
       /\ FrontIndex <= FrontIndex' /\ FrontIndex' <= Top(d)
  <2>1. CASE p = << >>
    <3>1. FrontIndex' = FrontIndex
      BY <2>1, <1>9 DEF FrontIndex, Shows
    <3>2. Top(d) \in Nat
      BY <1>1, TopIsNewest
    <3> QED BY <3>1, <3>2, <1>1, <1>5
  <2>2. CASE p # << >>
    <3>1. FrontIndex' = p[Len(p)].index
      BY <2>2, <1>9 DEF FrontIndex, Shows
    <3>2. Len(p) \in 1 .. Len(p)
      BY <2>2, <1>6, TopIsNewest
    <3>3. PICK i \in 1 .. Len(d) : p[Len(p)] = d[i]
      BY <3>2, <1>6
    <3>4. d[i].index <= Top(d)
      BY <1>1, TopIsNewest
    <3>5. p[Len(p)].index > FrontIndex /\ p[Len(p)].index \in Nat
      BY <3>2, <1>6, <1>7
    <3>6. FrontIndex' > FrontIndex /\ FrontIndex' \in Nat /\ FrontIndex' <= Top(d)
      BY <3>1, <3>3, <3>4, <3>5
    <3> QED BY <3>6, <1>5
  <2> QED BY <2>1, <2>2
<1>11. ASSUME NEW i \in 1 .. Len(d), d[i].index > FrontIndex, d[i] \in Passing
       PROVE  \/ \E j \in 1 .. Len(shown') : shown'[j] = d[i]
              \/ Len(shown') = Count /\ shown'[Count].index > d[i].index
  <2>1. PICK j \in 1 .. Len(p) : p[j] = d[i]
    BY <1>6, <1>11
  <2>2. \/ \E k \in 1 .. Len(shown') : shown'[k] = p[j]
        \/ Len(shown') = Count /\ shown'[Count].index > p[j].index
    BY <1>9 DEF Shows
  <2> QED BY <2>1, <2>2
<1> QED BY <1>9, <1>10, <1>11, Zenon DEF Shows

(* The pin takes the newest message of its kind, if there is a new one.     *)
LEMMA PinnedTakesNewest ==
  ASSUME pin \in PinType, NEW fresh, NEW match \in Seq(Message),
         match = Kept(fresh, OfKind(pin.kind)), NEW q, q = Pinned(fresh)
  PROVE  /\ q \in PinType /\ q.kind = pin.kind
         /\ match = << >> => q = pin
         /\ match # << >> => q.last = match[Len(match)].index
<1> DEFINE n == Len(match)
<1>1. n \in Nat /\ (n = 0 <=> match = << >>)
  BY EmptySeq, LenProperties
<1>2. \A i \in 1 .. n : match[i].index \in Nat
  BY Indexed
<1>3. q = CASE n = 0 -> pin
            [] n = 1 -> [pin EXCEPT !.base = pin.last, !.last = match[1].index]
            [] OTHER -> [pin EXCEPT !.base = match[n - 1].index,
                                    !.last = match[n].index]
  BY Zenon DEF Pinned
<1> HIDE DEF n
<1>4. CASE n = 0
  <2>1. q = pin
    BY <1>3, <1>4
  <2> QED BY <2>1, <1>4, <1>1
<1>5. CASE n = 1
  <2>1. q = [pin EXCEPT !.base = pin.last, !.last = match[1].index]
    BY <1>3, <1>5
  <2>2. match[1].index \in Nat
    BY <1>2, <1>5
  <2>3. q \in PinType /\ q.kind = pin.kind /\ q.last = match[1].index
    BY <2>1, <2>2 DEF PinType
  <2> QED BY <2>3, <1>1, <1>5 DEF n
<1>6. CASE n # 0 /\ n # 1
  <2>1. q = [pin EXCEPT !.base = match[n - 1].index, !.last = match[n].index]
    BY <1>3, <1>6
  <2>2. match[n - 1].index \in Nat /\ match[n].index \in Nat
    <3>1. n - 1 \in 1 .. n /\ n \in 1 .. n
      BY <1>1, <1>6
    <3> QED BY <3>1, <1>2
  <2>3. q \in PinType /\ q.kind = pin.kind /\ q.last = match[n].index
    BY <2>1, <2>2 DEF PinType
  <2> QED BY <2>3, <1>1, <1>6 DEF n
<1> QED BY <1>4, <1>5, <1>6

(* A frame never sets a pin back, and what is new of its kind is no newer   *)
(* than what it has then.                                                   *)
LEMMA FramePins ==
  ASSUME ViewerInv, Frame
  PROVE  /\ pin' \in PinType /\ pin'.kind = pin.kind
         /\ pin'.last >= pin.last
         /\ \A i \in 1 .. Len(published.data) :
              LET m == published.data[i]
              IN m.index > FrontIndex /\ m.kind = pin.kind => m.index <= pin'.last
         /\ \/ pin' = pin
            \/ \E i \in 1 .. Len(published.data) :
                 published.data[i] = [index |-> pin'.last, kind |-> pin'.kind]
<1> DEFINE d == published.data
           fresh == Kept(d, Newer(FrontIndex))
           ofKind == OfKind(pin.kind)
           match == Kept(fresh, ofKind)
           n == Len(match)
<1>1. /\ d \in Seq(Message) /\ Increasing(d)
      /\ pin \in PinType
  BY DEF ViewerInv, ViewerTypes, ListsInOrder
<1>2. pin' = Pinned(fresh)
  BY DEF Frame, FrameSince
<1>3. FrontIndex \in Nat
  BY FrontIsNewest
<1>4. /\ match \in Seq(Message) /\ Increasing(match)
      /\ \A j \in 1 .. n : /\ match[j].index > FrontIndex
                           /\ match[j] \in ofKind
                           /\ \E i \in 1 .. Len(d) : match[j] = d[i]
      /\ \A i \in 1 .. Len(d) :
           d[i].index > FrontIndex /\ d[i] \in ofKind =>
             \E j \in 1 .. n : match[j] = d[i]
  <2>1. fresh = Kept(d, Newer(FrontIndex)) /\ match = Kept(fresh, ofKind)
    OBVIOUS
  <2> HIDE DEF d, fresh, match, ofKind
  <2> QED BY <1>1, <1>3, <2>1, KeptOfKept
<1>5. /\ pin' \in PinType /\ pin'.kind = pin.kind
      /\ match = << >> => pin' = pin
      /\ match # << >> => pin'.last = match[n].index
  <2>1. match = Kept(fresh, OfKind(pin.kind)) /\ match \in Seq(Message)
    BY <1>4
  <2> HIDE DEF d, fresh, match
  <2> QED BY <1>1, <1>2, <2>1, PinnedTakesNewest
<1>6. /\ \A i \in 1 .. Len(d) : d[i] \in Message /\ d[i].index \in Nat
      /\ \A j \in 1 .. n : match[j] \in Message /\ match[j].index \in Nat
  BY <1>1, <1>4, Indexed
<1>7. pin.last \in Nat
  BY <1>1 DEF PinType
<1> HIDE DEF d, fresh, match, ofKind
<1>8. ASSUME NEW i \in 1 .. Len(d), d[i].index > FrontIndex, d[i].kind = pin.kind
      PROVE  \E j \in 1 .. n : match[j] = d[i]
  <2>1. d[i] \in ofKind
    BY <1>6, <1>8 DEF ofKind, OfKind, Message
  <2> QED BY <2>1, <1>4, <1>8
<1>9. CASE match = << >>
  <2>1. n = 0
    BY <1>9, EmptySeq
  <2>2. \A i \in 1 .. Len(d) :
          ~ (d[i].index > FrontIndex /\ d[i].kind = pin.kind)
    BY <2>1, <1>8
  <2>3. pin' = pin /\ pin'.last >= pin.last
    BY <1>5, <1>7, <1>9
  <2> QED BY <2>2, <2>3, <1>5 DEF d
<1>10. CASE match # << >>
  <2>1. n \in 1 .. n /\ pin'.last = match[n].index
    BY <1>4, <1>5, <1>10, TopIsNewest
  <2>2. \A j \in 1 .. n : match[j].index <= pin'.last
    BY <1>4, <1>10, <2>1, TopIsNewest
  <2>3. \A i \in 1 .. Len(d) :
          d[i].index > FrontIndex /\ d[i].kind = pin.kind => d[i].index <= pin'.last
    BY <2>2, <1>8
  <2>4. \E i \in 1 .. Len(d) : d[i] = [index |-> pin'.last, kind |-> pin'.kind]
    <3>1. PICK i \in 1 .. Len(d) : match[n] = d[i]
      BY <2>1, <1>4
    <3>2. match[n] \in OfKind(pin.kind)
      BY <2>1, <1>4 DEF ofKind
    <3>3. match[n] = [index |-> match[n].index, kind |-> pin.kind]
      BY <3>2 DEF OfKind
    <3> QED BY <3>1, <3>3, <2>1, <1>5
  <2>5. pin'.last >= pin.last
    <3>1. match[n].index > FrontIndex /\ match[n].index \in Nat
      BY <2>1, <1>4, <1>6
    <3>2. CASE pin.last <= FrontIndex
      BY <3>1, <3>2, <2>1, <1>3, <1>7
    <3>3. CASE ~ (pin.last <= FrontIndex)
      <4>1. Accounted(PinMessage, d)
        BY <3>3 DEF ViewerInv, PinAccounted, d
      <4>2. PinMessage.index = pin.last /\ PinMessage.kind = pin.kind
        BY DEF PinMessage
      <4>3. CASE \E i \in 1 .. Len(d) : d[i] = PinMessage
        <5>1. PICK i \in 1 .. Len(d) : d[i] = PinMessage
          BY <4>3
        <5>2. d[i].index > FrontIndex /\ d[i].kind = pin.kind
          BY <5>1, <4>2, <3>3, <1>3, <1>7
        <5>3. d[i].index <= pin'.last
          BY <5>2, <2>3
        <5> QED BY <5>1, <5>3, <4>2, <2>1, <3>1, <1>7
      <4>4. CASE \A i \in 1 .. Len(d) : d[i].index > PinMessage.index
        <5>1. PICK i \in 1 .. Len(d) : match[n] = d[i]
          BY <2>1, <1>4
        <5> QED BY <5>1, <4>4, <4>2, <2>1, <3>1, <1>7
      <4> QED BY <4>1, <4>3, <4>4 DEF Accounted
    <3> QED BY <3>2, <3>3
  <2> QED BY <2>3, <2>4, <2>5, <1>5 DEF d
<1> QED BY <1>9, <1>10

-----------------------------------------------------------------------------
(* The invariant.                                                           *)

LEMMA ViewerInitInv == Init => ViewerInv
<1> SUFFICES ASSUME Init PROVE ViewerInv
  OBVIOUS
<1>1. << >> \in Seq(Message) /\ Len(<< >>) = 0
  BY EmptySeq
<1>2. ViewerTypes
  <2>1. pin \in PinType
    BY DEF Init, NoPin, PinType
  <2> QED BY <1>1, <2>1 DEF Init, ViewerTypes
<1>3. 1 .. Len(<< >>) = {}
  BY <1>1
<1>4. data = << >> /\ published.data = << >> /\ shown = << >>
  BY DEF Init
<1>5. ListsInOrder
  BY <1>3, <1>4, Zenon DEF ListsInOrder, Increasing, NewestFirst
<1>6. FrontBehindSource
  BY <1>4 DEF Init, FrontBehindSource, FrontIndex, Top
<1>7. SentAccounted
  BY <1>3, <1>4, Zenon DEF SentAccounted
<1>8. PinAccounted
  BY <1>4 DEF Init, NoPin, PinAccounted, FrontIndex
<1> QED BY <1>2, <1>5, <1>6, <1>7, <1>8 DEF ViewerInv

(* What reads the lists only leaves the invariant.                          *)
LEMMA ListsStay ==
  ASSUME ViewerInv, rcv' \in Kinds \cup {Nothing},
         UNCHANGED <<index, seen, data, shown, published, pin>>
  PROVE  ViewerInv'
<1>1. ViewerTypes'
  BY DEF ViewerInv, ViewerTypes
<1>2. ListsInOrder'
  BY DEF ViewerInv, ListsInOrder, NewestFirst, Increasing
<1>3. FrontBehindSource'
  BY DEF ViewerInv, FrontBehindSource, FrontIndex, Top
<1>4. SentAccounted'
  BY DEF ViewerInv, SentAccounted, Accounted
<1>5. PinAccounted'
  BY DEF ViewerInv, PinAccounted, PinMessage, FrontIndex, Accounted
<1> QED BY <1>1, <1>2, <1>3, <1>4, <1>5 DEF ViewerInv

LEMMA PinMessageTyped ==
  ASSUME ViewerInv
  PROVE  /\ PinMessage \in [index : Nat, kind : Kinds \cup {Nothing}]
         /\ PinMessage.index = pin.last /\ pin.last \in Nat
<1>1. pin \in PinType
  BY DEF ViewerInv, ViewerTypes
<1> QED BY <1>1 DEF PinType, PinMessage

(* A message is a record that a pin could measure to.                       *)
LEMMA MessageTyped ==
  ASSUME NEW m \in Message
  PROVE  m \in [index : Nat, kind : Kinds \cup {Nothing}]
BY DEF Message

LEMMA StoreInv ==
  ASSUME ViewerInv, Store
  PROVE  ViewerInv'
<1>1. UNCHANGED <<seen, shown, published, pin>> /\ rcv' = Nothing
  BY DEF Store, guiVars
<1>2. CASE control.command = "Process" /\ rcv # Nothing
  <2> DEFINE x == [index |-> index + 1, kind |-> rcv]
  <2>1. index' = index + 1 /\ data' = Append(Newest(data, MaxMessages), x)
    BY <1>2 DEF Store
  <2>2. /\ index \in Nat /\ rcv \in Kinds
        /\ data \in Seq(Message) /\ Increasing(data) /\ Top(data) = index
        /\ published.data \in Seq(Message) /\ Increasing(published.data)
        /\ Top(published.data) <= index
    BY <1>2 DEF ViewerInv, ViewerTypes, ListsInOrder, FrontBehindSource
  <2>3. x \in Message /\ x.index = index + 1
    BY <2>2 DEF Message
  <2>4. MaxMessages \in Nat \ {0}
    BY ViewerAssumption
  <2>5. \A i \in 1 .. Len(data) : data[i].index < x.index
    <3>1. \A i \in 1 .. Len(data) : data[i].index <= Top(data)
      BY <2>2, TopIsNewest
    <3>2. \A i \in 1 .. Len(data) : data[i].index \in Nat
      BY <2>2, Indexed
    <3> QED BY <3>1, <3>2, <2>2, <2>3
  <2> HIDE DEF x
  <2>6. /\ data' \in Seq(Message) /\ Increasing(data')
        /\ Top(data') = x.index
        /\ \A m \in [index : Nat, kind : Kinds \cup {Nothing}] :
             m.index < x.index /\ Accounted(m, data) => Accounted(m, data')
    BY <2>1, <2>2, <2>3, <2>4, <2>5, StoreKeeps
  <2>7. ViewerTypes'
    BY <1>1, <2>1, <2>2, <2>6 DEF ViewerInv, ViewerTypes
  <2>8. ListsInOrder'
    BY <1>1, <2>6 DEF ViewerInv, ListsInOrder, NewestFirst
  <2>9. FrontBehindSource'
    <3>1. /\ FrontIndex' = FrontIndex /\ Top(published.data)' = Top(published.data)
          /\ seen' = seen
      BY <1>1 DEF FrontIndex, Top
    <3>2. Top(published.data) \in Nat
      BY <2>2, TopIsNewest
    <3>3. Top(published.data) <= index'
      BY <3>2, <2>1, <2>2
    <3> QED BY <3>1, <3>3, <2>1, <2>3, <2>6 DEF ViewerInv, FrontBehindSource
  <2>10. SentAccounted'
    <3>1. ASSUME NEW i \in 1 .. Len(published.data)
          PROVE  Accounted(published.data[i], data')
      <4>1. published.data[i] \in Message /\ published.data[i].index \in Nat
        BY <2>2, Indexed
      <4>2. published.data[i] \in [index : Nat, kind : Kinds \cup {Nothing}]
        BY <4>1, MessageTyped
      <4>3. published.data[i].index <= Top(published.data) /\ Top(published.data) \in Nat
        BY <2>2, TopIsNewest
      <4>4. published.data[i].index < x.index
        BY <4>1, <4>3, <2>2, <2>3
      <4>5. Accounted(published.data[i], data)
        BY DEF ViewerInv, SentAccounted
      <4> QED BY <4>2, <4>4, <4>5, <2>6
    <3> QED BY <3>1, <1>1 DEF SentAccounted
  <2>11. PinAccounted'
    <3>1. FrontIndex' = FrontIndex /\ PinMessage' = PinMessage
      BY <1>1 DEF FrontIndex, PinMessage
    <3>2. CASE pin.last <= FrontIndex
      BY <3>1, <3>2, <1>1 DEF PinAccounted
    <3>3. CASE ~ (pin.last <= FrontIndex)
      <4>1. /\ pin.last <= index /\ Accounted(PinMessage, data)
            /\ Accounted(PinMessage, published.data)
        BY <3>3 DEF ViewerInv, PinAccounted
      <4>2. /\ PinMessage \in [index : Nat, kind : Kinds \cup {Nothing}]
            /\ PinMessage.index = pin.last /\ pin.last \in Nat
        BY PinMessageTyped
      <4>3. PinMessage.index < x.index /\ pin.last <= index'
        BY <4>1, <4>2, <2>1, <2>2, <2>3
      <4>4. Accounted(PinMessage, data')
        BY <4>1, <4>2, <4>3, <2>6
      <4> QED BY <4>1, <4>3, <4>4, <3>1, <1>1 DEF PinAccounted
    <3> QED BY <3>2, <3>3
  <2> QED BY <2>7, <2>8, <2>9, <2>10, <2>11 DEF ViewerInv
<1>3. CASE ~ (control.command = "Process" /\ rcv # Nothing)
  BY <1>1, <1>3, ListsStay DEF Store
<1> QED BY <1>2, <1>3

LEMMA SendInv ==
  ASSUME ViewerInv, Send
  PROVE  ViewerInv'
<1>1. /\ UNCHANGED <<rcv, index, seen, shown, data, pin>>
      /\ published'.data = data
  BY DEF Send, SendAs, guiVars
<1>2. /\ index \in Nat /\ seen \in Nat
      /\ data \in Seq(Message) /\ Increasing(data) /\ Top(data) = index
      /\ published.data \in Seq(Message) /\ Increasing(published.data)
      /\ seen <= Top(published.data) /\ Top(published.data) <= index
  BY DEF ViewerInv, ViewerTypes, ListsInOrder, FrontBehindSource
<1>3. ViewerTypes'
  BY <1>1 DEF ViewerInv, ViewerTypes
<1>4. ListsInOrder'
  BY <1>1 DEF ViewerInv, ListsInOrder, NewestFirst
<1>5. FrontBehindSource'
  <2>1. FrontIndex' = FrontIndex /\ Top(published.data)' = Top(data) /\ Top(data)' = Top(data)
    BY <1>1 DEF FrontIndex, Top
  <2>2. Top(published.data) \in Nat
    BY <1>2, TopIsNewest
  <2>3. seen <= index /\ index <= index
    BY <1>2, <2>2
  <2> QED BY <2>1, <2>3, <1>1, <1>2 DEF ViewerInv, FrontBehindSource
<1>6. SentAccounted'
  <2>1. \A i \in 1 .. Len(data) : Accounted(data[i], data)
    BY DEF Accounted
  <2> QED BY <2>1, <1>1 DEF SentAccounted
<1>7. PinAccounted'
  <2>1. FrontIndex' = FrontIndex /\ PinMessage' = PinMessage
    BY <1>1 DEF FrontIndex, PinMessage
  <2> QED BY <2>1, <1>1 DEF ViewerInv, PinAccounted
<1> QED BY <1>3, <1>4, <1>5, <1>6, <1>7 DEF ViewerInv

LEMMA FrameInv ==
  ASSUME ViewerInv, Frame
  PROVE  ViewerInv'
<1> DEFINE d == published.data
<1>1. /\ UNCHANGED <<rcv, index, data, published>>
      /\ seen' = IF d = << >> THEN seen ELSE Last(d).index
  BY DEF Frame, FrameSince, driverVars
<1>2. /\ index \in Nat /\ seen \in Nat
      /\ d \in Seq(Message) /\ Increasing(d)
      /\ seen <= Top(d) /\ Top(d) <= index
  BY DEF ViewerInv, ViewerTypes, ListsInOrder, FrontBehindSource
<1>3. seen' = Top(d) /\ Top(d) \in Nat
  <2>1. Top(d) \in Nat
    BY <1>2, TopIsNewest
  <2>2. CASE d = << >>
    <3>1. Top(d) = 0 /\ seen' = seen
      BY <1>1, <2>2 DEF Top
    <3> QED BY <3>1, <2>1, <1>2
  <2>3. CASE d # << >>
    BY <2>1, <2>3, <1>1 DEF Top, Last
  <2> QED BY <2>2, <2>3
<1>4. /\ shown' \in Seq(Message) /\ Decreasing(shown')
      /\ FrontIndex' \in Nat
      /\ FrontIndex <= FrontIndex' /\ FrontIndex' <= Top(d)
  BY FrameShows
<1>5. /\ pin' \in PinType
      /\ \/ pin' = pin
         \/ \E i \in 1 .. Len(d) : d[i] = [index |-> pin'.last, kind |-> pin'.kind]
  BY FramePins
<1>6. ViewerTypes'
  BY <1>1, <1>3, <1>4, <1>5 DEF ViewerInv, ViewerTypes
<1>7. ListsInOrder'
  BY <1>1, <1>4 DEF ViewerInv, ListsInOrder, NewestFirst, Decreasing
<1>8. FrontBehindSource'
  <2>1. Top(published.data)' = Top(d) /\ Top(data)' = Top(data)
    BY <1>1 DEF Top
  <2>2. Top(d) <= Top(d)
    BY <1>3
  <2> QED BY <2>1, <2>2, <1>1, <1>3, <1>4 DEF ViewerInv, FrontBehindSource
<1>9. SentAccounted'
  BY <1>1 DEF ViewerInv, SentAccounted
<1>10. PinAccounted'
  <2>1. CASE pin' = pin
    <3>1. PinMessage' = PinMessage
      BY <2>1 DEF PinMessage
    <3>2. CASE pin.last <= FrontIndex
      <4>1. FrontIndex \in Nat /\ pin.last \in Nat
        BY FrontIsNewest, PinMessageTyped
      <4>2. pin'.last <= FrontIndex'
        BY <4>1, <3>2, <2>1, <1>4
      <4> QED BY <4>2 DEF PinAccounted
    <3>3. CASE ~ (pin.last <= FrontIndex)
      BY <3>1, <3>3, <2>1, <1>1 DEF ViewerInv, PinAccounted
    <3> QED BY <3>2, <3>3
  <2>2. CASE \E i \in 1 .. Len(d) : d[i] = [index |-> pin'.last, kind |-> pin'.kind]
    <3>1. PICK i \in 1 .. Len(d) : d[i] = PinMessage'
      BY <2>2 DEF PinMessage
    <3>2. d[i].index <= Top(d) /\ d[i].index \in Nat
      BY <1>2, Indexed, TopIsNewest
    <3>3. PinMessage'.index = pin'.last
      BY DEF PinMessage
    <3>4. pin'.last <= index'
      BY <3>1, <3>2, <3>3, <1>1, <1>2, <1>3
    <3>5. Accounted(PinMessage, data)' /\ Accounted(PinMessage, published.data)'
      <4>1. Accounted(d[i], data) /\ Accounted(d[i], d)
        BY DEF ViewerInv, SentAccounted, Accounted
      <4> QED BY <4>1, <3>1, <1>1
    <3> QED BY <3>4, <3>5 DEF PinAccounted
  <2> QED BY <2>1, <2>2, <1>5
<1> QED BY <1>6, <1>7, <1>8, <1>9, <1>10 DEF ViewerInv

LEMMA PinFilterInv ==
  ASSUME ViewerInv, PinFilter
  PROVE  ViewerInv'
<1>1. UNCHANGED <<index, seen, rcv, data, shown, published>>
  BY DEF PinFilter, driverVars
<1>2. PICK k \in Kinds :
        pin' = [kind |-> k, base |-> 0,
                last |-> IF Kept(shown, OfKind(k)) = << >> THEN 0
                         ELSE Kept(shown, OfKind(k))[1].index]
  BY DEF PinFilter
<1> DEFINE match == Kept(shown, OfKind(k))
<1>3. shown \in Seq(Message)
  BY DEF ViewerInv, ViewerTypes
<1>4. IsKept(match, shown, Len(shown), OfKind(k), Message)
  BY <1>3, KeptIsKept
<1>5. FrontIndex \in Nat /\ \A i \in 1 .. Len(shown) : shown[i].index <= FrontIndex
  BY FrontIsNewest
<1>6. pin'.last \in Nat /\ pin'.last <= FrontIndex
  <2>1. CASE match = << >>
    <3>1. pin'.last = 0
      BY <1>2, <2>1
    <3> QED BY <3>1, <1>5
  <2>2. CASE match # << >>
    <3>1. pin'.last = match[1].index
      BY <1>2, <2>2
    <3>2. match \in Seq(Message)
      BY <1>4 DEF IsKept
    <3> HIDE DEF match
    <3>3. 1 \in 1 .. Len(match)
      BY <2>2, <3>2, EmptySeq, LenProperties
    <3>4. PICK i \in 1 .. Len(shown) : match[1] = shown[i]
      BY <3>3, <1>4 DEF IsKept
    <3>5. match[1].index \in Nat
      BY <3>2, <3>3, Indexed
    <3> QED BY <3>1, <3>4, <3>5, <1>5
  <2> QED BY <2>1, <2>2
<1>7. pin' \in PinType
  <2>1. pin'.last \in Nat /\ pin' = [kind |-> k, base |-> 0, last |-> pin'.last]
    BY <1>2, <1>6
  <2> QED BY <2>1 DEF PinType
<1>8. ViewerTypes'
  BY <1>1, <1>7 DEF ViewerInv, ViewerTypes
<1>9. ListsInOrder' /\ SentAccounted'
  BY <1>1 DEF ViewerInv, ListsInOrder, NewestFirst, SentAccounted
<1>10. FrontBehindSource'
  BY <1>1 DEF ViewerInv, FrontBehindSource, FrontIndex
<1>11. PinAccounted'
  <2>1. FrontIndex' = FrontIndex
    BY <1>1 DEF FrontIndex
  <2> QED BY <2>1, <1>6 DEF PinAccounted
<1> QED BY <1>8, <1>9, <1>10, <1>11 DEF ViewerInv

LEMMA UnpinInv ==
  ASSUME ViewerInv, Unpin
  PROVE  ViewerInv'
<1>1. UNCHANGED <<index, seen, rcv, data, shown, published>> /\ pin' = NoPin
  BY DEF Unpin, driverVars
<1>2. pin'.last = 0 /\ pin' \in PinType
  BY <1>1 DEF NoPin, PinType
<1>3. ViewerTypes'
  BY <1>1, <1>2 DEF ViewerInv, ViewerTypes
<1>4. ListsInOrder' /\ SentAccounted'
  BY <1>1 DEF ViewerInv, ListsInOrder, NewestFirst, SentAccounted
<1>5. FrontBehindSource'
  BY <1>1 DEF ViewerInv, FrontBehindSource, FrontIndex
<1>6. PinAccounted'
  <2>1. FrontIndex' = FrontIndex /\ FrontIndex \in Nat
    BY <1>1, FrontIsNewest DEF FrontIndex
  <2> QED BY <2>1, <1>2 DEF PinAccounted
<1> QED BY <1>3, <1>4, <1>5, <1>6 DEF ViewerInv

LEMMA ViewerStepInv == ViewerInv /\ [Next]_vars => ViewerInv'
<1> SUFFICES ASSUME ViewerInv, [Next]_vars PROVE ViewerInv'
  OBVIOUS
<1> DEFINE lists == <<index, seen, data, shown, published, pin>>
           RcvTyped == rcv \in Kinds \cup {Nothing}
<1>1. RcvTyped
  BY DEF ViewerInv, ViewerTypes
<1>2. CASE Driver
  <2>1. CASE Select
    <3>1. UNCHANGED lists /\ RcvTyped'
      BY <2>1 DEF Select, guiVars
    <3> QED BY <3>1, ListsStay
  <2>2. CASE SelectCtrlC
    <3>1. UNCHANGED lists /\ RcvTyped'
      BY <2>2, <1>1 DEF SelectCtrlC, guiVars
    <3> QED BY <3>1, ListsStay
  <2>3. CASE ReadControl
    <3>1. UNCHANGED lists /\ RcvTyped'
      BY <2>3, <1>1 DEF ReadControl, ReadControlIf, guiVars
    <3> QED BY <3>1, ListsStay
  <2>4. CASE Store
    BY <2>4, StoreInv
  <2>5. CASE Send
    BY <2>5, SendInv
  <2> QED BY <1>2, <2>1, <2>2, <2>3, <2>4, <2>5 DEF Driver
<1>3. CASE Frame
  BY <1>3, FrameInv
<1>4. CASE User
  <2>1. CASE Idle \/ ToggleStop \/ Connect \/ SetFilter \/ CloseWindow
    <3>1. UNCHANGED lists /\ UNCHANGED rcv
      BY <2>1 DEF Idle, ToggleStop, Connect, SetFilter, CloseWindow, driverVars
    <3> QED BY <3>1, <1>1, ListsStay
  <2>2. CASE PinFilter
    BY <2>2, PinFilterInv
  <2>3. CASE Unpin
    BY <2>3, UnpinInv
  <2> QED BY <1>4, <2>1, <2>2, <2>3 DEF User
<1>5. CASE SendArgument \/ CtrlC \/ DropRuntime \/ UNCHANGED vars
  <2>1. UNCHANGED lists /\ UNCHANGED rcv
    BY <1>5 DEF SendArgument, CtrlC, DropRuntime, vars, driverVars, guiVars
  <2> QED BY <2>1, <1>1, ListsStay
<1> QED BY <1>2, <1>3, <1>4, <1>5 DEF Next

-----------------------------------------------------------------------------
(* Theorems.                                                                *)

(* The invariant of the whole viewer: both lists in order, the front of the *)
(* window's list no newer than what was seen, seen no newer than sent, sent *)
(* no newer than stored.                                                    *)
THEOREM ViewerInvariant == Spec => []ViewerInv
<1>1. Init => ViewerInv
  BY ViewerInitInv
<1>2. ViewerInv /\ [Next]_vars => ViewerInv'
  BY ViewerStepInv
<1> QED BY <1>1, <1>2, PTL DEF Spec

(* get_data_from_driver never shows a message twice and never out of order, *)
(* although it compares with the front of a filtered list only.             *)
THEOREM ListIsNewestFirst == Spec => []NewestFirst
<1>1. ViewerInv => NewestFirst
  BY DEF ViewerInv, ListsInOrder
<1> QED BY <1>1, ViewerInvariant, PTL

(* Only a frame looks at the source.                                        *)
LEMMA OnlyFramesSee ==
  ASSUME [Next]_vars
  PROVE  /\ seen' # seen => Frame
         /\ pcG = "frame" /\ pcG' # pcG => Frame
<1>1. CASE Driver
  <2>1. UNCHANGED <<seen, pcG>>
    BY <1>1 DEF Driver, Select, SelectCtrlC, ReadControl, ReadControlIf, Store,
                Send, SendAs, guiVars
  <2> QED BY <2>1
<1>2. CASE Frame
  BY <1>2
<1>3. CASE User
  <2>1. seen' = seen /\ pcG = "ui"
    BY <1>3 DEF User, Idle, ToggleStop, Connect, SetFilter, PinFilter, Unpin,
                CloseWindow, UserDoes
  <2> QED BY <2>1
<1>4. CASE SendArgument \/ CtrlC \/ DropRuntime \/ UNCHANGED vars
  <2>1. UNCHANGED <<seen, pcG>>
    BY <1>4 DEF SendArgument, CtrlC, DropRuntime, vars, guiVars
  <2> QED BY <2>1
<1> QED BY <1>1, <1>2, <1>3, <1>4 DEF Next

(* No frame passes over a message: what is new and passes the filter is     *)
(* shown, or the list is full of newer ones.                                *)
THEOREM NothingNewIsSkipped == Spec => NewOnesShown
<1>1. ViewerInv /\ [Next]_vars =>
        [\A i \in 1 .. Len(published.data) :
           LET m == published.data[i]
           IN seen' # seen /\ m.index > seen /\ m \in Passing
                => \/ m \in ToSet(shown')
                   \/ Len(shown') = Count /\ Last(shown').index > m.index]_vars
  <2> SUFFICES ASSUME ViewerInv, [Next]_vars, seen' # seen,
                      NEW i \in 1 .. Len(published.data),
                      published.data[i].index > seen,
                      published.data[i] \in Passing
               PROVE  \/ published.data[i] \in ToSet(shown')
                      \/ /\ Len(shown') = Count
                         /\ Last(shown').index > published.data[i].index
    OBVIOUS
  <2> DEFINE m == published.data[i]
  <2>1. Frame
    BY OnlyFramesSee
  <2>2. m.index > FrontIndex
    <3>1. published.data \in Seq(Message) /\ seen \in Nat /\ FrontIndex <= seen
      BY DEF ViewerInv, ViewerTypes, FrontBehindSource
    <3>2. m.index \in Nat
      BY <3>1, Indexed
    <3>3. FrontIndex \in Nat
      BY FrontIsNewest
    <3>4. m.index > seen
      OBVIOUS
    <3> HIDE DEF m
    <3> QED BY <3>1, <3>2, <3>3, <3>4
  <2>3. \/ \E j \in 1 .. Len(shown') : shown'[j] = m
        \/ Len(shown') = Count /\ shown'[Count].index > m.index
    BY <2>1, <2>2, FrameShows
  <2>4. shown' \in Seq(Message)
    BY <2>1, FrameShows
  <2>5. CASE \E j \in 1 .. Len(shown') : shown'[j] = m
    <3>1. DOMAIN shown' = 1 .. Len(shown')
      BY <2>4, LenProperties
    <3>2. m \in ToSet(shown')
      BY <3>1, <2>5 DEF ToSet
    <3> QED BY <3>2
  <2>6. CASE Len(shown') = Count /\ shown'[Count].index > m.index
    BY <2>6 DEF Last
  <2> QED BY <2>3, <2>5, <2>6
<1> QED BY <1>1, ViewerInvariant, PTL DEF Spec, NewOnesShown

(* push_data gets what is new before the global filter does: a pin never    *)
(* falls back and has every new message of its kind, hidden or not.         *)
THEOREM PinsFollow == Spec => PinFollows
<1>1. ViewerInv /\ [Next]_vars =>
        [pcG = "frame" /\ pcG' # pcG /\ pin # NoPin =>
           /\ pin'.last >= pin.last
           /\ \A m \in ToSet(published.data) :
                m.index > seen /\ m.kind = pin.kind => m.index <= pin'.last]_vars
  <2> SUFFICES ASSUME ViewerInv, [Next]_vars, pcG = "frame", pcG' # pcG
               PROVE  /\ pin'.last >= pin.last
                      /\ \A m \in ToSet(published.data) :
                           m.index > seen /\ m.kind = pin.kind =>
                             m.index <= pin'.last
    OBVIOUS
  <2>1. Frame
    BY OnlyFramesSee
  <2>2. pin'.last >= pin.last
    BY <2>1, FramePins
  <2>3. /\ published.data \in Seq(Message) /\ seen \in Nat
        /\ FrontIndex <= seen /\ FrontIndex \in Nat
    BY FrontIsNewest DEF ViewerInv, ViewerTypes, FrontBehindSource
  <2>4. ASSUME NEW m \in ToSet(published.data), m.index > seen, m.kind = pin.kind
        PROVE  m.index <= pin'.last
    <3>1. PICK i \in 1 .. Len(published.data) : published.data[i] = m
      <4>1. DOMAIN published.data = 1 .. Len(published.data)
        BY <2>3, LenProperties
      <4> QED BY <4>1 DEF ToSet
    <3>2. m.index \in Nat
      BY <3>1, <2>3, Indexed
    <3>3. m.index > FrontIndex
      BY <3>2, <2>3, <2>4
    <3> QED BY <3>1, <3>3, <2>1, <2>4, FramePins
  <2> QED BY <2>2, <2>4
<1> QED BY <1>1, ViewerInvariant, PTL DEF Spec, PinFollows
=============================================================================
