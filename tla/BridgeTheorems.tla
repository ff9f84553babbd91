--------------------------- MODULE BridgeTheorems ---------------------------
(***************************************************************************)
(* Bridge for every number of connections and frames, and FrameCodec for   *)
(* every set of identifiers and lengths, every payload limit and every     *)
(* number of bridges in a row.                                             *)
(*                                                                         *)
(* The invariant of Bridge has two layers.  SocketInv speaks of the two    *)
(* threads and the sockets only: while the manager has no connection,      *)
(* self.sock is None (IdleMeansNone); the connection it is about to store  *)
(* is the newest (NewestIsStored), and the one a client keeps from a round *)
(* that failed is a real one, so that closing it makes none new; and a     *)
(* socket the main thread still holds is never newer than self.sock        *)
(* (TakenIsOlder).  StreamInv then says what has been written: only to     *)
(* connections not newer than the one in use, and a torn record is the     *)
(* last on a connection that can never be written again.                   *)
(*                                                                         *)
(* The invariant of FrameCodec says the same of the frame on the bus       *)
(* (OnBus) and of its record on the connection (OnWire).                   *)
(***************************************************************************)
EXTENDS Bridge, FrameCodec, SequenceTheorems, TLAPS

Entry == [num : 1 .. MaxMsgs, whole : BOOLEAN]

Stopping == {"setEvent", "shutdown", "close", "done", "exited"}

SocketTypes ==
  /\ cfg \in [role : {"server", "client"}, keepalive : BOOLEAN]
  /\ stopEvent \in BOOLEAN
  /\ sock \in Conns \cup {NoSock}
  /\ local \in [Conns -> {"none", "open", "closed"}]
  /\ shut \in SUBSET Conns
  /\ peer \in [Conns -> {"up", "closed", "vanished", "reset"}]
  /\ pcC \in {"recv", "take", "send", "sending"} \cup Stopping
  /\ pcM \in {"check", "open", "wait", "connecting", "store", "loop", "grab", "recv",
              "blocked", "cleanup", "delay", "done"}
  /\ sC \in Conns \cup {NoSock} /\ sM \in Conns \cup {NoSock}
  /\ pcC \in {"send", "sending"} => sC \in Conns
  /\ pcM \in {"store", "recv", "blocked"} => sM \in Conns

StopIsFlagged == pcC \in {"shutdown", "close", "done", "exited"} => stopEvent

IdleMeansNone ==
  /\ pcM \in {"check", "open", "wait", "connecting", "store", "delay"} => sock = NoSock
  /\ pcM = "done" => sock = NoSock \/ pcC = "exited"
  /\ pcC = "exited" => pcM = "done"

NewestIsStored ==
  /\ \A d, e \in Conns : d < e /\ local[d] = "none" => local[e] = "none"
  /\ sM # NoSock => local[sM] # "none"
  /\ pcM = "store" => /\ local[sM] = "open"
                      /\ \A d \in Conns : sM < d => local[d] = "none"

TakenIsOlder ==
  /\ sock # NoSock => local[sock] # "none"
  /\ pcC \in {"send", "sending"} =>
       /\ local[sC] # "none"
       /\ sock # NoSock => sC <= sock

SocketInv ==
  /\ SocketTypes
  /\ StopIsFlagged
  /\ IdleMeansNone
  /\ NewestIsStored
  /\ TakenIsOlder
  /\ OpenSocketIsOwned

-----------------------------------------------------------------------------
LEMMA ConnsAreNumbers == Conns \subseteq Nat \ {0} /\ NoSock \notin Conns
BY BridgeAssumption DEF Conns, NoSock

LEMMA InitSocketInv == Init => SocketInv
BY ConnsAreNumbers DEF Init, SocketInv, SocketTypes, Stopping, StopIsFlagged, IdleMeansNone,
   NewestIsStored, TakenIsOlder, OpenSocketIsOwned, NoSock

(* What the main thread does before stop().                                 *)
LEMMA SendingKeepsSockets ==
  ASSUME SocketInv, BusRecv \/ MainSends \/ Interrupt, UNCHANGED <<cfg, pcM, sM>>
  PROVE  SocketInv'
<1>1. CASE BusRecv \/ Interrupt
  BY <1>1 DEF BusRecv, Interrupt, sockVars, SocketInv, SocketTypes, Stopping, StopIsFlagged,
     IdleMeansNone, NewestIsStored, TakenIsOlder, OpenSocketIsOwned, OpeningConn
<1>2. CASE TakeSock
  BY <1>2, ConnsAreNumbers DEF TakeSock, TakeSockThen, sockVars, SocketInv, SocketTypes,
     Stopping, StopIsFlagged, IdleMeansNone, NewestIsStored, TakenIsOlder, OpenSocketIsOwned,
     OpeningConn
<1>3. CASE SendSome \/ SendRest
  BY <1>3 DEF SendSome, SendRest, SendRestTo, sockVars, SocketInv, SocketTypes, Stopping,
     StopIsFlagged, IdleMeansNone, NewestIsStored, TakenIsOlder, OpenSocketIsOwned, OpeningConn
<1>4. CASE SendFails
  BY <1>4 DEF SendFails, SendFailsThen, SocketInv, SocketTypes, Stopping, StopIsFlagged,
     IdleMeansNone, NewestIsStored, TakenIsOlder, OpenSocketIsOwned, OpeningConn
<1> QED
  BY <1>1, <1>2, <1>3, <1>4 DEF MainSends

(* stop().                                                                  *)
LEMMA StoppingKeepsSockets ==
  ASSUME SocketInv, MainStops, UNCHANGED <<cfg, pcM, sM>>
  PROVE  SocketInv'
<1>1. CASE StopSetEvent
  BY <1>1 DEF StopSetEvent, sockVars, SocketInv, SocketTypes, Stopping, StopIsFlagged,
     IdleMeansNone, NewestIsStored, TakenIsOlder, OpenSocketIsOwned, OpeningConn
<1>2. CASE StopShutdown
  <2>1. /\ pcC = "shutdown" /\ pcC' = "close" /\ shut' \in SUBSET Conns
        /\ UNCHANGED <<sock, local, peer, stopEvent, sC, cfg, pcM, sM>>
    BY <1>2 DEF StopShutdown, ShutdownOf, SocketInv, SocketTypes
  <2> QED
    BY <2>1 DEF SocketInv, SocketTypes, Stopping, StopIsFlagged, IdleMeansNone,
       NewestIsStored, TakenIsOlder, OpenSocketIsOwned, OpeningConn
<1>3. CASE StopClose
  BY <1>3, ConnsAreNumbers DEF StopClose, Close, SocketInv, SocketTypes, Stopping,
     StopIsFlagged, IdleMeansNone, NewestIsStored, TakenIsOlder, OpenSocketIsOwned, OpeningConn
<1> QED
  BY <1>1, <1>2, <1>3 DEF MainStops

(* The manager thread.                                                      *)
LEMMA ManagerKeepsSockets ==
  ASSUME SocketInv, Manager
  PROVE  SocketInv'
<1> USE DEF Manager, ManagerGoes, mainVars
<1>1. CASE ManagerCheck \/ OpenListener \/ NoConnection \/ LoopCheck \/ Delay
  BY <1>1 DEF ManagerCheck, OpenListener, NoConnection, LoopCheck, Delay, sockVars,
     SocketInv, SocketTypes, Stopping, StopIsFlagged, IdleMeansNone, NewestIsStored,
     TakenIsOlder, OpenSocketIsOwned, OpeningConn
<1>2. CASE Connected
  BY <1>2, ConnsAreNumbers DEF Connected, Close, SocketInv, SocketTypes, Stopping, StopIsFlagged,
     IdleMeansNone, NewestIsStored, TakenIsOlder, OpenSocketIsOwned, OpeningConn
<1>3. CASE SetupFailsInServer
  BY <1>3, ConnsAreNumbers DEF SetupFailsInServer, Close, SocketInv, SocketTypes, Stopping,
     StopIsFlagged, IdleMeansNone, NewestIsStored, TakenIsOlder, OpenSocketIsOwned, OpeningConn
<1>9. CASE SetupFailsInClient
  <2>1. pcM = "store" /\ pcM' = "wait" /\ cfg.role = "client"
        /\ UNCHANGED <<sock, local, shut, peer, stopEvent, pcC, sC, cfg, sM>>
    BY <1>9 DEF SetupFailsInClient, sockVars
  <2> QED
    BY <2>1 DEF SocketInv, SocketTypes, Stopping, StopIsFlagged, IdleMeansNone,
       NewestIsStored, TakenIsOlder, OpenSocketIsOwned, OpeningConn
<1>4. CASE StoreSock
  BY <1>4, ConnsAreNumbers DEF StoreSock, Close, SocketInv, SocketTypes, Stopping,
     StopIsFlagged, IdleMeansNone, NewestIsStored, TakenIsOlder, OpenSocketIsOwned, OpeningConn
<1>5. CASE GrabSock
  BY <1>5, ConnsAreNumbers DEF GrabSock, sockVars, SocketInv, SocketTypes, Stopping,
     StopIsFlagged, IdleMeansNone, NewestIsStored, TakenIsOlder, OpenSocketIsOwned, OpeningConn
<1>6. CASE RecvCall \/ RecvData \/ RecvEnds
  BY <1>6 DEF RecvCall, RecvData, RecvEnds, sockVars, SocketInv, SocketTypes, Stopping,
     StopIsFlagged, IdleMeansNone, NewestIsStored, TakenIsOlder, OpenSocketIsOwned, OpeningConn
<1>7. CASE CleanUp
  BY <1>7, ConnsAreNumbers DEF CleanUp, CleanUpTo, Close, SocketInv, SocketTypes, Stopping,
     StopIsFlagged, IdleMeansNone, NewestIsStored, TakenIsOlder, OpenSocketIsOwned, OpeningConn
<1>8. CASE WaitCheck
  BY <1>8, ConnsAreNumbers DEF WaitCheck, Close, SocketInv, SocketTypes, Stopping,
     StopIsFlagged, IdleMeansNone, NewestIsStored, TakenIsOlder, OpenSocketIsOwned, OpeningConn
<1> QED
  BY <1>1, <1>2, <1>3, <1>4, <1>5, <1>6, <1>7, <1>8, <1>9 DEF ManagerStep, SetupFails

LEMMA NextSocketInv == SocketInv /\ [Next]_vars => SocketInv'
<1> SUFFICES ASSUME SocketInv, [Next]_vars PROVE SocketInv'
  OBVIOUS
<1>1. CASE Main
  BY <1>1, SendingKeepsSockets, StoppingKeepsSockets DEF Main
<1>2. CASE Manager
  BY <1>2, ManagerKeepsSockets
<1>3. CASE ProcessExits
  BY <1>3 DEF ProcessExits, SocketInv, SocketTypes, Stopping, StopIsFlagged, IdleMeansNone,
     NewestIsStored, TakenIsOlder, OpenSocketIsOwned, OpeningConn
<1>4. CASE Peer \/ KeepAlive
  BY <1>4 DEF Peer, PeerCloses, PeerVanishes, KeepAlive, KeepAliveExpires, ProbesOf, mainVars,
     SocketInv, SocketTypes, Stopping, StopIsFlagged, IdleMeansNone, NewestIsStored,
     TakenIsOlder, OpenSocketIsOwned, OpeningConn
<1>5. CASE UNCHANGED vars
  BY <1>5 DEF vars, sockVars, mainVars, SocketInv, SocketTypes, Stopping, StopIsFlagged,
     IdleMeansNone, NewestIsStored, TakenIsOlder, OpenSocketIsOwned, OpeningConn
<1> QED
  BY <1>1, <1>2, <1>3, <1>4, <1>5 DEF Next

(* No socket of the bridge is leaked: besides self.sock only the conn of    *)
(* the function that is opening one may be open, in a client also after     *)
(* its options could not be set.  And self.sock is not closed behind the    *)
(* manager's back except by stop().                                         *)
THEOREM BridgeOwnsSockets == Spec => []OpenSocketIsOwned
<1>1. SocketInv => OpenSocketIsOwned
  BY DEF SocketInv
<1> QED
  BY <1>1, InitSocketInv, NextSocketInv, PTL DEF Spec

-----------------------------------------------------------------------------
(* What has been written.                                                   *)

(* Nothing can be written to this connection any more.                      *)
Dead(c) == local[c] = "closed" \/ c \in shut \/ peer[c] = "reset"

StreamTypes ==
  /\ out \in [Conns -> Seq(Entry)]
  /\ msg \in 0 .. MaxMsgs
  /\ pcC \in {"take", "send", "sending"} => msg >= 1
  /\ pcC = "sending" => Len(out[sC]) >= 1

NumbersSoFar ==
  \A c \in Conns : \A i \in 1 .. Len(out[c]) :
    /\ out[c][i].num <= msg
    /\ pcC \in {"take", "send"} => out[c][i].num < msg

WrittenIsOlder ==
  \A c \in Conns : Len(out[c]) >= 1 =>
    /\ local[c] # "none"
    /\ sock # NoSock => c <= sock
    /\ pcC \in {"send", "sending"} => c <= sC

TornIsDead ==
  \A c \in Conns : \A i \in 1 .. Len(out[c]) :
    ~ out[c][i].whole => pcC \in Stopping \/ (pcC = "sending" /\ c = sC) \/ Dead(c)

StreamInv ==
  /\ StreamTypes
  /\ NumbersSoFar
  /\ WrittenIsOlder
  /\ TornIsDead
  /\ StreamsOfWholeRecords
  /\ NothingSentTwice

LEMMA InitStreamInv == Init => StreamInv
<1> SUFFICES ASSUME Init PROVE StreamInv
  OBVIOUS
<1>1. \A c \in Conns : out[c] = << >> /\ Len(out[c]) = 0
  BY DEF Init
<1>2. out \in [Conns -> Seq(Entry)]
  BY DEF Init
<1> QED
  BY <1>1, <1>2, BridgeAssumption DEF Init, StreamInv, StreamTypes, NumbersSoFar,
     WrittenIsOlder, TornIsDead, StreamsOfWholeRecords, NothingSentTwice

(* sendall() has handed over a part of a record.                            *)
LEMMA SendSomeStreams ==
  ASSUME SocketInv, StreamInv, SendSome
  PROVE  StreamInv'
<1> DEFINE e == [num |-> msg, whole |-> FALSE]
<1>1. sC \in Conns /\ pcC = "send" /\ pcC' = "sending" /\ ~ Dead(sC)
  BY DEF SendSome, Writable, Dead, SocketInv, SocketTypes
<1>2. e \in Entry /\ msg \in Nat
  BY <1>1, BridgeAssumption DEF StreamInv, StreamTypes, Entry
<1>3. out[sC] \in Seq(Entry) /\ out' = [out EXCEPT ![sC] = Append(out[sC], e)]
  BY <1>1 DEF StreamInv, StreamTypes, SendSome
<1>4. /\ out' \in [Conns -> Seq(Entry)]
      /\ Len(out'[sC]) = Len(out[sC]) + 1
      /\ out'[sC][Len(out[sC]) + 1] = e
      /\ \A i \in 1 .. Len(out[sC]) : out'[sC][i] = out[sC][i]
      /\ \A c \in Conns \ {sC} : out'[c] = out[c]
  <2> HIDE DEF e
  <2>1. /\ Append(out[sC], e) \in Seq(Entry)
        /\ Len(Append(out[sC], e)) = Len(out[sC]) + 1
        /\ \A i \in 1 .. Len(out[sC]) : Append(out[sC], e)[i] = out[sC][i]
        /\ Append(out[sC], e)[Len(out[sC]) + 1] = e
    <3>1. out[sC] \in Seq(Entry) /\ e \in Entry
      BY <1>2, <1>3
    <3> QED
      BY <3>1, AppendProperties
  <2>2. out \in [Conns -> Seq(Entry)]
    BY DEF StreamInv, StreamTypes
  <2>3. /\ out'[sC] = Append(out[sC], e)
        /\ \A c \in Conns \ {sC} : out'[c] = out[c]
        /\ out' \in [Conns -> Seq(Entry)]
    BY <1>1, <1>3, <2>1, <2>2, Zenon
  <2> QED
    BY <2>1, <2>3, Zenon
<1>5. \A c \in Conns : Len(out[c]) \in Nat
  BY DEF StreamInv, StreamTypes
<1>6. \A i \in 1 .. Len(out[sC]) : out[sC][i].whole /\ out[sC][i].num < msg
  BY <1>1 DEF StreamInv, TornIsDead, NumbersSoFar, Stopping
<1>7. /\ UNCHANGED <<sockVars, sC, msg>>
      /\ e.num = msg /\ ~ e.whole
  BY DEF SendSome
<1> HIDE DEF e
<1>8. StreamTypes'
  BY <1>1, <1>4, <1>5, <1>7 DEF StreamInv, StreamTypes
<1>9. NumbersSoFar'
  <2> SUFFICES ASSUME NEW c \in Conns, NEW i \in 1 .. Len(out'[c])
               PROVE  out'[c][i].num <= msg'
    BY <1>1 DEF NumbersSoFar
  <2> QED
    BY <1>1, <1>2, <1>4, <1>5, <1>7 DEF StreamInv, NumbersSoFar
<1>10. WrittenIsOlder'
  BY <1>1, <1>4, <1>5, <1>7, ConnsAreNumbers
     DEF StreamInv, WrittenIsOlder, SocketInv, TakenIsOlder, sockVars
<1>11. TornIsDead'
  BY <1>1, <1>4, <1>5, <1>7 DEF StreamInv, TornIsDead, Dead, sockVars, Stopping
<1>12. StreamsOfWholeRecords'
  <2> SUFFICES ASSUME NEW c \in Conns, NEW i \in 1 .. Len(out'[c]), NEW j \in 1 .. Len(out'[c]),
                      i < j
               PROVE  out'[c][i].whole /\ out'[c][i].num < out'[c][j].num
    BY DEF StreamsOfWholeRecords
  <2>1. CASE c # sC
    BY <2>1, <1>4 DEF StreamInv, StreamsOfWholeRecords
  <2>2. CASE c = sC /\ j = Len(out[sC]) + 1
    BY <2>2, <1>1, <1>4, <1>5, <1>6, <1>7
  <2>3. CASE c = sC /\ j # Len(out[sC]) + 1
    <3>1. i \in 1 .. Len(out[sC]) /\ j \in 1 .. Len(out[sC])
      BY <2>3, <1>1, <1>4, <1>5
    <3>2. out[sC][i].whole /\ out[sC][i].num < out[sC][j].num
      BY <3>1, <1>1 DEF StreamInv, StreamsOfWholeRecords
    <3> QED
      BY <2>3, <3>1, <3>2, <1>4
  <2> QED
    BY <2>1, <2>2, <2>3
<1>13. NothingSentTwice'
  <2> SUFFICES ASSUME NEW c \in Conns, NEW d \in Conns, c < d,
                      NEW i \in 1 .. Len(out'[c]), NEW j \in 1 .. Len(out'[d])
               PROVE  out'[c][i].num < out'[d][j].num
    BY DEF NothingSentTwice
  <2>1. ~ sC < d
    BY <1>1, <1>4, <1>5, ConnsAreNumbers DEF StreamInv, WrittenIsOlder
  <2>2. c # sC
    BY <2>1
  <2>3. CASE d = sC /\ j = Len(out[sC]) + 1
    BY <2>2, <2>3, <1>1, <1>4, <1>7 DEF StreamInv, NumbersSoFar
  <2>4. CASE d = sC /\ j # Len(out[sC]) + 1
    <3>1. i \in 1 .. Len(out[c]) /\ j \in 1 .. Len(out[sC]) /\ c < sC
      BY <2>2, <2>4, <1>1, <1>4, <1>5
    <3>2. out[c][i].num < out[sC][j].num
      BY <3>1, <1>1 DEF StreamInv, NothingSentTwice
    <3> QED
      BY <2>2, <2>4, <3>1, <3>2, <1>4
  <2>5. CASE d # sC
    BY <2>2, <2>5, <1>4 DEF StreamInv, NothingSentTwice
  <2> QED
    BY <2>3, <2>4, <2>5
<1> QED
  BY <1>8, <1>9, <1>10, <1>11, <1>12, <1>13 DEF StreamInv

(* One element of a sequence is replaced.                                   *)
LEMMA ReplaceOne ==
  ASSUME NEW S, NEW seq \in Seq(S), NEW e \in S, NEW k \in 1 .. Len(seq)
  PROVE  /\ [seq EXCEPT ![k] = e] \in Seq(S)
         /\ Len([seq EXCEPT ![k] = e]) = Len(seq)
         /\ \A i \in 1 .. Len(seq) : [seq EXCEPT ![k] = e][i] = IF i = k THEN e ELSE seq[i]
<1>1. [seq EXCEPT ![k] = e] \in Seq(S) /\ Len([seq EXCEPT ![k] = e]) = Len(seq)
  BY ExceptSeq
<1>2. \A i \in 1 .. Len(seq) : [seq EXCEPT ![k] = e][i] = IF i = k THEN e ELSE seq[i]
  OBVIOUS
<1> QED
  BY <1>1, <1>2

(* ... and the rest of it.                                                  *)
LEMMA SendRestStreams ==
  ASSUME SocketInv, StreamInv, SendRest
  PROVE  StreamInv'
<1> DEFINE n == Len(out[sC])
           e == [out[sC][n] EXCEPT !.whole = TRUE]
<1>1. sC \in Conns /\ pcC = "sending" /\ pcC' = "recv" /\ UNCHANGED <<sockVars, sC, msg>>
  BY DEF SendRest, SendRestTo, SocketInv, SocketTypes
<1>2. out \in [Conns -> Seq(Entry)] /\ out[sC] \in Seq(Entry) /\ n \in 1 .. Len(out[sC])
  BY <1>1 DEF StreamInv, StreamTypes
<1>3. out[sC][n] \in Entry
  BY <1>2, ElementOfSeq
<1>4. e \in Entry /\ e.num = out[sC][n].num /\ e.whole
  BY <1>3 DEF Entry
<1>5. out' = [out EXCEPT ![sC] = [out[sC] EXCEPT ![n] = e]]
  BY Zenon DEF SendRest, SendRestTo
<1>6. /\ out' \in [Conns -> Seq(Entry)]
      /\ Len(out'[sC]) = Len(out[sC])
      /\ \A i \in 1 .. Len(out[sC]) : out'[sC][i] = IF i = n THEN e ELSE out[sC][i]
      /\ \A c \in Conns \ {sC} : out'[c] = out[c]
  <2> HIDE DEF e, n
  <2>1. /\ [out[sC] EXCEPT ![n] = e] \in Seq(Entry)
        /\ Len([out[sC] EXCEPT ![n] = e]) = Len(out[sC])
        /\ \A i \in 1 .. Len(out[sC]) :
             [out[sC] EXCEPT ![n] = e][i] = IF i = n THEN e ELSE out[sC][i]
    BY <1>2, <1>4, ReplaceOne
  <2>2. /\ out'[sC] = [out[sC] EXCEPT ![n] = e]
        /\ \A c \in Conns \ {sC} : out'[c] = out[c]
        /\ out' \in [Conns -> Seq(Entry)]
    BY <1>1, <1>2, <1>5, <2>1, Zenon
  <2> QED
    BY <2>1, <2>2, Zenon
<1>7. \A c \in Conns : Len(out'[c]) = Len(out[c])
  BY <1>6
<1>8. \A c \in Conns : \A i \in 1 .. Len(out[c]) :
        /\ out'[c][i].num = out[c][i].num
        /\ out[c][i].whole => out'[c][i].whole
        /\ ~ out'[c][i].whole => c # sC \/ i # n
  BY <1>4, <1>6
<1>9. \A c \in Conns : Len(out[c]) \in Nat
  BY <1>2
<1> HIDE DEF e
<1>10. StreamTypes'
  BY <1>1, <1>6 DEF StreamInv, StreamTypes
<1>11. NumbersSoFar'
  BY <1>1, <1>7, <1>8 DEF StreamInv, NumbersSoFar
<1>12. WrittenIsOlder'
  BY <1>1, <1>7 DEF StreamInv, WrittenIsOlder, sockVars
<1>13. StreamsOfWholeRecords'
  BY <1>7, <1>8 DEF StreamInv, StreamsOfWholeRecords
<1>14. NothingSentTwice'
  BY <1>7, <1>8 DEF StreamInv, NothingSentTwice
<1>15. TornIsDead'
  <2> SUFFICES ASSUME NEW c \in Conns, NEW i \in 1 .. Len(out[c]), ~ out'[c][i].whole
               PROVE  Dead(c)
    BY <1>1, <1>7 DEF TornIsDead, Dead, sockVars
  <2>1. ~ out[c][i].whole
    BY <1>8
  <2>2. c # sC
    <3> SUFFICES ASSUME c = sC PROVE FALSE
      OBVIOUS
    <3>1. i < n
      BY <1>8, <1>9
    <3> QED
      BY <2>1, <3>1, <1>2 DEF StreamInv, StreamsOfWholeRecords
  <2> QED
    BY <2>1, <2>2, <1>1 DEF StreamInv, TornIsDead, Stopping
<1> QED
  BY <1>10, <1>11, <1>12, <1>13, <1>14, <1>15 DEF StreamInv

(* A connection that is dead stays dead.                                    *)
LEMMA DeadStaysDead ==
  ASSUME SocketInv, [Next]_vars, NEW c \in Conns, Dead(c)
  PROVE  Dead(c)'
<1>1. CASE Main
  BY <1>1 DEF Main, BusRecv, MainSends, TakeSock, TakeSockThen, SendSome, SendRest, SendRestTo,
     SendFails, SendFailsThen, Interrupt, MainStops, StopSetEvent, StopShutdown, ShutdownOf,
     StopClose, Close, sockVars, Dead, SocketInv, SocketTypes
<1>2. CASE Manager
  BY <1>2 DEF Manager, ManagerStep, ManagerCheck, OpenListener, WaitCheck, NoConnection,
     StoreSock, SetupFails, SetupFailsInServer, SetupFailsInClient, LoopCheck, GrabSock,
     RecvCall, RecvEnds, CleanUp, CleanUpTo, Delay, Connected, RecvData, Close, sockVars, Dead,
     SocketInv, SocketTypes
<1>3. CASE ProcessExits \/ Peer \/ KeepAlive \/ UNCHANGED vars
  BY <1>3 DEF ProcessExits, Peer, PeerCloses, PeerVanishes, KeepAlive, KeepAliveExpires,
     ProbesOf, vars, sockVars, Dead, SocketInv, SocketTypes
<1> QED
  BY <1>1, <1>2, <1>3 DEF Next

(* The other steps of the main thread write nothing.                        *)
LEMMA MainStreams ==
  ASSUME SocketInv, StreamInv, Main
  PROVE  StreamInv'
<1>1. CASE SendSome \/ SendRest
  BY <1>1, SendSomeStreams, SendRestStreams
<1>2. CASE BusRecv \/ TakeSock \/ SendFails \/ Interrupt \/ MainStops
  <2>1. out' = out /\ StreamsOfWholeRecords' /\ NothingSentTwice'
    BY <1>2 DEF BusRecv, TakeSock, TakeSockThen, SendFails, SendFailsThen, Interrupt, MainStops,
       StopSetEvent, StopShutdown, ShutdownOf, StopClose, StreamInv, StreamsOfWholeRecords,
       NothingSentTwice
  <2>2. StreamTypes'
    BY <1>2, <2>1, BridgeAssumption DEF BusRecv, TakeSock, TakeSockThen, SendFails,
       SendFailsThen, Interrupt, MainStops, StopSetEvent, StopShutdown, ShutdownOf, StopClose,
       StreamInv, StreamTypes
  <2>3. NumbersSoFar'
    <3>1. \A c \in Conns : \A i \in 1 .. Len(out[c]) : out[c][i].num \in Nat
      <4> TAKE c \in Conns
      <4> TAKE i \in 1 .. Len(out[c])
      <4>1. out[c] \in Seq(Entry)
        BY DEF StreamInv, StreamTypes
      <4>2. out[c][i] \in Entry
        BY <4>1, ElementOfSeq
      <4> QED
        BY <4>2, BridgeAssumption DEF Entry
    <3> QED
      BY <1>2, <2>1, <3>1 DEF BusRecv, TakeSock, TakeSockThen, SendFails, SendFailsThen,
         Interrupt, MainStops, StopSetEvent, StopShutdown, ShutdownOf, StopClose, StreamInv,
         StreamTypes, NumbersSoFar
  <2>4. WrittenIsOlder'
    BY <1>2, <2>1 DEF BusRecv, TakeSock, TakeSockThen, SendFails, SendFailsThen, Interrupt,
       MainStops, StopSetEvent, StopShutdown, ShutdownOf, StopClose, Close, sockVars,
       SocketInv, SocketTypes, StreamInv, WrittenIsOlder, NoSock
  <2>5. TornIsDead'
    <3>1. \A c \in Conns : Dead(c) => Dead(c)'
      BY DeadStaysDead DEF Next
    <3>2. SendFails => \A c \in Conns : c = sC => Dead(c)'
      BY DEF SendFails, SendFailsThen, Dead, SocketInv, SocketTypes, TakenIsOlder
    <3>3. /\ pcC' \in Stopping \/ pcC \notin Stopping
          /\ pcC = "sending" => pcC' \in Stopping \/ SendFails
      BY <1>2 DEF BusRecv, TakeSock, TakeSockThen, SendFails, SendFailsThen, Interrupt,
         MainStops, StopSetEvent, StopShutdown, ShutdownOf, StopClose, Stopping
    <3> SUFFICES ASSUME NEW c \in Conns, NEW i \in 1 .. Len(out[c]), ~ out[c][i].whole
                 PROVE  pcC' \in Stopping \/ Dead(c)'
      BY <2>1 DEF TornIsDead
    <3>4. pcC \in Stopping \/ (pcC = "sending" /\ c = sC) \/ Dead(c)
      BY DEF StreamInv, TornIsDead
    <3> QED
      BY <3>1, <3>2, <3>3, <3>4
  <2> QED
    BY <2>1, <2>2, <2>3, <2>4, <2>5 DEF StreamInv
<1> QED
  BY <1>1, <1>2 DEF Main, MainSends

(* Neither does anything outside the main thread.                           *)
LEMMA OtherStreams ==
  ASSUME SocketInv, StreamInv, Manager \/ ProcessExits \/ Peer \/ KeepAlive \/ UNCHANGED vars
  PROVE  StreamInv'
<1>1. /\ UNCHANGED <<out, msg, sC>>
      /\ pcC' = pcC \/ pcC' = "exited"
  BY DEF Manager, ProcessExits, Peer, KeepAlive, KeepAliveExpires, ProbesOf, vars, mainVars
<1>2. \A c \in Conns : Dead(c) => Dead(c)'
  BY DeadStaysDead DEF Next
<1>3. /\ \A c \in Conns : local[c] # "none" => local'[c] # "none"
      /\ sock' \in {sock, NoSock} \/ (StoreSock /\ sock' = sM)
  <2>1. CASE Manager
    BY <2>1 DEF Manager, ManagerStep, ManagerCheck, OpenListener, WaitCheck, NoConnection,
       StoreSock, SetupFails, SetupFailsInServer, SetupFailsInClient, LoopCheck, GrabSock,
       RecvCall, RecvEnds, CleanUp, CleanUpTo, Delay, Connected, RecvData, Close, sockVars,
       SocketInv, SocketTypes
  <2>2. CASE ProcessExits \/ Peer \/ KeepAlive \/ UNCHANGED vars
    BY <2>2 DEF ProcessExits, Peer, KeepAlive, KeepAliveExpires, ProbesOf, vars, sockVars,
       SocketInv, SocketTypes
  <2> QED
    BY <2>1, <2>2
<1>4. StreamTypes' /\ NumbersSoFar'
  BY <1>1 DEF StreamInv, StreamTypes, NumbersSoFar
<1>5. StreamsOfWholeRecords' /\ NothingSentTwice'
  BY <1>1 DEF StreamInv, StreamsOfWholeRecords, NothingSentTwice
<1>6. TornIsDead'
  BY <1>1, <1>2 DEF StreamInv, TornIsDead, Stopping
<1>7. WrittenIsOlder'
  <2>1. StoreSock => \A c \in Conns : local[c] # "none" => c <= sM
    BY ConnsAreNumbers DEF StoreSock, ManagerGoes, SocketInv, SocketTypes, NewestIsStored
  <2> QED
    BY <1>1, <1>3, <2>1 DEF StreamInv, WrittenIsOlder
<1> QED
  BY <1>4, <1>5, <1>6, <1>7 DEF StreamInv

IInv == SocketInv /\ StreamInv

(* The two layers together are an inductive invariant.                      *)
THEOREM BridgeInvariant == Spec => []IInv
<1>1. Init => IInv
  BY InitSocketInv, InitStreamInv DEF IInv
<1>2. IInv /\ [Next]_vars => IInv'
  BY NextSocketInv, MainStreams, OtherStreams DEF IInv, Next
<1> QED
  BY <1>1, <1>2, PTL DEF Spec

(* On every connection the peer finds whole records in the order of the     *)
(* bus, the last one perhaps cut off: two threads and stop() never tear a   *)
(* record in the middle of a stream.                                        *)
THEOREM BridgeStreamsWhole == Spec => []StreamsOfWholeRecords
<1>1. IInv => StreamsOfWholeRecords
  BY DEF IInv, StreamInv
<1> QED
  BY <1>1, BridgeInvariant, PTL

(* No frame is written to two connections, nor an earlier frame to a later  *)
(* connection.                                                              *)
THEOREM BridgeSendsOnce == Spec => []NothingSentTwice
<1>1. IInv => NothingSentTwice
  BY DEF IInv, StreamInv
<1> QED
  BY <1>1, BridgeInvariant, PTL

(* The variables of the bridge have their types, and a thread that uses a   *)
(* socket has one.                                                          *)
THEOREM BridgeTypes == Spec => []TypeOK
<1>1. IInv => TypeOK
  <2> SUFFICES ASSUME IInv PROVE TypeOK
    OBVIOUS
  <2>1. \A c \in Conns : \A i \in 1 .. Len(out[c]) : out[c][i] \in Entry
    BY ElementOfSeq DEF IInv, StreamInv, StreamTypes
  <2> QED
    BY <2>1 DEF IInv, SocketInv, SocketTypes, StreamInv, StreamTypes, Stopping, Entry, TypeOK
<1> QED
  BY <1>1, BridgeInvariant, PTL

-----------------------------------------------------------------------------
(* What a chain of bridges keeps of a frame: FrameCodec.                    *)

CodecRecord == [can_id : ExtRange, flags : SUBSET Flags, n : 0 .. MaxFd]

(* The frame on the bus, against the frame heard first.                     *)
OnBus ==
  /\ cur.id = first.id /\ cur.ext = first.ext
  /\ ~ first.rtr => ~ cur.rtr /\ cur.dlc = first.dlc
  /\ ~ fdUsed => Legal(cur)
  /\ first.rtr /\ ~ fdUsed => cur.rtr /\ cur.dlc \in {0, first.dlc}

(* Its record on the connection.                                            *)
OnWire ==
  /\ rec \in CodecRecord
  /\ rec.can_id = first.id /\ ("EXT" \in rec.flags <=> first.ext)
  /\ ~ first.rtr => "RTR" \notin rec.flags /\ rec.n = first.dlc
  /\ ~ fdUsed => /\ "FD" \notin rec.flags /\ "BRS" \notin rec.flags
                 /\ rec.n <= MaxClassic
  /\ first.rtr /\ ~ fdUsed => "RTR" \in rec.flags /\ rec.n \in {0, first.dlc}

CodecInv ==
  /\ first \in Message /\ Legal(first)
  /\ cur \in Message
  /\ place \in {"bus", "wire", "lost"} /\ fdUsed \in BOOLEAN
  /\ place = "bus" => OnBus
  /\ place = "wire" => OnWire
  /\ place = "lost" => fdUsed

(* The mask of 29 bits changes no identifier.                               *)
LEMMA MaskKeepsId ==
  ASSUME NEW id \in ExtRange
  PROVE  id % 2^29 = id
<1>1. 2^29 \in Nat
  OBVIOUS
<1>2. ASSUME NEW N \in Nat, id < N
      PROVE  id % N = id
  BY <1>2 DEF ExtRange
<1>. QED
  BY <1>1, <1>2 DEF ExtRange

(* A legal frame is inside the invariant before the first bridge.           *)
LEMMA CodecInitInv == CodecInit => CodecInv
<1>. SUFFICES ASSUME CodecInit PROVE CodecInv
  OBVIOUS
<1>1. first \in Message /\ Legal(first) /\ cur = first
  BY DEF CodecInit, Heard, Legal
<1>. QED
  BY <1>1 DEF CodecInit, CodecInv, OnBus, Message

(* Writing a record keeps the identifier, the format and the length.        *)
LEMMA PackIInv ==
  ASSUME CodecInv, NEW e \in Ends, Pack(e)
  PROVE  CodecInv'
<1>1. cur.id % 2^29 = cur.id
  BY MaskKeepsId DEF CodecInv, Message
<1>2. CASE e.kind = "py"
  <2>1. rec' = RecordWith(cur.id, cur, e.fd)
    BY <1>1, <1>2 DEF Pack, Sent, frame_from_can
  <2>2. Data(cur) \in 0 .. MaxFd /\ (~ cur.rtr => Data(cur) = cur.dlc)
        /\ (cur.rtr => Data(cur) = 0)
    BY CodecAssumption DEF Data, CodecInv, Message
  <2>3. rec'.flags \in SUBSET Flags
        /\ ("EXT" \in rec'.flags <=> cur.ext) /\ ("RTR" \in rec'.flags <=> cur.rtr)
        /\ ("FD" \in rec'.flags => cur.fd \/ e.fd) /\ ("BRS" \in rec'.flags => cur.fd)
    BY <2>1 DEF RecordWith, If, Flags
  <2>4. rec' = [can_id |-> cur.id, flags |-> rec'.flags, n |-> Data(cur)]
    BY <2>1 DEF RecordWith
  <2>5. rec' \in CodecRecord
    BY <2>2, <2>3, <2>4 DEF CodecInv, Message, CodecRecord
  <2>6. fdUsed' = (fdUsed \/ e.fd) /\ (cur.fd => e.fd) /\ e.fd \in BOOLEAN
    BY DEF Pack, Hears, Ends
  <2>7. ~ fdUsed' => ~ fdUsed /\ ~ cur.fd /\ ~ e.fd
    BY <2>6 DEF CodecInv
  <2>8. ~ fdUsed' => "FD" \notin rec'.flags /\ "BRS" \notin rec'.flags
    BY <2>3, <2>7
  <2>9. ~ fdUsed' => Data(cur) <= MaxClassic
    BY <2>2, <2>7, CodecAssumption DEF Pack, CodecInv, OnBus, Legal, Message
  <2>10. OnBus /\ rec'.can_id = cur.id /\ rec'.n = Data(cur)
    BY <2>4 DEF Pack, CodecInv
  <2>11. first' = first /\ cur' = cur /\ place' = "wire" /\ fdUsed' \in BOOLEAN
    BY <2>6 DEF Pack, CodecInv
  <2>12. OnWire'
    BY <2>2, <2>3, <2>5, <2>7, <2>8, <2>9, <2>10, <2>11 DEF OnBus, OnWire
  <2>. QED
    BY <2>11, <2>12 DEF CodecInv
<1>3. CASE e.kind = "esp"
  <2>1. rec' = ClassicRecord(cur, If(cur.ext, "EXT") \cup If(cur.rtr, "RTR"))
    BY <1>3 DEF Pack, Sent, tcp_send_can_frame
  <2>. QED
    BY <1>1, <1>3, <2>1, CodecAssumption
    DEF Pack, CodecInv, OnBus, OnWire, Hears, ClassicRecord, If, CodecRecord, Message,
        Legal, Flags, Ends
<1>. QED
  BY <1>2, <1>3 DEF Ends

(* Reading one does, too, whichever program reads it.                       *)
LEMMA UnpackIInv ==
  ASSUME CodecInv, NEW e \in Ends, Unpack(e)
  PROVE  CodecInv'
<1>1. rec.can_id % 2^29 = rec.can_id
  BY MaskKeepsId DEF Unpack, CodecInv, OnWire, CodecRecord
<1>2. CASE e.kind = "py"
  BY <1>2, CodecAssumption
  DEF Unpack, Received, Refuses, can_from_frame, MessageFrom, CodecInv, OnBus, OnWire,
      CodecRecord, Message, Legal
<1>3. CASE e.kind = "esp"
  BY <1>1, <1>3, CodecAssumption
  DEF Unpack, Received, Refuses, can_from_tcp_parts, CodecInv, OnBus, OnWire, CodecRecord,
      Message, Legal
<1>. QED
  BY <1>2, <1>3 DEF Ends

(* Only a frame that was marked FD is refused.                              *)
LEMMA DropIInv ==
  ASSUME CodecInv, NEW e \in Ends, Drop(e)
  PROVE  CodecInv'
  BY CodecAssumption DEF Drop, Refuses, CodecInv, OnWire, CodecRecord, Legal

LEMMA CodecInvariant == CodecSpec => []CodecInv
<1>1. CodecInv /\ [CodecNext]_codecVars => CodecInv'
  <2>. SUFFICES ASSUME CodecInv, [CodecNext]_codecVars PROVE CodecInv'
    OBVIOUS
  <2>1. CASE CodecNext
    BY <2>1, PackIInv, UnpackIInv, DropIInv DEF CodecNext
  <2>2. CASE UNCHANGED codecVars
    BY <2>2 DEF codecVars, CodecInv, OnBus, OnWire
  <2>. QED
    BY <2>1, <2>2
<1>. QED
  BY <1>1, CodecInitInv, PTL DEF CodecSpec

(* A data frame reaches the last bus of any chain of bridges with its       *)
(* identifier, its format and its length (frame_from_can, can_from_frame,   *)
(* tcp_send_can_frame and can_from_tcp_parts agree on a record).            *)
THEOREM DataFramesSurvive == CodecSpec => []SameDataFrame
<1>1. CodecInv => SameDataFrame
  BY DEF CodecInv, OnBus, SameDataFrame
<1>. QED
  BY <1>1, CodecInvariant, PTL

(* With can.fd off a remote frame stays one: frame_from_can and              *)
(* tcp_send_can_frame write its flag and can_from_frame and                 *)
(* can_from_tcp_parts read it back, also where its length is lost.          *)
THEOREM RemoteFramesSurvive == CodecSpec => []RemoteStaysRemote
<1>1. CodecInv => RemoteStaysRemote
  BY DEF CodecInv, OnBus, RemoteStaysRemote
<1>. QED
  BY <1>1, CodecInvariant, PTL

(* With can.fd off nothing is refused on the way or put on a bus that       *)
(* cannot be there.                                                         *)
THEOREM PlainChainsAreSafe == CodecSpec => []PlainBridgesAreSafe
<1>1. CodecInv => PlainBridgesAreSafe
  BY DEF CodecInv, OnBus, PlainBridgesAreSafe
<1>. QED
  BY <1>1, CodecInvariant, PTL
=============================================================================
