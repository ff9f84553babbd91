----------------------------- MODULE TcpStream -----------------------------
(***************************************************************************)
(* One direction of one TCP connection, as the two programs see it through *)
(* the socket API: the bytes written so far, how many of them the receiver *)
(* has taken with recv(), and whether the writing end is still there.      *)
(* TCP delivers a prefix of the bytes, in order, cut into chunks at places *)
(* neither program chooses; a reset may discard what was not yet taken.    *)
(***************************************************************************)
EXTENDS Integers, Sequences

CONSTANT MaxChunk          \* size of recv()'s buffer: 4096 in the bridge

ASSUME ChunkAssumption == MaxChunk \in Nat \ {0}

VARIABLES
  stream,                  \* bytes written to this connection
  taken,                   \* how many of them recv() has returned
  line                     \* "up", "fin" (writer closed) or "rst" (broken)

tcpVars == <<stream, taken, line>>

TcpInit ==
  /\ stream = << >>
  /\ taken = 0
  /\ line = "up"

Unread == Len(stream) - taken

(* recv() can return the next k bytes.                                      *)
CanTake(k) == /\ k \in 1 .. MaxChunk
              /\ k <= Unread

NextBytes(k) == SubSeq(stream, taken + 1, taken + k)

TakeBytes(k) == /\ taken' = taken + k
                /\ UNCHANGED <<stream, line>>

(* recv() can return b"": every byte was taken and the writer has closed.   *)
AtEnd == Unread = 0 /\ line = "fin"

Broken == line = "rst"

WriteBytes(b) == /\ stream' = stream \o b
                 /\ UNCHANGED taken

(* A new connection starts with nothing written.                            *)
TcpReset == stream' = << >> /\ taken' = 0 /\ line' = "up"
=============================================================================
