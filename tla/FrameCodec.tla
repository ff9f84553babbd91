----------------------------- MODULE FrameCodec -----------------------------
(***************************************************************************)
(* What happens to one CAN frame on its way over bridges: frame_from_can   *)
(* and can_from_frame of can_tcp_bridge.py, tcp_send_can_frame and         *)
(* can_from_tcp_parts of main.c.  A frame may pass several bridges: bus,   *)
(* record, bus, record, ...  Cutting the stream into records is the        *)
(* subject of BridgeFraming; the payload bytes are counted, not looked at. *)
(*                                                                         *)
(*   A message   [id, ext, rtr, fd, brs, err, dlc], dlc in bytes; a remote *)
(*               frame asks for dlc bytes and carries none, and err marks  *)
(*               the error frames a SocketCAN socket delivers.             *)
(*   A record    [can_id, flags, n], flags a set of the FLAG_ names.       *)
(*   An end of a bridge  [kind, fd]: the Python program with its can.fd    *)
(*               setting, or the ESP32.                                    *)
(*                                                                         *)
(*   first   (history) the frame as it was heard on the first bus          *)
(*   cur     the frame on the bus where it is now; rec: on the connection  *)
(*   place   "bus", "wire", or "lost" when an end refuses it               *)
(*   fdUsed  (history) an end with can.fd set has sent it                  *)
(*   hops    bridges passed                                                *)
(***************************************************************************)
EXTENDS Integers

CONSTANTS
  StdIds, ExtIds,          \* identifiers of 11 and of 29 bits that occur
  Lengths,                 \* payload lengths that occur
  MaxClassic, MaxFd,       \* largest payloads: 8 and 64 in the code
  MaxHops                  \* bound: bridges passed

StdRange == 0 .. 2^11 - 1
ExtRange == 0 .. 2^29 - 1

ASSUME CodecAssumption ==
  /\ StdIds \subseteq StdRange /\ ExtIds \subseteq ExtRange
  /\ MaxClassic \in Nat /\ MaxFd \in Nat /\ MaxClassic <= MaxFd
  /\ Lengths \subseteq 0 .. MaxFd
  /\ MaxHops \in Nat

VARIABLES first, cur, rec, place, fdUsed, hops

codecVars == <<first, cur, rec, place, fdUsed, hops>>

Ends == [kind : {"py"}, fd : BOOLEAN] \cup [kind : {"esp"}, fd : {FALSE}]

Flags == {"EXT", "RTR", "FD", "BRS"}

Message ==
  [id : ExtRange, ext : BOOLEAN, rtr : BOOLEAN, fd : BOOLEAN, brs : BOOLEAN,
   err : BOOLEAN, dlc : 0 .. MaxFd]

(* The frames there are on CAN buses.                                       *)
Legal(m) ==
  /\ m \in Message
  /\ m.ext \/ m.id \in StdRange
  /\ m.fd => ~ m.rtr
  /\ ~ m.fd => ~ m.brs /\ m.dlc <= MaxClassic
  /\ m.err => ~ (m.ext \/ m.rtr \/ m.fd)

Heard ==
  { m \in [id : StdIds \cup ExtIds, ext : BOOLEAN, rtr : BOOLEAN, fd : BOOLEAN,
           brs : BOOLEAN, err : BOOLEAN, dlc : Lengths] : Legal(m) }

Data(m) == IF m.rtr THEN 0 ELSE m.dlc

If(condition, flag) == IF condition THEN {flag} ELSE {}

-----------------------------------------------------------------------------
(* can_tcp_bridge.py                                                        *)

RecordWith(id, m, use_fd_cfg) ==
  [can_id |-> id,
   flags |-> If(m.ext, "EXT") \cup If(m.rtr, "RTR")
             \cup If(m.fd \/ use_fd_cfg, "FD") \cup If(m.fd /\ m.brs, "BRS"),
   n |-> Data(m)]

CutsId(m, use_fd_cfg) == RecordWith(m.id % 2^28, m, use_fd_cfg)   \* mutant

(* Only python-can's FD messages have a bit rate switch.                    *)
frame_from_can(m, use_fd_cfg) == RecordWith(m.id % 2^29, m, use_fd_cfg)

(* can.Message drops the data of a remote frame, and the length with it.    *)
MessageFrom(r, fd) ==
  [id |-> r.can_id, ext |-> "EXT" \in r.flags, rtr |-> "RTR" \in r.flags,
   fd |-> fd, brs |-> "BRS" \in r.flags, err |-> FALSE,
   dlc |-> IF "RTR" \in r.flags THEN 0 ELSE r.n]

FdByLength(r) == MessageFrom(r, r.n >= MaxClassic)       \* mutant

can_from_frame(r) == MessageFrom(r, "FD" \in r.flags)

-----------------------------------------------------------------------------
(* main.c: a remote frame is sent with as many bytes as it asks for.        *)

ClassicRecord(m, flags) == [can_id |-> m.id % 2^29, flags |-> flags, n |-> m.dlc]

NoRtrFlag(m) == ClassicRecord(m, If(m.ext, "EXT"))   \* mutant

tcp_send_can_frame(m) == ClassicRecord(m, If(m.ext, "EXT") \cup If(m.rtr, "RTR"))

can_from_tcp_parts(r) ==
  [id |-> r.can_id % 2^29, ext |-> "EXT" \in r.flags, rtr |-> "RTR" \in r.flags,
   fd |-> FALSE, brs |-> FALSE, err |-> FALSE, dlc |-> r.n]

-----------------------------------------------------------------------------
(* An end takes a frame from its bus: a classic socket and the ESP32 do not *)
(* hear FD frames, and the ESP32 hears no error frames.                     *)
Hears(e, m) == (m.fd => e.fd) /\ (m.err => e.kind = "py")

Sent(e, m) == IF e.kind = "py" THEN frame_from_can(m, e.fd) ELSE tcp_send_can_frame(m)

(* The other end refuses a record: the ESP32 by its length, and the kernel  *)
(* (external) an FD message on a classic socket, which is a CanError.       *)
Received(e, r) == IF e.kind = "py" THEN can_from_frame(r) ELSE can_from_tcp_parts(r)

Refuses(e, r) ==
  \/ e.kind = "py" /\ "FD" \in r.flags /\ ~ e.fd
  \/ e.kind = "esp" /\ r.n > MaxClassic

NoRecord == [can_id |-> 0, flags |-> {}, n |-> 0]

CodecInit ==
  /\ first \in Heard /\ cur = first
  /\ rec = NoRecord
  /\ place = "bus" /\ fdUsed = FALSE /\ hops = 0

(* One end hears the frame, if it is one that can be on a bus, and writes   *)
(* its record ...                                                           *)
Pack(e) ==
  /\ place = "bus" /\ hops < MaxHops
  /\ Legal(cur) /\ Hears(e, cur)
  /\ rec' = Sent(e, cur)
  /\ fdUsed' = (fdUsed \/ e.fd)
  /\ place' = "wire" /\ hops' = hops + 1
  /\ UNCHANGED <<first, cur>>

(* ... and the other end sends it on its own bus, or drops it.              *)
Unpack(e) ==
  /\ place = "wire"
  /\ ~ Refuses(e, rec)
  /\ cur' = Received(e, rec)
  /\ place' = "bus"
  /\ UNCHANGED <<first, rec, fdUsed, hops>>

Drop(e) ==
  /\ place = "wire"
  /\ Refuses(e, rec)
  /\ place' = "lost"
  /\ UNCHANGED <<first, cur, rec, fdUsed, hops>>

CodecNext == \E e \in Ends : Pack(e) \/ Unpack(e) \/ Drop(e)

CodecSpec == CodecInit /\ [][CodecNext]_codecVars

-----------------------------------------------------------------------------
(* A data frame keeps its identifier, its format and its payload over any   *)
(* chain of bridges, Python or ESP32, with or without FD.                   *)
SameDataFrame ==
  place = "bus" /\ ~ first.rtr =>
    cur.id = first.id /\ cur.ext = first.ext /\ ~ cur.rtr /\ cur.dlc = first.dlc

(* With can.fd off at every sending end a remote frame stays a remote frame *)
(* with its identifier, and asks for as many bytes as on the first bus or,  *)
(* behind a Python end, for none.                                           *)
RemoteStaysRemote ==
  place = "bus" /\ first.rtr /\ ~ fdUsed =>
    cur.id = first.id /\ cur.ext = first.ext /\ cur.rtr /\ cur.dlc \in {0, first.dlc}

(* With can.fd off at every sending end, whatever a bridge puts on a bus is *)
(* a frame that can be there, and nothing is refused on the way.            *)
PlainBridgesAreSafe ==
  ~ fdUsed => /\ place = "bus" => Legal(cur)
              /\ place # "lost"
=============================================================================
