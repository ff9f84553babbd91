---------------------------- MODULE FrameChannel ----------------------------
(***************************************************************************)
(* What one direction of the bridge promises: a first-in first-out channel *)
(* of frames.  A frame that was put in comes out at most once, unchanged   *)
(* and in its turn; the far CAN bus may refuse one; and when the           *)
(* connection is replaced everything still inside is lost.                 *)
(***************************************************************************)
EXTENDS Sequences

CONSTANT Frames

VARIABLES
  queue,                   \* frames put in and not yet taken out
  bus                      \* frames that came out since the last Cut

channelVars == <<queue, bus>>

Init == queue = << >> /\ bus = << >>

Put(f) == /\ queue' = Append(queue, f)
          /\ UNCHANGED bus

Deliver == /\ queue # << >>
           /\ bus' = Append(bus, Head(queue))
           /\ queue' = Tail(queue)

Refuse == /\ queue # << >>
          /\ queue' = Tail(queue)
          /\ UNCHANGED bus

Cut == queue' = << >> /\ bus' = << >>

Next == (\E f \in Frames : Put(f)) \/ Deliver \/ Refuse \/ Cut

Spec == Init /\ [][Next]_channelVars
=============================================================================
