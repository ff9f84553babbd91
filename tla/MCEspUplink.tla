---------------------------- MODULE MCEspUplink ----------------------------
(***************************************************************************)
(* EspUplink for TLC: a frame without data and one whose data would pass   *)
(* for a header.                                                           *)
(***************************************************************************)
EXTENDS EspUplink

MCFrames == { [head |-> <<0>>, data |-> << >>],
              [head |-> <<1>>, data |-> <<2>>] }
=============================================================================
