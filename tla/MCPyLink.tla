------------------------------ MODULE MCPyLink ------------------------------
(***************************************************************************)
(* PyLink for TLC: records of a two-byte header, frames without and with   *)
(* data, and data whose bytes would be a plausible length field or         *)
(* data_len if the framer ever lost its place.                             *)
(***************************************************************************)
EXTENDS PyLink

MCFrames == { [head |-> <<0>>, data |-> << >>],
              [head |-> <<3>>, data |-> <<0, 2>>] }
=============================================================================
