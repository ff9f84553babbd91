----------------------------- MODULE MCEspLink -----------------------------
(***************************************************************************)
(* EspLink for TLC: a frame without data, one that fills databuf, and one  *)
(* that only CAN FD can carry and that takes several dumps to skip.        *)
(***************************************************************************)
EXTENDS EspLink

MCFrames == { [head |-> <<0>>, data |-> << >>],
              [head |-> <<1>>, data |-> <<0, 2>>],
              [head |-> <<2>>, data |-> <<0, 3, 0>>] }
=============================================================================
