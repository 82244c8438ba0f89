------------------------------ MODULE MCEncoder ------------------------------
(***************************************************************************)
(* Instances of EncoderSource for TLC.                                       *)
(***************************************************************************)
EXTENDS EncoderSource

\* One sampling period reports a few steps of either direction.
BothWays == {-2, -1, 1, 2, 3}
==============================================================================
