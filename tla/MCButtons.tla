------------------------------ MODULE MCButtons ------------------------------
(***************************************************************************)
(* Instances of ButtonsSource for TLC.                                       *)
(***************************************************************************)
EXTENDS ButtonsSource

LeftRight == <<"left", "right">>
==============================================================================
