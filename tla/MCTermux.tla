------------------------------ MODULE MCTermux ------------------------------
(* Values of the constants of TermuxAdb for TLC. *)
EXTENDS TermuxAdb, TLC

TwoDevices == 1 .. 2

\* The second device is not plugged in again.
OneReplug  == 1 :> 2 @@ 2 :> 1
=============================================================================
