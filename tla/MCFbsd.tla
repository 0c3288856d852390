------------------------------- MODULE MCFbsd -------------------------------
(* Values of the constants of FbsdUsb for TLC. *)
EXTENDS FbsdUsb, TLC

CONSTANTS r, w, ep1, ep2, ep3

\* adb: a thread that reads and one that writes.
OneEach     == r :> {ep1} @@ w :> {ep2}

\* More endpoints than two slots can hold.
Crowded     == r :> {ep1, ep3} @@ w :> {ep2}

UpToTwo     == [t \in Threads |-> 2]
ThreeAndTwo == r :> 3 @@ w :> 2
=============================================================================
