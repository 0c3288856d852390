---------------------------- MODULE PackageStore ----------------------------
(***************************************************************************)
(* What a package store promises to the tools that read it: a directory    *)
(* appears with every file of a build at once, and the record of a package *)
(* changes only while its directory is in the recorded condition.  How a   *)
(* package is downloaded, checked and unpacked does not show.              *)
(***************************************************************************)
CONSTANTS Paths, Builds, None

VARIABLES
    there,      \* the paths that have a directory
    holds,      \* the builds all of whose files the directory of a path holds
    entry       \* the build the store says is installed at a path

store == <<there, holds, entry>>

Init ==
    /\ there = {}
    /\ holds = [p \in Paths |-> {}]
    /\ entry = [p \in Paths |-> None]

\* A directory appears, complete.
Put(p) ==
    /\ p \notin there
    /\ there' = there \cup {p}
    /\ \E B \in SUBSET Builds : B # {} /\ holds' = [holds EXCEPT ![p] = B]
    /\ UNCHANGED entry

\* A directory on its way out loses files, and with them builds.
Wear(p) ==
    /\ p \in there
    /\ \E B \in SUBSET holds[p] : holds' = [holds EXCEPT ![p] = B]
    /\ UNCHANGED <<there, entry>>

Remove(p) ==
    /\ p \in there /\ holds[p] = {}
    /\ there' = there \ {p}
    /\ UNCHANGED <<holds, entry>>

\* The record says installed only of a build that is there, and no longer says
\* so only when nothing is there.
Record(p, b) ==
    /\ b \in holds[p]
    /\ entry' = [entry EXCEPT ![p] = b]
    /\ UNCHANGED <<there, holds>>

Forget(p) ==
    /\ p \notin there
    /\ entry' = [entry EXCEPT ![p] = None]
    /\ UNCHANGED <<there, holds>>

Next == \E p \in Paths :
    Put(p) \/ Wear(p) \/ Remove(p) \/ Forget(p) \/ \E b \in Builds : Record(p, b)

Spec == Init /\ [][Next]_store
=============================================================================
