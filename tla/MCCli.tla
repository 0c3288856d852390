------------------------------- MODULE MCCli -------------------------------
(* Values of the constants of CliProps for TLC. *)
EXTENDS CliProps, TLC

CONSTANTS p1, p2, bin, lib, props, xml, a, b

AllNames == {bin, lib, props, xml}

\* One path with two builds; the second is the first made again, with another
\* set of files, under the same URL.
OnePath     == {p1}
TwoBuilds   == {1, 2}
NoBuilds    == {}
BothOnOne   == <<p1, p1>>
TwoFileSets == <<{bin, lib}, {bin, props, xml}>>
SameVersion == <<1, 1>>

\* The second is a newer version on the same path, under an URL of its own.
Upgraded    == <<1, 2>>

\* Two paths with one build each.
TwoPaths    == {p1, p2}
OneEach     == <<p1, p2>>
FewNames    == {bin, props, xml}
FewFiles    == <<{bin}, {bin, props}>>

\* Inodes are interchangeable.
InodesAlike == Permutations(Inodes)

MayAll      == [i \in Procs |-> Paths]
MayOwn      == a :> {p1} @@ b :> {p2}
=============================================================================
