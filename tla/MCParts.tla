------------------------------ MODULE MCParts -------------------------------
(***************************************************************************)
(* Values of the constants of Parts for TLC, and beside the parts the pure *)
(* functions on all small inputs: one is chosen where no part moves.       *)
(***************************************************************************)
EXTENDS Parts

VARIABLE input  \* the function chosen, and its arguments

Alg == INSTANCE MCAlgorithms

D == INSTANCE Descriptors

Below(n, slots) == [d \in 0..(n - 1) |-> slots[d + 1]]

NdkDescriptors == Below(6,
    <<D!OpenOn("tty"), D!OpenOn("tty"), D!OpenOn("log"), D!Private("outR"), D!Free, D!Free>>)
SomeActions    == {D!Opens(0, "null"), D!Opens(4, "null"), D!Opens(5, "missing"), D!Closes(3), D!Closes(4),
                   D!Dups(3, 1), D!Dups(4, 1)}

NinjaDescriptors == Below(8,
    <<D!OpenOn("tty"), D!OpenOn("tty"), D!OpenOn("log"), D!Private("outR"), D!Private("outW"),
      D!Free, D!Free, D!Free>>)
SomeLists   == { << >>,
    <<D!Closes(3), D!Opens(0, "null"), D!Dups(4, 1), D!Dups(4, 2), D!Closes(4)>>,   \* ninja's own
    <<D!Opens(0, "missing"), D!Dups(4, 1)>>,
    <<D!Closes(4), D!Dups(4, 1)>> }
InDirectory == {"ok", "ENOENT", "EACCES"}
UpToTwo     == {<< >>} \cup {<<a>> : a \in InDirectory} \cup {<<a, b>> : a, b \in InDirectory}

OwnFileOnly == [real |-> "EACCES", effective |-> "0"]

Endpoint(bulk, direction, address) == [bulk |-> bulk, direction |-> direction, address |-> address]
BothWays == <<Endpoint(TRUE, "in", 1), Endpoint(FALSE, "in", 2), Endpoint(TRUE, "out", 3), Endpoint(TRUE, "in", 4)>>
OneWay   == <<Endpoint(TRUE, "in", 1)>>
Setting(matches, endpoints) == [matches |-> matches, endpoints |-> endpoints]
ThreeDevices == << <<Setting(FALSE, BothWays), Setting(TRUE, OneWay), Setting(TRUE, BothWays)>>, << >>,
                   <<Setting(TRUE, BothWays), Setting(TRUE, BothWays)>> >>

SixLetters == {<<"a", "b", "c", "d", "e", l>> : l \in {"f", "g"}}  \* a cut name is both

Files       == INSTANCE Licenses WITH Earlier <- {}, at <- runner
SomeEarlier == Files!SomeFiles

-----------------------------------------------------------------------------
(* Parts and functions *)

CheckedInit == Starts /\ Alg!Start
CheckedNext ==
    \/ OnePart /\ UNCHANGED input
    \/ part = "none" /\ Alg!Choose /\ UNCHANGED allVars
Checked     == CheckedInit /\ [][CheckedNext]_<<allVars, input>> /\ FairParts

\* MCAlgorithms: the pure functions, by the module they are in.
TargetsAgree    == Alg!TargetsAgree
NetworkRead     == Alg!NetworkRead
FallbacksHold   == Alg!FallbacksHold
PropertiesRead  == Alg!PropertiesRead
CatalogAnswers  == Alg!CatalogAnswers
CurlOptions     == Alg!CurlOptions
NamesItsRelease == Alg!NamesItsRelease
MovesKeepAll    == Alg!MovesKeepAll
=============================================================================
