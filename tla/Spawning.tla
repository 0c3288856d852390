------------------------------ MODULE Spawning ------------------------------
(***************************************************************************)
(* What a posix_spawn promises its caller, with nothing of how: at most    *)
(* one program runs, with the descriptors that were asked for; an error    *)
(* means that none does or will.  If it Waits for the exec, success means  *)
(* that the program was reached or its process was killed.                 *)
(***************************************************************************)
EXTENDS Descriptors

CONSTANTS
    Inherited,  \* the descriptor table of the caller
    Waits       \* whether the answer waits for the program to start

VARIABLES
    asked,      \* the file actions of the call, once it is made
    answer,     \* "none", "ok" or "error"
    program     \* "none", "runs" or "dead", and its table if it runs

vars == <<asked, answer, program>>

NoProgram == [st |-> "none", fds |-> Broken]
Lost      == [st |-> "dead", fds |-> Broken]

Init == asked = Uncalled /\ answer = "none" /\ program = NoProgram

Ask ==
    /\ asked = Uncalled
    /\ asked' # Uncalled
    /\ UNCHANGED <<answer, program>>

Run ==
    /\ asked # Uncalled /\ answer # "error" /\ program = NoProgram
    /\ Requested(Inherited, asked) # Broken
    /\ program' = [st |-> "runs", fds |-> AfterExec(Requested(Inherited, asked))]
    /\ UNCHANGED <<asked, answer>>

\* The process ends before it reached the program.
Lose ==
    /\ asked # Uncalled /\ program = NoProgram /\ answer # "error"
    /\ program' = Lost
    /\ UNCHANGED <<asked, answer>>

Succeed ==
    /\ asked # Uncalled /\ answer = "none"
    /\ Waits => program # NoProgram
    /\ answer' = "ok"
    /\ UNCHANGED <<asked, program>>

Refuse ==
    /\ asked # Uncalled /\ answer = "none" /\ program = NoProgram
    /\ answer' = "error"
    /\ UNCHANGED <<asked, program>>

Next == Ask \/ Run \/ Lose \/ Succeed \/ Refuse

Spec == Init /\ [][Next]_vars
=============================================================================
