----------------------------- MODULE Faccessat -----------------------------
(***************************************************************************)
(* faccessat of the patched musl where the kernel has no faccessat2, or on *)
(* Android, where it is not tried: a cloned child takes the effective ids  *)
(* as its real ones, asks the kernel and sends the answer through a pipe.  *)
(*                                                                         *)
(* The threads of one process call it at once; a child gets a copy of the  *)
(* whole descriptor table, so it may hold the pipe of another thread.  A   *)
(* descriptor is named by its thread and its end of the pipe.              *)
(*                                                                         *)
(* RealIds, ClosedLate and NotWaited are faulty variants of the            *)
(* definitions below them and are used by nothing here.                    *)
(***************************************************************************)
EXTENDS Naturals, FiniteSets

CONSTANTS
    Callers,    \* threads that call faccessat with AT_EACCESS
    Platforms,  \* whether ANDROID_DATA may be in the environment
    Verdicts    \* the kernel's answer for the "real" and the "effective" ids, never EBUSY

VARIABLES
    android,    \* ANDROID_DATA is in the environment
    at,         \* where each thread is
    open,       \* descriptors of the process: pairs of a thread and an end
    checker,    \* where the child of each thread's call is
    copy,       \* descriptors of each child
    sent,       \* what each pipe holds: an answer or "-"
    answer,     \* what the call returned, or is about to return
    faulted     \* history: a step of the call failed for want of resources or was killed

\* The model writes "-" for "no answer yet".
AccessAssumption == Platforms \subseteq BOOLEAN /\ Verdicts.real # "-" /\ Verdicts.effective # "-"

vars == <<android, at, open, checker, copy, sent, answer, faulted>>

Init ==
    /\ android \in Platforms
    /\ at = [c \in Callers |-> "out"] /\ open = {}
    /\ checker = [c \in Callers |-> "none"] /\ copy = [c \in Callers |-> {}]
    /\ sent = [c \in Callers |-> "-"] /\ answer = [c \in Callers |-> "-"]
    /\ faulted = [c \in Callers |-> FALSE]

Set(f, c, v) == [f EXCEPT ![c] = v]
Faults(c, b) == faulted' = Set(faulted, c, faulted[c] \/ b)

-----------------------------------------------------------------------------
(* The calling thread *)

\* faccessat2 answers the call unless the kernel has none; equal real and
\* effective ids, which need no child, are left out.
Call(c) ==
    /\ at[c] = "out"
    /\ faulted' = Set(faulted, c, FALSE) /\ sent' = Set(sent, c, "-")
    /\ \/ ~android /\ answer' = Set(answer, c, Verdicts.effective) /\ UNCHANGED at
       \/ answer' = Set(answer, c, "-") /\ at' = Set(at, c, "pipe")
    /\ UNCHANGED <<android, open, checker, copy>>

MakePipe(c) ==
    /\ at[c] = "pipe"
    /\ \/ /\ at' = Set(at, c, "clone") /\ open' = open \cup {<<c, "r">>, <<c, "w">>}
          /\ UNCHANGED <<answer, faulted>>
       \/ /\ at' = Set(at, c, "out") /\ answer' = Set(answer, c, "EBUSY")
          /\ Faults(c, TRUE) /\ UNCHANGED open
    /\ UNCHANGED <<android, checker, copy, sent>>

\* __clone shares nothing: the child starts with a copy of the table.
Clone(c) ==
    /\ at[c] = "clone" /\ at' = Set(at, c, "close")
    /\ \/ /\ checker' = Set(checker, c, "started") /\ copy' = Set(copy, c, open)
          /\ UNCHANGED <<answer, faulted>>
       \/ /\ answer' = Set(answer, c, "EBUSY") /\ Faults(c, TRUE)
          /\ UNCHANGED <<checker, copy>>
    /\ UNCHANGED <<android, open, sent>>

\* What is closed before the read.
ClosedLate(c) == {}
ClosedFirst(c) == {<<c, "w">>}

CloseWrite(c) ==
    /\ at[c] = "close" /\ at' = Set(at, c, IF answer[c] = "-" THEN "read" ELSE "closeRead")
    /\ open' = open \ ClosedFirst(c)
    /\ UNCHANGED <<android, checker, copy, sent, answer, faulted>>

\* Nobody has the write end any more, whichever child was given a copy.
AtEnd(c) == <<c, "w">> \notin open /\ \A d \in Callers : <<c, "w">> \notin copy[d]

Read(c) ==
    /\ at[c] = "read" /\ at' = Set(at, c, "closeRead")
    /\ sent[c] # "-" \/ AtEnd(c)
    /\ answer' = Set(answer, c, IF sent[c] = "-" THEN "EBUSY" ELSE sent[c])
    /\ UNCHANGED <<android, open, checker, copy, sent, faulted>>

CloseRead(c) ==
    /\ at[c] = "closeRead" /\ at' = Set(at, c, "wait")
    /\ open' = open \ {<<c, "r">>}
    /\ UNCHANGED <<android, checker, copy, sent, answer, faulted>>

\* wait4 with __WCLONE; without a child it fails at once.
NotWaited(c) == TRUE
Waited(c)    == checker[c] \in {"none", "dead"}

Wait(c) ==
    /\ at[c] = "wait" /\ at' = Set(at, c, "out")
    /\ Waited(c)
    /\ checker' = IF checker[c] = "dead" THEN Set(checker, c, "none") ELSE checker
    /\ UNCHANGED <<android, open, copy, sent, answer, faulted>>

-----------------------------------------------------------------------------
(* The child: checker() *)

Dies(c) == checker' = Set(checker, c, "dead") /\ copy' = Set(copy, c, {})

\* setregid and setreuid, either of which ends the child when refused.
SwitchIds(c) ==
    /\ checker[c] = "started"
    /\ \/ checker' = Set(checker, c, "ask") /\ UNCHANGED <<copy, faulted>>
       \/ ~android /\ Dies(c) /\ Faults(c, TRUE)
    /\ UNCHANGED <<android, at, open, sent, answer>>

RealIds(a)    == Verdicts.real
AnswerFor(a) == IF a THEN Verdicts.real ELSE Verdicts.effective

AskKernel(c) ==
    /\ checker[c] = "ask" /\ checker' = Set(checker, c, "end")
    /\ sent' = Set(sent, c, AnswerFor(android))
    /\ UNCHANGED <<android, at, open, copy, answer, faulted>>

Exit(c) ==
    /\ checker[c] = "end" /\ Dies(c)
    /\ UNCHANGED <<android, at, open, sent, answer, faulted>>

\* SIGKILL, which cannot be blocked.
Killed(c) ==
    /\ checker[c] \in {"started", "ask", "end"} /\ Dies(c)
    /\ Faults(c, TRUE)
    /\ UNCHANGED <<android, at, open, sent, answer>>

InCall(c) == MakePipe(c) \/ Clone(c) \/ CloseWrite(c) \/ Read(c) \/ CloseRead(c) \/ Wait(c)
Child(c)  == SwitchIds(c) \/ AskKernel(c) \/ Exit(c)

Next == \E c \in Callers : Call(c) \/ InCall(c) \/ Child(c) \/ Killed(c)

Fairness == \A c \in Callers : WF_vars(InCall(c)) /\ WF_vars(Child(c))
Spec     == Init /\ [][Next]_vars /\ Fairness

-----------------------------------------------------------------------------
(* Properties *)

\* A call answers for the effective ids, off Android, or with EBUSY if a step
\* of its own failed: another thread's pipe, child or failure never shows.
AnswersForEffective == \A c \in Callers :
    at[c] = "out" /\ answer[c] # "-" =>
        \/ answer[c] = Verdicts.effective
        \/ android /\ answer[c] = Verdicts.real
        \/ answer[c] = "EBUSY" /\ faulted[c]

\* A thread that is out of the call has left neither a descriptor nor a child
\* to be waited for, whatever failed on the way and whatever the others do.
CallsLeaveNothing == \A c \in Callers : at[c] = "out" =>
    checker[c] = "none" /\ \A end \in {"r", "w"} : <<c, end>> \notin open

\* Every call returns, though a child was killed before it answered or another
\* thread's child holds a copy of the write end the call reads from.
FaccessatReturns == \A c \in Callers : at[c] = "pipe" ~> at[c] = "out"
=============================================================================
