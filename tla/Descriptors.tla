---------------------------- MODULE Descriptors ----------------------------
(***************************************************************************)
(* Descriptor tables and what the file actions of posix_spawn ask of them. *)
(* A table gives each number below the limit of open files the file it is  *)
(* open on and its close-on-exec flag.  The system calls are external: the *)
(* shims use them, they are not in this repository.                        *)
(***************************************************************************)
EXTENDS Naturals, Sequences, SequencesExt

Free       == [file |-> "-", cloexec |-> FALSE]
OpenOn(f)  == [file |-> f, cloexec |-> FALSE]
Private(f) == [file |-> f, cloexec |-> TRUE]

Unused(t) == {d \in DOMAIN t : t[d] = Free}
Lowest(S) == CHOOSE d \in S : \A e \in S : d <= e

Opens(d, f)  == [op |-> "open", fd |-> d, src |-> d, file |-> f]
Closes(d)    == [op |-> "close", fd |-> d, src |-> d, file |-> "-"]
Dups(s, d)   == [op |-> "dup2", fd |-> d, src |-> s, file |-> "-"]

-----------------------------------------------------------------------------
(* System calls *)

Close(t, d)   == IF d \in DOMAIN t THEN [t EXCEPT ![d] = Free] ELSE t
Valid(t, d)   == d \in DOMAIN t /\ t[d] # Free
CanDup(t, s, d) == Valid(t, s) /\ d \in DOMAIN t

\* dup2 of a descriptor to itself leaves its flags alone.
Dup(t, s, d) == IF s = d THEN t ELSE [t EXCEPT ![d] = OpenOn(t[s].file)]

\* What execve leaves of a table.
AfterExec(t) == [d \in DOMAIN t |-> IF t[d].cloexec THEN Free ELSE t[d]]

-----------------------------------------------------------------------------
(* What POSIX says a list of file actions does to the table of the caller: *)
(* an open replaces whatever the number was, wherever the file was opened  *)
(* first.  Broken is the outcome of a list that cannot be carried out.     *)

Broken == << >>

Effect(t, a) ==
    CASE t = Broken      -> Broken
      [] a.op = "open"   -> IF a.file # "missing" /\ a.fd \in DOMAIN t
                            THEN [t EXCEPT ![a.fd] = OpenOn(a.file)] ELSE Broken
      [] a.op = "close"  -> Close(t, a.fd)
      [] a.op = "dup2"   -> IF CanDup(t, a.src, a.fd)
                            THEN [t EXCEPT ![a.fd] = OpenOn(t[a.src].file)] ELSE Broken

\* The table after each number of actions, and after all of them.
After(t, actions) ==
    LET after[i \in 0..Len(actions)] == IF i = 0 THEN t ELSE Effect(after[i - 1], actions[i])
    IN after
Requested(t, actions) == After(t, actions)[Len(actions)]

\* In place of a list before there is a call.
Uncalled == <<[op |-> "none", fd |-> 0, src |-> 0, file |-> "-"]>>
=============================================================================
