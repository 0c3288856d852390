----------------------------- MODULE NinjaSpawn -----------------------------
(***************************************************************************)
(* posix_spawn and posix_spawnp as the CMake build gives them to ninja on  *)
(* Android (android_compat.h).  A pipe that closes on exec carries the     *)
(* child's errno back: end of file means that the exec succeeded.          *)
(* posix_spawnp repeats the whole of it for each directory of PATH.        *)
(*                                                                         *)
(* ninja spawns from one thread.  The descriptors its file actions name    *)
(* are open in ninja: the pipe would otherwise be given one of those       *)
(* numbers, and the action would overwrite it.                             *)
(*                                                                         *)
(* AnyEnd, NotReaped and TargetOnly are faulty variants of the definitions *)
(* below them and are used by nothing here.                                *)
(***************************************************************************)
EXTENDS Descriptors

CONSTANTS
    Inherited,  \* ninja's descriptor table before the call
    Lists,      \* the lists of file actions of its calls
    Paths       \* the values of PATH: what execve answers in each directory

Open == {d \in DOMAIN Inherited : Inherited[d] # Free}

\* A list as ninja makes them: of numbers that are open in ninja, none closed
\* twice, which posix_spawn would report as EBADF, none duplicated to itself,
\* which would leave it close-on-exec.
Sensible(l) ==
    /\ l \in Seq([op : {"open", "close", "dup2"}, fd : Open, src : Open, file : STRING])
    /\ \A i \in DOMAIN l : /\ l[i].op = "open" => l[i].file # "-"
                           /\ l[i].op = "dup2" => l[i].src # l[i].fd
    /\ \A i, j \in DOMAIN l :
         l[i].op = "close" /\ l[j].op = "close" /\ l[i].fd = l[j].fd => i = j

\* "0" is what posix_spawn answers when all went well and "-" stands for no
\* errno: no call fails with them.
NinjaAssumption ==
    /\ DOMAIN Inherited \subseteq Nat /\ DOMAIN Inherited # {}
    /\ Inherited \in [DOMAIN Inherited -> [file : STRING, cloexec : BOOLEAN]]
    /\ \A d \in Open : Inherited[d].file # "-"
    /\ \A l \in Lists : Sensible(l)
    /\ \A p \in Paths : p \in Seq(STRING) /\ \A i \in DOMAIN p : p[i] # "0" /\ p[i] # "-"

VARIABLES
    actions,    \* the file actions of the call
    path,       \* the directories it searches
    parent,     \* where the caller is
    table,      \* ninja's descriptor table
    dir,        \* the directory being tried
    pipe,       \* the numbers of the two ends of err_pipe
    data,       \* the errno in the pipe, if any
    ret,        \* what posix_spawn answered for the directory, or 0
    child,      \* where the latest child is
    fds,        \* its descriptor table
    left,       \* file actions it has still to apply
    errno,      \* its errno when a call failed
    kids,       \* children that were neither reaped nor handed to the caller
    faulted     \* history: a call failed for want of resources, or a child was killed

parentVars == <<actions, path, parent, table, dir, pipe, ret>>
childVars  == <<child, fds, left, errno>>
vars       == <<actions, path, parent, table, dir, pipe, data, ret, child, fds, left, errno, kids, faulted>>

Init ==
    /\ actions = Uncalled /\ path = << >> /\ parent = "idle" /\ table = Inherited
    /\ dir = 0 /\ pipe = << >> /\ data = "-" /\ ret = "-"
    /\ child = "none" /\ fds = Inherited /\ left = << >> /\ errno = "-" /\ kids = 0
    /\ faulted = FALSE

-----------------------------------------------------------------------------
(* The caller *)

Goto(l) == parent' = l

Call ==
    /\ parent = "idle"
    /\ actions' \in Lists /\ path' \in Paths /\ dir' = 1
    /\ IF path' = << >> THEN Goto("answered") /\ ret' = "ENOENT"
       ELSE Goto("pipe") /\ UNCHANGED ret
    /\ UNCHANGED <<table, pipe, data, childVars, kids, faulted>>

\* Each directory after the first is tried with everything from the start.
NextDirectory ==
    /\ parent = "answered"
    /\ ret # "0" /\ dir < Len(path)
    /\ Goto("pipe") /\ dir' = dir + 1 /\ ret' = "-"
    /\ UNCHANGED <<actions, path, table, pipe, data, childVars, kids, faulted>>

Return ==
    /\ parent = "answered"
    /\ ret = "0" \/ dir >= Len(path)
    /\ Goto("returned")
    /\ kids' = IF ret = "0" THEN kids - 1 ELSE kids
    /\ UNCHANGED <<actions, path, table, dir, pipe, data, ret, childVars, faulted>>

\* pipe and the two fcntls: one thread, so nothing comes between them.
MakePipe ==
    /\ parent = "pipe"
    /\ IF \A r, w \in Unused(table) : r = w
       THEN /\ Goto("answered") /\ ret' = "EMFILE" /\ faulted' = TRUE
            /\ UNCHANGED <<table, pipe, data>>
       ELSE LET r == Lowest(Unused(table)) IN
            LET w == Lowest(Unused(table) \ {r}) IN
            /\ Goto("fork") /\ pipe' = <<r, w>> /\ data' = "-"
            /\ table' = [table EXCEPT ![r] = Private("read"), ![w] = Private("write")]
            /\ UNCHANGED <<ret, faulted>>
    /\ UNCHANGED <<actions, path, dir, childVars, kids>>

Fork ==
    /\ parent = "fork"
    /\ \/ /\ Goto("close") /\ child' = "started" /\ fds' = table /\ left' = actions
          /\ errno' = "-" /\ kids' = kids + 1
          /\ UNCHANGED <<table, ret, faulted>>
       \/ /\ Goto("answered") /\ ret' = "EAGAIN" /\ faulted' = TRUE
          /\ table' = Close(Close(table, pipe[1]), pipe[2])
          /\ UNCHANGED <<childVars, kids>>
    /\ UNCHANGED <<actions, path, dir, pipe, data>>

CloseWrite ==
    /\ parent = "close" /\ Goto("read")
    /\ table' = Close(table, pipe[2])
    /\ UNCHANGED <<actions, path, dir, pipe, data, ret, childVars, kids, faulted>>

HasWriteEnd(t) == \E d \in DOMAIN t : t[d].file = "write"

\* The read ends with the child's errno, or at end of file: nobody has the
\* write end any more.
AnyEnd    == TRUE
EndOfFile == ~HasWriteEnd(table) /\ ~HasWriteEnd(fds)

Read ==
    /\ parent = "read"
    /\ data # "-" \/ EndOfFile
    /\ Goto(IF data = "-" THEN "answered" ELSE "reap")
    /\ ret' = IF data = "-" THEN "0" ELSE data
    /\ table' = Close(table, pipe[1])
    /\ UNCHANGED <<actions, path, dir, pipe, data, childVars, kids, faulted>>

\* waitpid returns when the child has exited.
Exited    == child \in {"exited", "killed"}
NotReaped == 0
Reaped    == 1
Reap ==
    /\ parent = "reap" /\ Exited
    /\ Goto("answered")
    /\ kids' = kids - Reaped
    /\ UNCHANGED <<actions, path, table, dir, pipe, data, ret, childVars, faulted>>

Caller == NextDirectory \/ Return \/ MakePipe \/ Fork \/ CloseWrite \/ Read \/ Reap

-----------------------------------------------------------------------------
(* The child *)

CloseRead ==
    /\ child = "started" /\ child' = "attributes"
    /\ fds' = Close(fds, pipe[1])
    /\ UNCHANGED <<parentVars, data, left, errno, kids, faulted>>

Fails(e) == child' = "failing" /\ errno' = e /\ UNCHANGED <<fds, left>>
Apply(t) == fds' = t /\ left' = Tail(left) /\ UNCHANGED <<child, errno>>

\* setpgid may be refused, sigprocmask is not.
SetAttributes ==
    /\ child = "attributes"
    /\ \/ child' = "actions" /\ UNCHANGED <<fds, left, errno, faulted>>
       \/ Fails("EPERM") /\ faulted' = TRUE
    /\ UNCHANGED <<parentVars, data, kids>>

\* open at the lowest free number, dup2 to the one asked for.
TargetOnly(t, f, a) == IF f = a.fd THEN t ELSE Dup(t, f, a.fd)
Moved(t, f, a)      == IF f = a.fd THEN t ELSE Close(Dup(t, f, a.fd), f)

ApplyAction ==
    /\ child = "actions" /\ left # << >>
    /\ LET a == Head(left)
           f == Lowest(Unused(fds)) IN
         \/ /\ a.op = "open"
            /\ IF Unused(fds) = {} THEN Fails("EMFILE")
               ELSE IF a.file = "missing" THEN Fails("ENOENT")
               ELSE Apply(Moved([fds EXCEPT ![f] = OpenOn(a.file)], f, a))
         \/ /\ a.op = "close"
            /\ IF Valid(fds, a.fd) THEN Apply(Close(fds, a.fd)) ELSE Fails("EBADF")
         \/ /\ a.op = "dup2"
            /\ IF CanDup(fds, a.src, a.fd) THEN Apply(Dup(fds, a.src, a.fd)) ELSE Fails("EBADF")
    /\ faulted' = (faulted \/ (Head(left).op = "open" /\ Unused(fds) = {}))
    /\ UNCHANGED <<parentVars, data, kids>>

Exec ==
    /\ child = "actions" /\ left = << >>
    /\ IF path[dir] = "ok"
       THEN child' = "running" /\ fds' = AfterExec(fds) /\ UNCHANGED <<left, errno>>
       ELSE Fails(path[dir])
    /\ UNCHANGED <<parentVars, data, kids, faulted>>

\* __cmake_spawn_fail: the errno goes into the pipe, then the child exits.
Report ==
    /\ child = "failing" /\ child' = "exiting"
    /\ data' = errno
    /\ UNCHANGED <<parentVars, fds, left, errno, kids, faulted>>

Nothing == [d \in DOMAIN Inherited |-> Free]
Exit ==
    /\ child = "exiting" /\ child' = "exited"
    /\ fds' = Nothing
    /\ UNCHANGED <<parentVars, data, left, errno, kids, faulted>>

\* A signal ends the child before it has reached the program.
Killed ==
    /\ child \in {"started", "attributes", "actions", "failing", "exiting"}
    /\ child' = "killed" /\ fds' = Nothing /\ faulted' = TRUE
    /\ UNCHANGED <<parentVars, data, left, errno, kids>>

Child == CloseRead \/ SetAttributes \/ ApplyAction \/ Exec \/ Report \/ Exit

Next == Call \/ Caller \/ Child \/ Killed

Fairness == WF_vars(Caller) /\ WF_vars(Child)
Spec     == Init /\ [][Next]_vars /\ Fairness

-----------------------------------------------------------------------------
(* Properties *)

\* "So exec/setup errno reaches the parent (real POSIX semantics, not a stub)":
\* the call answers 0 only after the exec or a fatal signal, an error only when
\* no program runs or will, and the program has the descriptors asked for and
\* neither end of the pipe.
Ended    == parent = "returned"
Contract == INSTANCE Spawning WITH
    Waits   <- TRUE,
    asked   <- actions,
    answer  <- IF ~Ended THEN "none" ELSE IF ret = "0" THEN "ok" ELSE "error",
    program <- IF child = "running" THEN [st |-> "runs", fds |-> fds]
               ELSE IF child = "killed" /\ ret = "0" THEN [st |-> "dead", fds |-> Broken]
               ELSE [st |-> "none", fds |-> Broken]
\* A call leaves ninja's descriptors as they were, and when it fails no child
\* waits to be reaped, however many directories were tried.
NothingLeft == parent \in {"answered", "returned"} =>
    /\ table = Inherited
    /\ (parent = "returned" \/ ret # "0") => kids = 0

\* Search of PATH: when no call fails for another reason, the program of the
\* first directory that has one runs, and it is found though the whole spawn was
\* tried in vain in the directories before it.
FirstInPath ==
    Ended /\ ~faulted /\ Requested(Inherited, actions) # Broken =>
      IF \E i \in DOMAIN path : path[i] = "ok"
      THEN ret = "0" /\ child = "running" /\ \A i \in 1..dir : path[i] = "ok" <=> i = dir
      ELSE ret # "0"

\* The promise of posix_spawn that waits, and of the p in posix_spawnp.
NinjaIsSpawn == Contract!Spec /\ []FirstInPath

\* The caller of posix_spawn is not left waiting on the pipe.
SpawnReturns == parent = "pipe" ~> Ended
=============================================================================
