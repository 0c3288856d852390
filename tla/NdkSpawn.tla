------------------------------ MODULE NdkSpawn ------------------------------
(***************************************************************************)
(* posix_spawn and posix_spawnp as the NDK build gives them to CPython on  *)
(* bionic below API 28 (posix_spawn.h): a list of file actions, a fork,    *)
(* and a child that applies the list and the attributes and then execs.    *)
(* The parent returns as soon as it has forked.                            *)
(*                                                                         *)
(* A list is a sequence: the nodes with head and tail only append and walk *)
(* it.  Open flags and modes, and the calls that have no file action or    *)
(* attribute in them, are left out.                                        *)
(*                                                                         *)
(* KeptOpen is a faulty variant of Moved and is used by nothing here.      *)
(***************************************************************************)
EXTENDS Descriptors

CONSTANTS
    Inherited,  \* the descriptor table of the caller
    Actions,    \* file actions callers may add
    MaxActions, \* bound on the length of a list
    Functions   \* "posix_spawn", "posix_spawnp" or both

\* Numbers that are opened are below the limit of open files, where the dup2
\* whose answer the child drops cannot fail, and nothing is duplicated to
\* itself, which would leave it close-on-exec.
NdkAssumption ==
    /\ DOMAIN Inherited \subseteq Nat /\ DOMAIN Inherited # {}
    /\ Inherited \in [DOMAIN Inherited -> [file : STRING, cloexec : BOOLEAN]]
    /\ \A a \in Actions :
         \/ a.op = "open" /\ a.fd \in DOMAIN Inherited
         \/ a.op = "close"
         \/ a.op = "dup2" /\ a.src # a.fd
    /\ MaxActions \in Nat

VARIABLES
    list,       \* the caller's posix_spawn_file_actions_t
    parent,     \* where the caller is
    request,    \* the call: function, file actions and flags
    child,      \* where the child is: its exit status once it has one
    fds,        \* the child's descriptor table
    left,       \* the file actions the child has still to apply
    flags       \* the attribute flags it has still to apply

vars == <<list, parent, request, child, fds, left, flags>>

\* The attributes in the order in which the child applies them.
FlagOrder == <<"ids", "group", "mask", "default", "schedparam", "scheduler">>
Flags     == ToSet(FlagOrder)

NoRequest == [fn |-> "none", actions |-> Uncalled, flags |-> {}]

Init ==
    /\ list = << >> /\ parent = "building" /\ request = NoRequest
    /\ child = "none" /\ fds = Inherited /\ left = << >> /\ flags = << >>

-----------------------------------------------------------------------------
(* The caller *)

\* addopen, addclose and adddup2; out of memory, they leave the list as it is.
Add ==
    /\ parent = "building" /\ Len(list) < MaxActions
    /\ \E a \in Actions : list' = Append(list, a)
    /\ UNCHANGED <<parent, request, child, fds, left, flags>>

Call ==
    /\ parent = "building" /\ parent' = "calling"
    /\ \E fn \in Functions, set \in {{}, {"group"}, {"mask", "default"}, Flags} :
         request' = [fn |-> fn, actions |-> list, flags |-> set]
    /\ UNCHANGED <<list, child, fds, left, flags>>

\* The child has a copy of the list and of the attributes.
Fork ==
    /\ parent = "calling"
    /\ \/ /\ parent' = "forked" /\ child' = "applying"
          /\ left' = request.actions
          /\ flags' = SelectSeq(FlagOrder, LAMBDA f : f \in request.flags)
       \/ parent' = "failed" /\ UNCHANGED <<child, left, flags>>
    /\ UNCHANGED <<list, request, fds>>

Return ==
    /\ parent = "forked" /\ parent' = "returned"
    /\ UNCHANGED <<list, request, child, fds, left, flags>>

\* posix_spawn_file_actions_destroy, whatever the child is doing.
Destroy ==
    /\ parent \in {"returned", "failed"} /\ list # << >>
    /\ list' = << >>
    /\ UNCHANGED <<parent, request, child, fds, left, flags>>

-----------------------------------------------------------------------------
(* The child *)

Exit127 == child' = "127" /\ UNCHANGED <<fds, left, flags>>
Apply(t) == fds' = t /\ left' = Tail(left) /\ UNCHANGED <<child, flags>>

\* The file is opened at the lowest free number and moved from there; a dup2
\* that fails goes unnoticed.
KeptOpen(t, a) == LET f == Lowest(Unused(t)) IN
    LET opened == [t EXCEPT ![f] = OpenOn(a.file)] IN
    IF f = a.fd \/ a.fd \notin DOMAIN t THEN opened ELSE Dup(opened, f, a.fd)
Moved(t, a) == LET f == Lowest(Unused(t)) IN
    LET opened == [t EXCEPT ![f] = OpenOn(a.file)] IN
    IF f = a.fd THEN opened
    ELSE Close(IF a.fd \in DOMAIN t THEN Dup(opened, f, a.fd) ELSE opened, f)

ApplyAction ==
    /\ child = "applying" /\ left # << >>
    /\ LET a == Head(left) IN
         \/ /\ a.op = "open"
            /\ IF a.file = "missing" \/ Unused(fds) = {} THEN Exit127 ELSE Apply(Moved(fds, a))
         \/ /\ a.op = "close" /\ Apply(Close(fds, a.fd))
         \/ /\ a.op = "dup2"
            /\ IF CanDup(fds, a.src, a.fd) THEN Apply(Dup(fds, a.src, a.fd)) ELSE Exit127
    /\ UNCHANGED <<list, parent, request>>

\* The results are dropped: a setting that fails stays as it was.
ApplyFlag ==
    /\ child = "applying" /\ left = << >> /\ flags # << >>
    /\ flags' = Tail(flags)
    /\ UNCHANGED <<list, parent, request, child, fds, left>>

Exec ==
    /\ child = "applying" /\ left = << >> /\ flags = << >>
    /\ \/ child' = "running" /\ fds' = AfterExec(fds)
       \/ child' = "127" /\ UNCHANGED fds
    /\ UNCHANGED <<list, parent, request, left, flags>>

Next == Add \/ Call \/ Fork \/ Return \/ Destroy \/ ApplyAction \/ ApplyFlag \/ Exec

Spec == Init /\ [][Next]_vars

-----------------------------------------------------------------------------
(* Properties *)

\* The implementation keeps the promise that does not wait for the exec: what
\* runs has the descriptors of the list as it was at the call, though the caller
\* destroys it meanwhile and the file is opened elsewhere first
\* (__ndk_spawn_child); after a failed fork nothing runs.
Contract == INSTANCE Spawning WITH
    Waits   <- FALSE,
    asked   <- request.actions,
    answer  <- CASE parent = "returned" -> "ok" [] parent = "failed" -> "error" [] OTHER -> "none",
    program <- CASE child = "running" -> [st |-> "runs", fds |-> fds]
                 [] child = "127"     -> [st |-> "dead", fds |-> Broken]
                 [] OTHER             -> [st |-> "none", fds |-> Broken]
NdkIsSpawn == Contract!Spec
=============================================================================
