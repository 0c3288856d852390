----------------------------- MODULE TempFiles -----------------------------
(***************************************************************************)
(* tmpfile and tmpnam of the patched musl, which honour TMPDIR: both try   *)
(* random names, the one until it could create a file and then removes the *)
(* name, the other until it finds none.  Processes of one user share the   *)
(* directory and other programs put files and symbolic links into it.      *)
(*                                                                         *)
(* A path is TMPDIR, "/tmpnam_" and six random letters; of one TMPDIR the  *)
(* letters tell paths apart, and they stand for the path here.  A random   *)
(* name is any of a small set: collisions are what the code is about.  The *)
(* prefixes of the two functions differ; one set of names for both only    *)
(* adds collisions.                                                        *)
(*                                                                         *)
(* tmpnam looks up the whole path and hands out as much of it as goes into *)
(* L_tmpnam characters.  With a TMPDIR of more than 5 characters letters   *)
(* are lost, with one of more than 10 all of them, and the name is one     *)
(* that nobody looked up.  A TMPDIR of more than MaxTmpdir characters, for *)
(* which both functions write behind the end of s[256], is left out.       *)
(*                                                                         *)
(* TriesForever, NotExclusive and SeesFilesOnly are faulty variants of the *)
(* definitions below them and are used by nothing here.                    *)
(***************************************************************************)
EXTENDS Naturals

CONSTANTS
    Makers,         \* processes that call tmpfile
    Namers,         \* processes that call tmpnam
    Names,          \* what __randname may yield, six letters each
    TmpdirLengths,  \* lengths of TMPDIR; unset or empty is "/tmp", of 4
    MaxTries        \* MAXTRIES

Others == {"file", "link"}  \* entries of other programs: a file, a dangling link

Places == {"out", "trying", "created", "holding", "named", "dead"}

L_tmpnam  == 20
MaxTmpdir == 240    \* with "/tmpfile_", six letters and the zero: 256

\* The constants name different things.
TempAssumption ==
    /\ Makers \cap Namers = {} /\ "-" \notin Makers /\ Others \cap Makers = {}
    /\ Names \subseteq [1..6 -> STRING]
    /\ 4 \in TmpdirLengths /\ TmpdirLengths \subseteq 1..MaxTmpdir
    /\ MaxTries \in Nat

VARIABLES
    tmpdir,     \* length of TMPDIR, the same for all and for good
    entries,    \* what each path is: "-", an entry of others or a maker's file
    stage,      \* where each process is
    tries,      \* names it has tried
    handle,     \* whose file the descriptor of a maker is open on
    name        \* the path a maker has created, or the one a namer got

vars == <<tmpdir, entries, stage, tries, handle, name>>

Processes == Makers \cup Namers

NoName == << >>     \* of a process that is neither "created" nor "named"

\* snprintf(dst, L_tmpnam, "%s", s): the letters below that many characters.
Returned(n) == [i \in {j \in 1..6 : tmpdir + 8 + j < L_tmpnam} |-> n[i]]

\* The paths that the functions and their callers can come upon.
Paths == Names \cup {Returned(n) : n \in Names}

Init ==
    /\ tmpdir \in TmpdirLengths
    /\ entries = [n \in Paths |-> "-"]
    /\ stage = [p \in Processes |-> "out"] /\ tries = [p \in Processes |-> 0]
    /\ handle = [m \in Makers |-> "-"] /\ name = [p \in Processes |-> NoName]

To(p, s) == stage' = [stage EXCEPT ![p] = s]
Has(p, n) == name' = [name EXCEPT ![p] = n]

Start(p) ==
    /\ stage[p] = "out" /\ To(p, "trying")
    /\ tries' = [tries EXCEPT ![p] = 0]
    /\ UNCHANGED <<tmpdir, entries, handle, name>>

TriesForever(p) == UNCHANGED vars

\* One more name was in vain; after the last the function returns null.
TryAgain(p) ==
    /\ tries' = [tries EXCEPT ![p] = @ + 1]
    /\ To(p, IF tries[p] + 1 < MaxTries THEN "trying" ELSE "out")
    /\ UNCHANGED <<tmpdir, entries, handle, name>>

\* O_CREAT | O_EXCL fails on whatever has the name, a dangling link too.
NotExclusive(n) == TRUE
Creates(n)      == entries[n] = "-"

Open(m) ==
    /\ stage[m] = "trying"
    /\ \E n \in Names :
         \/ /\ Creates(n)
            /\ handle' = [handle EXCEPT ![m] = IF entries[n] = "-" THEN m ELSE entries[n]]
            /\ entries' = IF entries[n] = "-" THEN [entries EXCEPT ![n] = m] ELSE entries
            /\ To(m, "created") /\ Has(m, n)
            /\ UNCHANGED <<tmpdir, tries>>
         \/ TryAgain(m)

Unlink(m) ==
    /\ stage[m] = "created" /\ Has(m, NoName)
    /\ entries' = [entries EXCEPT ![name[m]] = "-"]
    /\ \/ To(m, "holding") /\ UNCHANGED handle
       \/ To(m, "out") /\ handle' = [handle EXCEPT ![m] = "-"]   \* fdopen failed
    /\ UNCHANGED <<tmpdir, tries>>

Close(m) ==
    /\ stage[m] = "holding" /\ To(m, "out")
    /\ handle' = [handle EXCEPT ![m] = "-"]
    /\ UNCHANGED <<tmpdir, entries, tries, name>>

\* Between the two calls; the path stays.
Crash(m) ==
    /\ stage[m] = "created" /\ To(m, "dead") /\ Has(m, NoName)
    /\ handle' = [handle EXCEPT ![m] = "-"]
    /\ UNCHANGED <<tmpdir, entries, tries>>

\* readlink fails with ENOENT only if nothing has the name; a file that is no
\* link is EINVAL.
SeesFilesOnly(n) == entries[n] \in {"-", "link"}
Missing(n)       == entries[n] = "-"

Look(p) ==
    /\ stage[p] = "trying"
    /\ \E n \in Names :
         IF Missing(n)
         THEN To(p, "named") /\ Has(p, Returned(n)) /\ UNCHANGED <<tmpdir, entries, tries, handle>>
         ELSE TryAgain(p)

\* The caller of tmpnam is done with the name; it may have made a file of it.
UseName(p) ==
    /\ stage[p] = "named" /\ To(p, "out") /\ Has(p, NoName)
    /\ entries' \in {entries, [entries EXCEPT ![name[p]] = IF @ = "-" THEN "file" ELSE @]}
    /\ UNCHANGED <<tmpdir, tries, handle>>

\* Other programs of the directory.
Litter ==
    /\ \E n \in Paths, e \in Others : entries[n] = "-" /\ entries' = [entries EXCEPT ![n] = e]
    /\ UNCHANGED <<tmpdir, stage, tries, handle, name>>

Step(p) ==
    \/ p \in Makers /\ (Open(p) \/ Unlink(p))
    \/ p \in Namers /\ Look(p)

Next ==
    \/ \E m \in Makers : Open(m) \/ Unlink(m) \/ Close(m) \/ Crash(m)
    \/ \E p \in Namers : Look(p) \/ UseName(p)
    \/ \E p \in Processes : Start(p)
    \/ Litter

Fairness == \A p \in Processes : WF_vars(Step(p))
Spec     == Init /\ [][Next]_vars /\ Fairness

-----------------------------------------------------------------------------
(* Properties *)

\* The file of tmpfile is its caller's alone: no path leads to it any more, and
\* a path stays behind only of a process that was killed between the two calls.
PrivateFile ==
    /\ \A m \in Makers : stage[m] = "holding" => handle[m] = m
    /\ \A n \in Paths, m \in Makers : entries[n] = m =>
         \/ stage[m] = "created" /\ name[m] = n
         \/ stage[m] = "dead"

\* What other programs have in the directory is neither created anew nor removed
\* by the functions, nor by a caller that takes only what is free.
OthersUntouched == [][\A n \in Paths : entries[n] \in Others => entries'[n] = entries[n]]_vars

\* With a TMPDIR of up to 5 characters, "/tmp" for one, the name of tmpnam was
\* nobody's when it was looked up, not even a dangling link's that fopen would
\* follow; another program may take it afterwards.  With a longer one it is only
\* the beginning of such a name, and may be anybody's.
FreshName == [][\A p \in Namers :
    stage[p] # "named" /\ stage'[p] = "named" =>
        IF tmpdir <= 5
        THEN entries[name'[p]] = "-"
        ELSE \E n \in Names, k \in 0..5 :
               entries[n] = "-" /\ name'[p] = [i \in 1..k |-> n[i]]]_vars

\* All of it, the promise of the two functions.
TempFilesSafe == []PrivateFile /\ OthersUntouched /\ FreshName

\* Both functions return, at the last try with nothing.
NameSearchEnds == \A p \in Processes : stage[p] = "trying" ~> stage[p] # "trying"
=============================================================================
