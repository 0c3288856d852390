----------------------------- MODULE LibcShims -----------------------------
(***************************************************************************)
(* The small stand-ins for functions of libc: those of libc_compat.h for   *)
(* CPython on bionic, dup3 for NetBSD on mips, and the lists               *)
(* that ninja's posix_spawn is given.  Errors are named by their errno;    *)
(* the system calls are external.                                          *)
(*                                                                         *)
(* AnyErrno is a faulty variant of the definition below it and is used by  *)
(* nothing here.                                                           *)
(***************************************************************************)
EXTENDS Integers, Sequences, SequencesExt, Descriptors

-----------------------------------------------------------------------------
(* Which shims a file of CPython gets at an API level *)

Ungated == {"ctermid", "fexecve", "preadv2", "pwritev2", "copy_file_range", "getloadavg"}
CloseRangeGate(api) == IF api < 34 THEN {"close_range"} ELSE {}
TimesGate(api)      == IF api < 26 THEN {"futimes", "lutimes"} ELSE {}
SpawnGate(api)      == IF api < 28 THEN {"posix_spawn", "posix_spawnp"} ELSE {}

LibcCompat(api) == CloseRangeGate(api) \cup TimesGate(api) \cup SpawnGate(api) \cup Ungated

\* External: the level at which bionic has the function, as the shims say.
Never    == 1000
Level(f) ==
    CASE f = "close_range"                       -> 34
      [] f \in {"futimes", "lutimes"}            -> 26
      [] f \in {"posix_spawn", "posix_spawnp"}   -> 28
      [] f \in {"preadv2", "pwritev2"}           -> 24
      [] f = "copy_file_range"                   -> 30
      [] f = "fexecve"                           -> 21
      [] f \in {"ctermid", "getloadavg"}         -> Never

-----------------------------------------------------------------------------
(* System calls by number *)

\* Numbers for headers that name none; "error" stops the compiler.
ExecveatNumber(arch) ==
    CASE arch = "aarch64" -> 358 [] arch = "arm" -> 387 [] arch = "i386" -> 358
      [] arch = "x86_64" -> 322 [] arch = "riscv" -> 210 [] OTHER -> 0
CopyFileRangeNumber(arch) ==
    CASE arch = "aarch64" -> 285 [] arch = "arm" -> 391 [] arch = "i386" -> 377
      [] arch = "x86_64" -> 326 [] arch = "riscv" -> 210 [] OTHER -> 0
CloseRangeNumber == 436

Arches == {"aarch64", "arm", "i386", "x86_64", "riscv"}

-----------------------------------------------------------------------------
(* fexecve *)

\* The answers of execveat and, if it is asked, of execve on the path of the
\* descriptor: "runs", or an errno.
AnyErrno(execveat, execve) == IF execveat = "runs" THEN "runs" ELSE execve
Fexecve(execveat, execve) ==
    IF execveat = "ENOENT" THEN execve ELSE execveat

\* External: a script on a descriptor that is closed by the exec has no path.
Execveat(f) == IF f.kernel < 319 THEN "ENOSYS"
               ELSE IF ~f.executable THEN "EACCES"
               ELSE IF f.script /\ f.cloexec THEN "ENOENT" ELSE "runs"
ExecvePath(f) == IF ~f.proc THEN "ENOENT" ELSE IF f.executable THEN "runs" ELSE "EACCES"

-----------------------------------------------------------------------------
(* preadv2, pwritev2, copy_file_range and close_range *)

\* External: reading n bytes of a file of size bytes with the position pos.
ReadAt(f, at, n)  == IF at >= f.size THEN 0 ELSE IF n < f.size - at THEN n ELSE f.size - at
Readv(f, n)       == [result |-> ReadAt(f, f.pos, n), pos |-> f.pos + ReadAt(f, f.pos, n), errno |-> "0"]
Refuses(f, errno) == [result |-> -1, pos |-> f.pos, errno |-> errno]
Preadv(f, n, offset) == IF offset < 0 THEN Refuses(f, "EINVAL")
                        ELSE [result |-> ReadAt(f, offset, n), pos |-> f.pos, errno |-> "0"]
Writev(f, n)          == [result |-> n, pos |-> f.pos + n, errno |-> "0"]
Pwritev(f, n, offset) == IF offset < 0 THEN Refuses(f, "EINVAL") ELSE [result |-> n, pos |-> f.pos, errno |-> "0"]

Preadv2(f, n, offset, flags) ==
    CASE flags = 0 /\ offset = -1 -> Readv(f, n)
      [] flags = 0 /\ offset # -1 -> Preadv(f, n, offset)
      [] OTHER                    -> Refuses(f, "ENOSYS")
Pwritev2(f, n, offset, flags) ==
    CASE flags = 0 /\ offset = -1 -> Writev(f, n)
      [] flags = 0 /\ offset # -1 -> Pwritev(f, n, offset)
      [] OTHER                    -> Refuses(f, "ENOSYS")

\* External: the kernel's preadv2, where it can do all that flags ask.
KernelPreadv2(f, n, offset) == IF offset = -1 THEN Readv(f, n) ELSE Preadv(f, n, offset)

\* A kernel before 5.9 has no close_range; the callers of CPython then close
\* one descriptor after the other.
CloseRange(t, first, last, known) ==
    IF ~known THEN [result |-> "ENOSYS", table |-> t]
    ELSE [result |-> "0", table |-> [d \in DOMAIN t |-> IF d \in first..last THEN Free ELSE t[d]]]
CloseFrom(t, first, last, known) ==
    LET r == CloseRange(t, first, last, known) IN
    IF r.result = "0" THEN r.table ELSE FoldLeft(Close, t, [i \in 1..(last - first + 1) |-> first + i - 1])

-----------------------------------------------------------------------------
(* futimes and lutimes *)

\* A microsecond of three nanoseconds, a second of four microseconds, a long of
\* 32 values: the conversion wraps where long has 32 bits.
PerMicro  == 3
PerSecond == 4
Wrapped(v) == LET low == v % 32 IN IF low < 16 THEN low ELSE low - 32

ToNanos(t) == [sec |-> t.sec, nsec |-> Wrapped(t.usec * PerMicro)]

\* External: what utimensat makes of two times, "now" being NULL's.
Utimens(ts) ==
    CASE ts = "now" -> "now"
      [] OTHER -> IF \A i \in 1..2 : ts[i].nsec \in 0..(PerMicro * PerSecond - 1) THEN ts ELSE "EINVAL"

Futimes(tv) == Utimens(IF tv = "now" THEN "now" ELSE <<ToNanos(tv[1]), ToNanos(tv[2])>>)
Lutimes(tv) == [on |-> "link", times |-> Utimens(IF tv = "now" THEN "now" ELSE <<ToNanos(tv[1]), ToNanos(tv[2])>>)]

-----------------------------------------------------------------------------
(* dup3 for NetBSD on mips *)

\* fcntl and close are the errnos that the two leave, "0" when they succeed.
Dup3(t, old, new, cloexec, fcntl, close) ==
    CASE old = new                       -> [result |-> -1, errno |-> "EINVAL", table |-> t]
      [] old # new /\ ~CanDup(t, old, new) -> [result |-> -1, errno |-> "EBADF", table |-> t]
      [] OTHER ->
           IF cloexec /\ fcntl # "0" THEN [result |-> -1, errno |-> fcntl, table |-> Close(t, new)]
           ELSE [result |-> new, errno |-> "0",
                 table |-> [t EXCEPT ![new] = [file |-> t[old].file, cloexec |-> cloexec]]]

-----------------------------------------------------------------------------
(* Attributes and file actions of ninja's posix_spawn *)

\* An object of the caller; alloc is what malloc and strdup can still give, left
\* what is never freed.
NoObject == [there |-> FALSE, nodes |-> << >>, flags |-> {}, pgroup |-> 0, sigmask |-> {}, left |-> 0]

AttrInit(a, alloc)     == IF alloc = 0 THEN [a |-> a, result |-> "ENOMEM"]
                          ELSE [a |-> [NoObject EXCEPT !.there = TRUE], result |-> "0"]
SetFlags(a, f)         == [a EXCEPT !.flags = f]
SetPgroup(a, pgroup)   == [a EXCEPT !.pgroup = pgroup]
SetSigmask(a, sigmask) == [a EXCEPT !.sigmask = sigmask]
AttrDestroy(a)         == NoObject

FaAppend(fa, act, alloc) ==
    IF alloc = 0 THEN [fa |-> fa, result |-> "ENOMEM"]
    ELSE [fa |-> [fa EXCEPT !.nodes = Append(@, act)], result |-> "0"]

\* The copy of the path stays when there is no memory for its node.
AddOpen(fa, fd, file, alloc) ==
    IF alloc = 0 THEN [fa |-> fa, result |-> "ENOMEM"]
    ELSE LET r == FaAppend(fa, Opens(fd, file), alloc - 1) IN
         IF r.result = "0" THEN r ELSE [r EXCEPT !.fa.left = @ + 1]
AddClose(fa, fd, alloc)     == FaAppend(fa, Closes(fd), alloc)
AddDup2(fa, src, fd, alloc) == FaAppend(fa, Dups(src, fd), alloc)
FaDestroy(fa)               == [NoObject EXCEPT !.left = fa.left]

Add(fa, act, alloc) ==
    CASE act.op = "open"  -> AddOpen(fa, act.fd, act.file, alloc)
      [] act.op = "close" -> AddClose(fa, act.fd, alloc)
      [] act.op = "dup2"  -> AddDup2(fa, act.src, act.fd, alloc)

-----------------------------------------------------------------------------
(* Properties *)

\* The program runs, or the caller learns why not: a descriptor whose file has no
\* path, or a kernel without execveat, is no reason unless /proc says so too.
ExecRunsOrTells(f) ==
    LET r == Fexecve(Execveat(f), ExecvePath(f)) IN
    /\ r = "runs" => f.executable /\ f.kernel >= 319
    /\ f.executable /\ f.kernel >= 319 /\ (f.proc \/ ~(f.script /\ f.cloexec)) => r = "runs"
    /\ f.kernel < 319 => r = "ENOSYS"

\* Reading and writing at an offset do what the kernel's calls do as long as no
\* flag is asked for; a flag is refused, though the kernel may know it, and the
\* position stays.
OffsetsAsKernel(f, n, offset, flags) ==
    LET r == Preadv2(f, n, offset, flags)
        w == Pwritev2(f, n, offset, flags) IN
    /\ flags = 0 => r = KernelPreadv2(f, n, offset)
    /\ (r.pos # f.pos \/ w.pos # f.pos) => offset = -1 /\ flags = 0
    /\ (r.result = -1) = (w.result = -1)
    /\ flags # 0 => r.errno = "ENOSYS" /\ w.errno = "ENOSYS"

\* Microseconds become the same moment in nanoseconds and no other is accepted,
\* for a file as for a link; a count that is no fraction of a second is refused
\* unless the product wraps.
TimesKept(a, b) ==
    LET tv == <<a, b>>
        r  == Futimes(tv)
        Within(t) == t.usec \in 0..(PerSecond - 1)
        Wraps(t)  == t.usec * PerMicro \notin -16..15 IN
    /\ Lutimes(tv).times = r /\ Futimes("now") = "now"
    /\ (\A i \in 1..2 : ~Wraps(tv[i])) =>
         r = IF Within(a) /\ Within(b)
             THEN [i \in 1..2 |-> [sec |-> tv[i].sec, nsec |-> tv[i].usec * PerMicro]] ELSE "EINVAL"

\* At every level each function of the shims is there once, except that from 30
\* on bionic and the shim both have copy_file_range.  (Of preadv2 and fexecve
\* bionic's headers hide what its level has.)
ShimOnce(api) ==
    \A f \in {"close_range", "futimes", "lutimes", "posix_spawn", "posix_spawnp", "copy_file_range", "ctermid",
              "getloadavg"} :
        (f \in LibcCompat(api)) # (api >= Level(f)) <=> ~(f = "copy_file_range" /\ api >= 30)

\* Two calls that the kernel tells apart have two numbers, except riscv's.
NumbersDiffer(arch) ==
    /\ ExecveatNumber(arch) # 0 /\ CopyFileRangeNumber(arch) # 0
    /\ CloseRangeNumber \notin {ExecveatNumber(arch), CopyFileRangeNumber(arch)}
    /\ (ExecveatNumber(arch) = CopyFileRangeNumber(arch)) = (arch = "riscv")

\* Every descriptor of the range is closed and no other, on each kernel.
RangeClosed(t, first, last) ==
    \A known \in BOOLEAN : LET after == CloseFrom(t, first, last, known) IN
        \A d \in DOMAIN t : after[d] = IF d \in first..last THEN Free ELSE t[d]

\* A dup3 that fails tells its own error, and never leaves the new number open on
\* the old file without the flag that was asked for; one that succeeds sets it.
Dup3Whole(t, old, new, cloexec, fcntl, close) ==
    LET r == Dup3(t, old, new, cloexec, fcntl, close) IN
    /\ r.result = new => r.table[new] = [file |-> t[old].file, cloexec |-> cloexec] /\ Valid(t, old) /\ old # new
    /\ r.result = -1 => /\ r.errno # "0"
                        /\ r.table = t \/ (r.table = Close(t, new) /\ r.errno = fcntl)
    /\ \A d \in DOMAIN t \ {new} : r.table[d] = t[d]

\* The list of file actions is what was added, in order, whichever additions ran
\* out of memory; freed, it leaves nothing but the paths of opens that did.  An
\* attribute object keeps each of the three values until it is freed.
ListsWhole(acts, allocs) ==
    LET Step(s, i) == LET r == Add(s.fa, acts[i], allocs[i]) IN
                      [fa |-> r.fa, kept |-> IF r.result = "0" THEN Append(s.kept, acts[i]) ELSE s.kept]
        attr == SetSigmask(SetPgroup(SetFlags(AttrInit(NoObject, 1).a, {"SETPGROUP"}), 3), {"INT"})
        end == FoldLeft(Step, [fa |-> NoObject, kept |-> << >>], [i \in DOMAIN acts |-> i]) IN
    /\ end.fa.nodes = end.kept
    /\ <<attr.flags, attr.pgroup, attr.sigmask>> = <<{"SETPGROUP"}, 3, {"INT"}>> /\ AttrDestroy(attr) = NoObject
    /\ FaDestroy(end.fa) = [NoObject EXCEPT !.left =
                               Len(SelectSeq([i \in DOMAIN acts |-> <<acts[i].op, allocs[i]>>], LAMBDA x : x = <<"open", 1>>))]
=============================================================================
