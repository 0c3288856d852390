---------------------------- MODULE HostPlatforms ----------------------------
(***************************************************************************)
(* host_compat.h: which names the header adds on which platform, what they *)
(* become, and what its stand-ins compute.  A platform is its system, the  *)
(* API level of bionic, and whether the file compiled is one of adb.  A    *)
(* name stands for "inline" (a function of the header), "type", "set" (a   *)
(* macro that is only tested), "0", or the name it is an alias of.         *)
(*                                                                         *)
(* EarlyBionic is a faulty variant of the definition below it and is used  *)
(* by nothing here.                                                        *)
(***************************************************************************)
EXTENDS Integers, Sequences, FiniteSets, FiniteSetsExt, TLC

Platforms ==
    [os : {"FreeBSD", "NetBSD", "OpenBSD", "macOS", "Windows", "glibc", "musl"}, api : {0}, adb : BOOLEAN]
    \cup [os : {"Android"}, api : {25, 26, 27, 28, 29}, adb : BOOLEAN]

Bsd(p)   == p.os \in {"FreeBSD", "NetBSD", "OpenBSD"}
None     == << >>
All(names, is) == [n \in names |-> is]
On(condition, names) == IF condition THEN names ELSE None

-----------------------------------------------------------------------------
(* The sections of the header, in its order *)

FeatureMacros(p) ==
    On(p.os = "NetBSD", All({"_NETBSD_SOURCE"}, "set"))
    @@ On(p.os \in {"FreeBSD", "OpenBSD"}, All({"__BSD_VISIBLE"}, "set"))
    @@ On(p.os = "OpenBSD", All({"_BSD_SOURCE"}, "set"))

Lfs64(p) ==
    On(Bsd(p), ("lseek64" :> "lseek") @@ ("mmap64" :> "mmap") @@ ("pread64" :> "pread")
               @@ ("pwrite64" :> "pwrite") @@ ("ftruncate64" :> "ftruncate"))
    @@ On(p.os \in {"NetBSD", "OpenBSD"}, "off64_t" :> "off_t")

ProcessShared(p) ==
    On(p.os = "NetBSD", All({"pthread_rwlockattr_setpshared"}, "0"))
    @@ On(p.os \in {"NetBSD", "OpenBSD"},
          All({"pthread_mutexattr_setpshared", "pthread_condattr_setpshared"}, "0"))

\* What the includes of the header declare, which glibc's netinet/in.h does too.
SocketHeaders(p) ==
    On(Bsd(p), All({"AF_INET", "in6_addr"}, "declared"))
    @@ On(p.os = "OpenBSD", All({"pthread_set_name_np"}, "declared"))

\* Of sysroots older than FreeBSD 14 and OpenBSD 7.3.
MulticastTypes(p) ==
    On(p.os = "NetBSD", All({"ip_mreqn"}, "type"))
    @@ On(p.os \in {"FreeBSD", "OpenBSD"},
          ("in_pktinfo" :> "type") @@ ("IP_PKTINFO" :> IF p.os = "FreeBSD" THEN "19" ELSE "26"))

Mempcpy(p) == On(p.os = "OpenBSD", All({"mempcpy"}, "inline"))
Map32Bit(p) == On(Bsd(p), All({"MAP_32BIT"}, "0"))

WindowsTypes(p) ==
    On(p.os = "Windows", All({"NOCRYPT"}, "set") @@ All({"rand_s"}, "msvcrt")
                         @@ All({"uid_t", "gid_t"}, "type"))

MacFeatures(p) == On(p.os = "macOS", All({"_DARWIN_C_SOURCE", "__APPLE_USE_RFC_3542"}, "set"))
MacXattr(p) ==
    On(p.os = "macOS", ("XATTR_CREATE" :> "2") @@ All({"setxattr", "lsetxattr", "fsetxattr"}, "0"))
MacProgname(p) == On(p.os = "macOS", All({"getprogname"}, "inline"))

Unlocked(p) ==
    On(p.os \in {"macOS", "Windows", "Android", "NetBSD", "OpenBSD"},
       ("fgets_unlocked" :> "fgets") @@ ("fputs_unlocked" :> "fputs") @@ ("fread_unlocked" :> "fread")
       @@ ("fwrite_unlocked" :> "fwrite") @@ ("fgetc_unlocked" :> "fgetc")
       @@ ("fputc_unlocked" :> "fputc") @@ ("fflush_unlocked" :> "fflush"))

MacScheduling(p) ==
    On(p.os = "macOS", ("SCHED_BATCH" :> "3") @@ ("SCHED_IDLE" :> "5") @@ All({"sched_setscheduler"}, "0"))

WindowsSockets(p) ==
    On(p.os = "Windows", ("SHUT_RD" :> "SD_RECEIVE") @@ ("SHUT_WR" :> "SD_SEND") @@ ("SHUT_RDWR" :> "SD_BOTH"))

WindowsStat(p) ==
    On(p.os = "Windows", ("S_IFSOCK" :> "12") @@ All({"S_ISSOCK"}, "inline"))
    @@ On(p.os = "Windows" /\ ~p.adb, ("S_IFLNK" :> "10") @@ All({"S_ISLNK"}, "inline") @@ ("lstat" :> "stat"))

RetryMacro(p) == On(Bsd(p) \/ p.os \in {"macOS", "Windows", "musl"}, All({"TEMP_FAILURE_RETRY"}, "inline"))

EarlyBionic(p, since) == p.os = "Android" /\ p.api <= since
BionicBefore(p, since) == p.os = "Android" /\ p.api < since
Allocation(p) ==
    On(BionicBefore(p, 29) \/ p.os \in {"macOS", "Windows"}, All({"reallocarray"}, "inline"))
BionicFallbacks(p) ==
    On(BionicBefore(p, 26), All({"hasmntopt"}, "inline")) @@ On(BionicBefore(p, 28), All({"getlogin_r"}, "inline"))

WindowsGetline(p)  == On(p.os = "Windows", All({"getline"}, "inline"))
WindowsIdentity(p) == On(p.os = "Windows", All({"getuid", "geteuid", "getgid", "getegid"}, "0"))
WindowsDevices(p)  == On(p.os = "Windows", All({"makedev", "major", "minor"}, "inline"))
UsableSize(p) ==
    On(p.os = "Windows", All({"malloc_usable_size"}, "inline")) @@ On(p.os = "OpenBSD", All({"malloc_usable_size"}, "0"))

\* Everything the header gives a file on p.
Header(p) ==
    FeatureMacros(p) @@ Lfs64(p) @@ ProcessShared(p) @@ SocketHeaders(p) @@ MulticastTypes(p) @@ Mempcpy(p) @@ Map32Bit(p)
    @@ WindowsTypes(p) @@ MacFeatures(p) @@ MacXattr(p) @@ MacProgname(p) @@ Unlocked(p) @@ MacScheduling(p)
    @@ WindowsSockets(p) @@ WindowsStat(p) @@ WindowsGetline(p) @@ RetryMacro(p) @@ Allocation(p)
    @@ BionicFallbacks(p) @@ WindowsIdentity(p) @@ WindowsDevices(p) @@ UsableSize(p)

-----------------------------------------------------------------------------
(* A header that replaces the kernel's *)

\* The types of force-int-ll64.h, and those of the kernel's int-l64.h (external).
Widths(bits) == [char |-> 1, short |-> 2, int |-> 4, long |-> bits \div 8, longlong |-> 8]
IntLl64 == [__s8 |-> "char", __u8 |-> "char", __s16 |-> "short", __u16 |-> "short",
            __s32 |-> "int", __u32 |-> "int", __s64 |-> "longlong", __u64 |-> "longlong"]
IntL64  == [IntLl64 EXCEPT !.__s64 = "long", !.__u64 = "long"]

\* External: what the systems have themselves, of the names that AOSP's sources
\* use everywhere.  adb's sysdeps/stat.h counts as Windows' own.
Everywhere ==
    { "fgets_unlocked", "fputs_unlocked", "fread_unlocked", "fwrite_unlocked", "fgetc_unlocked",
      "fputc_unlocked", "fflush_unlocked", "TEMP_FAILURE_RETRY", "reallocarray", "S_ISSOCK", "S_ISLNK",
      "lstat", "getline", "uid_t", "gid_t", "getuid", "makedev", "major", "minor", "mempcpy", "hasmntopt",
      "getlogin_r", "AF_INET", "pthread_mutexattr_setpshared", "pthread_rwlockattr_setpshared", "getprogname" }
Misses(name) ==
    CASE name \in DOMAIN Unlocked([os |-> "macOS"]) -> {"macOS", "Windows", "Android", "NetBSD", "OpenBSD"}
      [] name = "TEMP_FAILURE_RETRY" -> {"macOS", "Windows", "musl", "FreeBSD", "NetBSD", "OpenBSD"}
      [] name = "reallocarray"       -> {"macOS", "Windows"}
      [] name \in {"S_ISSOCK", "S_ISLNK", "lstat", "getline", "uid_t", "gid_t", "getuid", "makedev", "major",
                   "minor"}          -> {"Windows"}
      [] name \in {"mempcpy", "AF_INET"} -> {"FreeBSD", "NetBSD", "OpenBSD"}
      [] name = "pthread_mutexattr_setpshared"  -> {"NetBSD", "OpenBSD"}
      [] name = "pthread_rwlockattr_setpshared" -> {"NetBSD"}
      [] name = "getprogname"                   -> {"macOS"}
      [] OTHER                                  -> {}
Since(name) == CASE name = "reallocarray" -> 29 [] name = "hasmntopt" -> 26 [] name = "getlogin_r" -> 28 [] OTHER -> 0
Native(p) ==
    {n \in Everywhere : /\ p.os \notin Misses(n)
                        /\ p.os = "Android" => p.api >= Since(n)}
    \cup (IF p.os = "Windows" /\ p.adb THEN {"S_ISLNK", "lstat"} ELSE {})

-----------------------------------------------------------------------------
(* What the stand-ins compute *)

\* A long of so many values, half of them negative: 2^32 on Windows.
AsLong(v, range) == LET low == v % range IN IF low < range \div 2 THEN low ELSE low - range

\* TEMP_FAILURE_RETRY over a system call with these answers, <<value, errno>>:
\* the place of the answer that ends it, 0 if it goes on, and the value.
Retry(answers, range) ==
    LET ends == {i \in DOMAIN answers : AsLong(answers[i][1], range) # -1 \/ answers[i][2] # "EINTR"} IN
    IF ends = {} THEN [at |-> 0, value |-> 0] ELSE [at |-> Min(ends), value |-> AsLong(answers[Min(ends)][1], range)]

\* reallocarray of a block, where sizes go up to most and realloc has free.
Reallocarray(old, n, size, most, free) ==
    CASE n * size > most  -> [block |-> old, result |-> "NULL", errno |-> "ENOMEM"]
      [] n * size <= most -> IF n * size > free THEN [block |-> old, result |-> "NULL", errno |-> "ENOMEM"]
                             ELSE [block |-> n * size, result |-> "block", errno |-> "0"]

Makedev(maj, min) == maj * 256 + min
Major(dev) == (dev \div 256) % 256
Minor(dev) == dev % 256

\* The four bits of S_IFMT, in 4096ths.
SIsSock(mode) == mode % 16 = 12
SIsLnk(mode)  == mode % 16 = 10

-----------------------------------------------------------------------------
(* Properties *)

\* On every platform each name that AOSP uses everywhere is there once: from the
\* system or from the header, and not from both, whichever API level bionic has
\* and whether the file is adb's.  An alias leads to a name that is no alias.
\* (The comment says that the BSD libcs lack mempcpy; the code gives it to
\* OpenBSD alone.)
EachNameOnce(p) ==
    LET header == Header(p) IN
    /\ \A n \in Everywhere : (n \in DOMAIN header) # (n \in Native(p)) <=>
                              ~(n = "mempcpy" /\ p.os \in {"FreeBSD", "NetBSD"})
    /\ \A n \in DOMAIN header : header[n] \notin DOMAIN header

\* TEMP_FAILURE_RETRY stops at the first answer that is no interruption, and
\* gives it, if it fits in a long; a wider one may be taken for -1 and, with the
\* errno of an earlier call, be thrown away.  A block is never smaller than asked
\* for, a device keeps its numbers below 256, a file has one type.
StandInsCompute(answers, range) ==
    LET r     == Retry(answers, range)
        first == {i \in DOMAIN answers : answers[i] # <<-1, "EINTR">>} IN
    (\A i \in DOMAIN answers : answers[i][1] < range \div 2) =>
        IF first = {} THEN r.at = 0 ELSE r = [at |-> Min(first), value |-> answers[Min(first)][1]]
BlocksLargeEnough(n, size) ==
    \A free \in 0..9 : LET r == Reallocarray(1, n, size, 7, free) IN
        IF r.result = "block" THEN r.block = n * size /\ r.block <= free ELSE r.block = 1 /\ r.errno = "ENOMEM"
NumbersKept(maj, min, mode) ==
    /\ min < 256 /\ maj < 256 => Major(Makedev(maj, min)) = maj /\ Minor(Makedev(maj, min)) = min
    /\ ~(SIsSock(mode) /\ SIsLnk(mode))

\* The kernel's types that force-int-ll64.h claims keep their width on a target
\* with 64-bit pointers, each is as wide as its name says, and they are the
\* "long long" that e2fsprogs writes out.
KernelTypesKept(bits) ==
    /\ bits = 64 => \A t \in DOMAIN IntLl64 : Widths(bits)[IntLl64[t]] = Widths(bits)[IntL64[t]]
    /\ Widths(bits)[IntLl64.__u64] = 8 /\ Widths(bits)[IntLl64.__s32] = 4
    /\ {t \in DOMAIN IntLl64 : IntLl64[t] = "longlong"} = {"__s64", "__u64"}
=============================================================================
