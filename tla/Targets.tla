------------------------------ MODULE Targets ------------------------------
(***************************************************************************)
(* How the sources of the SDK choose by the predefined macros of the       *)
(* compiler: the instruction set of ART and its tables (instruction_set.h, *)
(* instruction_set.cc), word size and system of BoringSSL (target.h), the  *)
(* allocator of mem_map.h and the cycle clock (unscaledcycleclock.cc).     *)
(* The targets are those of the build workflows of the SDK.                *)
(*                                                                         *)
(* SpillsWord, NoHexagon and NarrowFirst are faulty variants of the        *)
(* definitions below them and are used by nothing here.                    *)
(***************************************************************************)
EXTENDS Integers, Sequences, FiniteSets

Names64 == {"kArm64", "kRiscv64", "kX86_64", "kLoongArch64", "kPowerPC", "kS390X", "kMips64"}
Names32 == {"kArm", "kThumb2", "kX86", "kHexagon", "kMips"}
InstructionSet == Names64 \cup Names32 \cup {"kNone"}

-----------------------------------------------------------------------------
(* Preprocessor *)

\* A target: its macros, and the width of its pointers.
Target(macros, bits) ==
    [macros |-> macros \cup (IF bits = 64 THEN {"__LP64__"} ELSE {}), bits |-> bits]

BuildTargets ==
    { Target({"__arm__", "__ARMEL__"}, 32),              Target({"__arm__", "__ARMEB__"}, 32),
      Target({"__aarch64__", "__AARCH64EL__"}, 64),      Target({"__aarch64__", "__AARCH64EB__"}, 64),
      Target({"__riscv"}, 32),                           Target({"__riscv"}, 64),
      Target({"__i386__", "__i386"}, 32),                Target({"__x86_64__", "__x86_64"}, 64),
      Target({"__x86_64__", "__x86_64"}, 32),            Target({"__loongarch__", "__loongarch64"}, 64),
      Target({"__powerpc__"}, 32),                       Target({"__powerpc__", "__powerpc64__"}, 64),
      Target({"__s390x__"}, 64),                         Target({"__hexagon__"}, 32),
      Target({"__mips__", "__MIPSEL__"}, 32),            Target({"__mips__", "__MIPSEB__"}, 32),
      Target({"__mips__", "__mips64", "__MIPSEL__"}, 64), Target({"__mips__", "__mips64", "__MIPSEB__"}, 64),
      Target({"__mips__", "__mips64", "__MIPSEL__"}, 32), Target({"__mips__", "__mips64", "__MIPSEB__"}, 32) }

\* One branch of a chain: some macro of any, all of all, none of none.
If(any, all, none, is) == [any |-> any, all |-> all, none |-> none, is |-> is]
Holds(c, t) ==
    c.any \cap t.macros # {} /\ c.all \subseteq t.macros /\ c.none \cap t.macros = {}

Chosen(chain, t, otherwise) ==
    LET true == {i \in DOMAIN chain : Holds(chain[i], t)} IN
    IF true = {} THEN otherwise ELSE chain[CHOOSE i \in true : \A j \in true : i <= j].is

\* kRuntimeISA
RuntimeISA(t) == Chosen(
    << If({"__arm__"}, {}, {}, "kArm"),             If({"__aarch64__"}, {}, {}, "kArm64"),
       If({"__riscv"}, {}, {}, "kRiscv64"),         If({"__i386__"}, {}, {}, "kX86"),
       If({"__x86_64__"}, {}, {}, "kX86_64"),       If({"__loongarch__"}, {}, {}, "kLoongArch64"),
       If({"__powerpc__"}, {}, {}, "kPowerPC"),     If({"__s390x__"}, {}, {}, "kS390X"),
       If({"__hexagon__"}, {}, {}, "kHexagon"),     If({"__mips__"}, {}, {"__mips64"}, "kMips"),
       If({"__mips64"}, {}, {}, "kMips64") >>, t, "kNone")

\* TwoWordReturn: both words in one integer, or a struct of two.
NoHexagon(t) == Chosen(<< If({"__i386__", "__arm__"}, {}, {}, "integer") >>, t, "struct")
TwoWordReturn(t) == Chosen(
    << If({"__i386__", "__arm__", "__hexagon__"}, {}, {}, "integer"),
       If({"__mips__"}, {}, {"__mips64"}, "integer"),
       If({"__x86_64__", "__aarch64__", "__riscv", "__loongarch__", "__powerpc__", "__s390x__",
           "__mips64"}, {}, {}, "struct") >>, t, "error")

\* OPENSSL_32_BIT or OPENSSL_64_BIT, and the assembly to use.
OpenSSL(t) == Chosen(
    << If({"__x86_64"}, {}, {}, <<64, "X86_64">>),
       If({"__i386", "__i386__"}, {}, {}, <<32, "X86">>),
       If({"__AARCH64EL__", "__AARCH64EB__"}, {}, {}, <<64, "AARCH64">>),
       If({"__ARMEL__", "__ARMEB__"}, {}, {}, <<32, "ARM">>),
       If({"__MIPSEL__", "__MIPSEB__"}, {}, {"__LP64__"}, <<32, "MIPS">>),
       If({"__MIPSEL__", "__MIPSEB__"}, {"__LP64__"}, {}, <<64, "MIPS64">>),
       If({"__loongarch64"}, {}, {}, <<64, "LOONG64">>),
       If({"__riscv"}, {"__LP64__"}, {}, <<64, "RISCV64">>),
       If({"__riscv"}, {}, {"__LP64__"}, <<32, "">>),
       If({"__s390x__"}, {}, {}, <<64, "S390X">>),
       If({"__powerpc64__"}, {}, {}, <<64, "PPC">>),
       If({"__powerpc__"}, {}, {"__powerpc64__"}, <<32, "PPC">>),
       If({"__hexagon__"}, {}, {}, <<32, "">>) >>, t, <<0, "error">>)

\* USE_ART_LOW_4G_ALLOCATOR, on systems other than Fuchsia and Apple's.
Low4G(t) == Chosen(
    << If({"__aarch64__", "__riscv", "__loongarch__", "__powerpc__", "__s390x__", "__mips64"},
          {"__LP64__"}, {}, "yes"),
       If({"__LP64__"}, {}, {"__x86_64__"}, "error") >>, t, "no")

\* Width of the counter that UnscaledCycleClock::Now reads at once: rdcycle
\* fills a register.  On machines of "header" absl has the function already.
OldClocks ==
    << If({"__i386__"}, {}, {}, "64"),    If({"__x86_64__"}, {}, {}, "header"),
       If({"__powerpc__"}, {}, {}, "64"), If({"__aarch64__"}, {}, {}, "header") >>
CycleClock(t) == Chosen(OldClocks \o
    << If({"__riscv"}, {"__LP64__"}, {}, "64"), If({"__riscv"}, {}, {}, "32"),
       If({"__loongarch__"}, {}, {}, "64"),     If({"__s390x__"}, {}, {}, "64"),
       If({"__hexagon__"}, {}, {}, "64") >>, t, "none")

\* Frequency of that counter on PowerPC, by the C library.  spr is the special
\* register, 0 if it has none to tell; a line of /proc/cpuinfo may name the
\* timebase, have a colon, and behind it a number or text (-1).
Readable(line) == line.timebase /\ line.colon /\ line.number # -1
FirstLine(cpuinfo) ==
    LET readable == {i \in DOMAIN cpuinfo : Readable(cpuinfo[i])} IN
    IF readable = {} THEN 0 ELSE cpuinfo[CHOOSE i \in readable : \A j \in readable : i <= j].number
Frequency(libc, kernel, spr, cpuinfo) ==
    CASE libc \in {"glibc", "FreeBSD"} -> kernel
      [] libc = "AIX"                  -> 512000000
      [] OTHER                         -> IF spr # 0 THEN spr ELSE FirstLine(cpuinfo)

-----------------------------------------------------------------------------
(* target.h: the system that BoringSSL is built for.  m is the set of      *)
(* macros the compiler and the build define.                               *)

Freestanding == {"__TRUSTY__", "OPENSSL_NANOLIBC", "ANDROID_BAREMETAL", "CROS_EC"}

Linux(m) == IF "__linux__" \in m /\ m \cap Freestanding = {} THEN {"OPENSSL_LINUX"} ELSE {}

SystemOf == [__APPLE__ |-> "OPENSSL_APPLE", _WIN32 |-> "OPENSSL_WINDOWS", __Fuchsia__ |-> "OPENSSL_FUCHSIA",
             __TRUSTY__ |-> "OPENSSL_TRUSTY"]
FlavourOf == [__ANDROID_API__ |-> "OPENSSL_ANDROID", __FreeBSD__ |-> "OPENSSL_FREEBSD", __OpenBSD__ |-> "OPENSSL_OPENBSD"]
Systems(m) == Linux(m) \cup {SystemOf[x] : x \in DOMAIN SystemOf \cap m} \cup {FlavourOf[x] : x \in DOMAIN FlavourOf \cap m}

\* What the library may not use there; threads are what no system forbids.
Forbidden(m) ==
    (IF m \cap (Freestanding \cup {"__ZEPHYR__"}) = {} THEN {} ELSE {"FILESYSTEM", "POSIX_IO", "SOCK"})
    \cup (IF m \cap Freestanding = {} THEN {} ELSE {"THREADS"})
Threads(m) == "THREADS" \notin Forbidden(m)

\* What __has_feature says of the sanitizers, and the assembly that is left.
SanitizerOf == [address_sanitizer |-> "ASAN", thread_sanitizer |-> "TSAN", memory_sanitizer |-> "MSAN",
                hwaddress_sanitizer |-> "HWASAN"]
Sanitizers(features) == {SanitizerOf[x] : x \in DOMAIN SanitizerOf \cap features}
AsmIncompatible(m, features) ==
    "MSAN" \in Sanitizers(features) \/ ("__APPLE__" \in m /\ m \cap {"__ARMEL__", "__ARMEB__"} # {})
NoAsm(m, features) == "OPENSSL_NO_ASM" \in m \/ AsmIncompatible(m, features)

\* What a build defines: its system, one of the environments or none, and flags.
SystemMacros == {{"__APPLE__"}, {"_WIN32"}, {"__linux__"}, {"__linux__", "__ANDROID_API__"}, {"__FreeBSD__"},
                 {"__OpenBSD__"}, {"__NetBSD__"}, {"__Fuchsia__"}}
Environments == Freestanding \cup {"__ZEPHYR__", "none"}
Flags        == {"OPENSSL_NO_ASM", "__ARMEL__"}

-----------------------------------------------------------------------------
(* Tables of ART; "abort" is InstructionSetAbort. *)

Abort == "abort"
Valid(isa) == isa \in Names64 \cup Names32

PointerSizes == [kArm |-> 4, kArm64 |-> 8, kRiscv64 |-> 8, kX86 |-> 4, kX86_64 |-> 8, kLoongArch64 |-> 8,
    kPowerPC |-> 8, kS390X |-> 8, kHexagon |-> 4, kMips |-> 4, kMips64 |-> 8]
CodeAlignments == [kArm |-> 8, kArm64 |-> 16, kRiscv64 |-> 16, kX86 |-> 16, kLoongArch64 |-> 16,
    kPowerPC |-> 16, kS390X |-> 16, kHexagon |-> 16, kMips |-> 4, kMips64 |-> 4]
InstructionAlignments == [kThumb2 |-> 2, kArm64 |-> 4, kRiscv64 |-> 2, kX86 |-> 1, kX86_64 |-> 1,
    kLoongArch64 |-> 4, kPowerPC |-> 4, kS390X |-> 2, kHexagon |-> 4, kMips |-> 4, kMips64 |-> 4]

\* A switch over the sets: some fall through to the case of another.
Switch(isa, table, falls) ==
    CASE isa = "kNone"                            -> Abort
      [] isa # "kNone" /\ isa \in DOMAIN falls    -> table[falls[isa]]
      [] OTHER                                    -> table[isa]

GetInstructionSetPointerSize(isa) == Switch(isa, PointerSizes, [kThumb2 |-> "kArm"])

Is64BitInstructionSet(isa)     == IF isa = "kNone" THEN Abort ELSE isa \in Names64
InstructionSetPointerSize(isa) ==
    IF isa = "kNone" THEN Abort ELSE IF Is64BitInstructionSet(isa) THEN 8 ELSE 4

InstructionAlignment(isa) == Switch(isa, InstructionAlignments, [kArm |-> "kThumb2"])
CodeAlignment(isa)        == Switch(isa, CodeAlignments, [kThumb2 |-> "kArm", kX86_64 |-> "kX86"])

EntryPointAdjustment(isa) == IF isa = "kNone" THEN Abort ELSE IF isa = "kThumb2" THEN 1 ELSE 0

SpillsWord(isa) == 4
GprSpill(isa) ==
    CASE isa \in {"kArm", "kThumb2", "kX86", "kHexagon", "kMips"} -> 4
      [] isa \in {"kArm64", "kRiscv64", "kX86_64", "kLoongArch64", "kPowerPC", "kS390X", "kMips64"} -> 8
      [] OTHER -> Abort
FprSpill(isa) ==
    IF isa \in {"kArm", "kThumb2"} THEN 4 ELSE IF isa = "kNone" THEN Abort ELSE 8

ReservedBytes(isa) ==
    IF isa = "kX86_64" THEN 20480 ELSE IF isa = "kNone" THEN Abort ELSE 16384
FrameSizeLimit == 10000

SetStrings == [kArm |-> "arm", kArm64 |-> "arm64", kRiscv64 |-> "riscv64", kX86 |-> "x86",
    kX86_64 |-> "x86_64", kLoongArch64 |-> "loong64", kPowerPC |-> "ppc64le", kS390X |-> "s390x",
    kHexagon |-> "hexagon", kMips |-> "mips", kMips64 |-> "mips64"]

GetInstructionSetString(isa) ==
    CASE isa = "kThumb2" -> "arm" [] isa = "kNone" -> "none" [] OTHER -> SetStrings[isa]

GetInstructionSetFromString(name) ==
    IF \E i \in DOMAIN SetStrings : SetStrings[i] = name
    THEN CHOOSE i \in DOMAIN SetStrings : SetStrings[i] = name
    ELSE "kNone"

NarrowFirst(zygote, wide, narrow) ==
    CASE zygote = "zygote64_32" -> <<wide, narrow>>
      [] zygote = "zygote32_64" -> <<narrow, wide>>
      [] zygote = "zygote64" -> <<wide>>
      [] zygote = "zygote32" -> <<narrow>>
      [] OTHER -> << >>

\* << >> stands for an error; zygote is the property ro.zygote.
ByZygote(zygote, wide, narrow) ==
    CASE zygote \in {"zygote64_32", "zygote32_64"} -> <<wide, narrow>>
      [] zygote = "zygote64" -> <<wide>>
      [] zygote = "zygote32" -> <<narrow>>
      [] OTHER -> << >>

GetSupportedInstructionSets(isa, zygote) ==
    CASE zygote = "" -> << >>
      [] zygote # "" /\ isa \in {"kArm", "kArm64"}  -> ByZygote(zygote, "kArm64", "kArm")
      [] zygote # "" /\ isa \in {"kX86", "kX86_64"} -> ByZygote(zygote, "kX86_64", "kX86")
      [] zygote # "" /\ isa \in {"kNone", "kThumb2"} -> << >>
      [] OTHER -> <<isa>>

-----------------------------------------------------------------------------
(* Properties *)

\* The eight tables agree on every instruction set: pointers have one size,
\* a register is spilled whole, the first instruction is where one may be,
\* the largest frame fits in the reserve, and a name is read back as the set
\* it was written for, Thumb-2 as Arm.
IsaTablesAgree(isa) ==
    /\ GetInstructionSetPointerSize(isa) = InstructionSetPointerSize(isa)
    /\ Valid(isa) =>
         /\ GprSpill(isa) = InstructionSetPointerSize(isa) /\ FprSpill(isa) >= GprSpill(isa)
         /\ CodeAlignment(isa) % InstructionAlignment(isa) = 0
         /\ EntryPointAdjustment(isa) < InstructionAlignment(isa)
         /\ FrameSizeLimit < ReservedBytes(isa)
    /\ GetInstructionSetFromString(GetInstructionSetString(isa)) =
         IF isa = "kThumb2" THEN "kArm" ELSE isa

\* A target with 32-bit pointers on a 64-bit instruction set, and the 32-bit
\* targets that ART takes for 64-bit ones: riscv32 and powerpc.
Mixed(t) == t.bits = 32 /\ t.macros \cap {"__x86_64__", "__mips64", "__riscv", "__powerpc__"} # {}

\* On every target of the build the independent chains of macros choose alike:
\* none stops at #error, ART and BoringSSL have the pointers of the target, two
\* words travel in one integer exactly where the set has 32 bits, and the low
\* 4 GB are searched only where addresses are longer.  Mixed targets are the
\* exception: ART has pointers of 8 bytes there, BoringSSL 64 bits on x32, and
\* on riscv32 the cycle clock wraps at 32 bits.
ChainsAgree(t) ==
    LET isa == RuntimeISA(t) IN
    /\ Valid(isa) /\ OpenSSL(t)[1] # 0 /\ TwoWordReturn(t) # "error" /\ Low4G(t) # "error"
    /\ (TwoWordReturn(t) = "integer") = ~Is64BitInstructionSet(isa)
    /\ Low4G(t) = "yes" => t.bits = 64
    /\ (CycleClock(t) = "32") = ("__riscv" \in t.macros /\ t.bits = 32)
    /\ InstructionSetPointerSize(isa) = IF Mixed(t) THEN 8 ELSE t.bits \div 8
    /\ OpenSSL(t)[1] = IF "__x86_64" \in t.macros THEN 64 ELSE t.bits

\* A device's list has the set ART was built for, or the sibling it shares the
\* processor with, wide before narrow, each once.
SupportedOnProcessor(t, zygote) ==
    LET isa  == RuntimeISA(t)
        sets == GetSupportedInstructionSets(isa, zygote)
        OneOf(pair) == isa \in pair => \A i \in DOMAIN sets : sets[i] \in pair IN
    /\ OneOf({"kArm", "kArm64"}) /\ OneOf({"kX86", "kX86_64"})
    /\ Len(sets) = 2 => Is64BitInstructionSet(sets[1]) /\ ~Is64BitInstructionSet(sets[2])
    /\ sets = << >> => zygote \notin {"zygote64_32", "zygote32_64", "zygote64", "zygote32"}

\* A frequency is found whenever the kernel, the register or a readable line of
\* the timebase has one, and is never read from a line about something else; the
\* order of the other lines does not matter.
FrequencyFound(libc, kernel, spr, cpuinfo) ==
    LET f == Frequency(libc, kernel, spr, cpuinfo)
        timebases == {cpuinfo[i].number : i \in {j \in DOMAIN cpuinfo : cpuinfo[j].timebase}} IN
    libc = "musl" =>
        /\ f \in {0, spr} \cup (timebases \ {-1})
        /\ f = 0 => spr = 0 /\ \A i \in DOMAIN cpuinfo : Readable(cpuinfo[i]) =>
                       \E j \in 1..i : Readable(cpuinfo[j]) /\ cpuinfo[j].number = 0
        /\ f = Frequency(libc, kernel, spr, SelectSeq(cpuinfo, LAMBDA l : l.timebase))

\* Every build has one system, NetBSD alone none, an environment without a libc
\* is never taken for Linux, a library without locks has no files or sockets
\* either, and assembly is neither mixed with the memory sanitizer nor comes back
\* once it was switched off.
SystemsApart(system, environment, flags, features) ==
    LET m    == system \cup {environment} \cup flags
        main == Systems(m) \ {"OPENSSL_ANDROID", "OPENSSL_TRUSTY"} IN
    /\ Linux(m) # {} => environment \notin Freestanding
    /\ environment = "none" => Cardinality(main) = IF system = {"__NetBSD__"} THEN 0 ELSE 1
    /\ ~Threads(m) => {"FILESYSTEM", "POSIX_IO", "SOCK"} \subseteq Forbidden(m) /\ "OPENSSL_LINUX" \notin Systems(m)
    /\ "memory_sanitizer" \in features => NoAsm(m, features)
    /\ NoAsm(m, features) => \A more \in SUBSET DOMAIN SanitizerOf : NoAsm(m, features \cup more)
=============================================================================
