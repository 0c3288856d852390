---------------------------- MODULE MCAlgorithms ----------------------------
(***************************************************************************)
(* The pure functions of the project on all small inputs: a step chooses   *)
(* one, its property is an invariant.                                      *)
(***************************************************************************)
EXTENDS Integers, Sequences, FiniteSets

T == INSTANCE Targets
R == INSTANCE Resolvconf
N == INSTANCE NetInterfaces WITH Bits <- 3
H == INSTANCE HostCompat
P == INSTANCE Sysprop
C == INSTANCE Catalog
U == INSTANCE CmCurl
G == INSTANCE NdkPackage WITH Room <- 7
I == INSTANCE PairedIterator
F == INSTANCE HostPlatforms
Q == INSTANCE FbsdRequests WITH MaxLen <- 3
L == INSTANCE LibcShims
E == INSTANCE UsbEntry
M == INSTANCE MemMap

VARIABLE input  \* the function chosen, and its arguments

Chosen(alg, x) == input' = <<alg, x>>
UpTo(S, n)     == UNION {[1..k -> S] : k \in 0..n}

-----------------------------------------------------------------------------
(* Inputs *)

Zygotes == {"", "zygote64_32", "zygote32_64", "zygote64", "zygote32", "other"}

CpuLines == [timebase : BOOLEAN, colon : BOOLEAN, number : {-1, 0, 512}]

ChooseTarget ==
    \/ \E isa \in T!InstructionSet : Chosen("isa", isa)
    \/ \E t \in T!BuildTargets, z \in Zygotes : Chosen("target", <<t, z>>)
    \/ \E libc \in {"glibc", "AIX", "FreeBSD", "musl"}, kernel \in {33}, spr \in {0, 25},
          cpuinfo \in UpTo(CpuLines, 2) : Chosen("frequency", <<libc, kernel, spr, cpuinfo>>)
    \/ \E system \in T!SystemMacros, environment \in T!Environments, flags \in SUBSET T!Flags,
          features \in SUBSET {"address_sanitizer", "memory_sanitizer"} :
          Chosen("system", <<system, environment, flags, features>>)

Line(key, address, text, length, ndots, timeout) ==
    [key |-> key, cut |-> FALSE, address |-> address, domains |-> [text |-> text, length |-> length],
     set |-> [ndots |-> ndots, attempts |-> << >>, timeout |-> timeout]]
Nameserver(a) == Line("nameserver", a, "", 0, << >>, << >>)
Lines == { Nameserver("10.0.0.1"), Nameserver("10.0.0.2"), Nameserver("bad"),
           Line("search", "bad", "a", 1, << >>, << >>), Line("search", "bad", "", 0, << >>, << >>),
           Line("options", "bad", "", 0, <<20>>, << >>), Line("options", "bad", "", 0, <<3>>, <<60>>),
           [Nameserver("10.0.0.3") EXCEPT !.cut = TRUE] }
ChooseFile ==
    \/ \E file \in UpTo(Lines, 4) : Chosen("conf", <<"0", file>>)
    \/ \E opened \in {"ENOENT", "EIO"} : Chosen("conf", <<opened, << >>>>)

ChooseMask == \E mask \in UpTo(0..7, 3) : Chosen("mask", mask)

Entry(name, family, address, media) ==
    [name |-> name, running |-> TRUE, family |-> family, deprecated |-> FALSE, mask |-> <<7, 4>>,
     address |-> address, media |-> media, loopback |-> name = "lo0"]
Entries == { Entry("em0", "link", "MAC", "Ethernet"), Entry("em0", "v4", "A", "Ethernet"),
             Entry("em0", "v6", "B", "Ethernet"), Entry("em0", "v4", "A", "down"),
             [Entry("em0", "v6", "C", "Ethernet") EXCEPT !.deprecated = TRUE],
             [Entry("em0", "v4", "D", "Ethernet") EXCEPT !.running = FALSE],
             Entry("lo0", "v4", "L", "none"), Entry("tun0", "v4", "T", "none"),
             [Entry("wlan0", "v6", "W", "802.11") EXCEPT !.mask = << >>] }
ChooseEntries == \E entries \in UpTo(Entries, 3) : Chosen("entries", entries)

ChooseStrings == \E dst \in UpTo({"a", "NUL"}, 3), s \in UpTo({"b", "c"}, 3) : Chosen("strings", <<dst, s>>)
ChooseLines   == \E lens \in UpTo(0..9, 3), most \in {0, 4, 8, 16} : Chosen("lines", <<lens, most>>)
ChooseOption  == \E s \in UpTo({"a", "b", ",", "="}, 5), opt \in {<<"a">>, <<"a", "b">>, <<"b">>} :
                     Chosen("option", <<s, opt>>)
ChooseText    == \E text \in UpTo({"a", ",", "\\"}, 6) : Chosen("text", text)
ChooseStore   == \E store \in UpTo([name : {"key", "old"}, value : {<< >>, <<"x">>, <<"y">>}], 3),
                    legacy \in {"", "old"} : Chosen("store", <<store, legacy>>)

Versions == UpTo({<<1, "">>, <<2, "">>, <<2, "-rc1">>}, 2)
ChooseVersions == \E a, b, c \in Versions : Chosen("versions", <<a, b, c>>)

Packages(paths) ==
    [path : paths, version : {<<<<1, "">>>>, <<<<2, "">>>>, <<<<1, "">>, <<1, "">>>>},
     host : {<<"linux", "arm64">>, <<"linux", "arm">>, <<"windows", "x64">>}]
Entered   == [path : {"p", "q"}, version : {p.version : p \in Packages({"p"})}]
Installed == {s \in UpTo(Entered, 2) : \A i, j \in DOMAIN s : i # j => s[i].path # s[j].path}
ChooseFind   == \E packages \in UpTo(Packages({"p"}), 3), goos \in {"linux", "android", "windows"},
                   goarch \in {"arm", "arm64", "amd64"} : Chosen("find", <<packages, goos, goarch>>)
ChooseUpdate == \E packages \in UpTo(Packages({"p", "q"}), 2), installed \in Installed :
                     Chosen("update", <<packages, installed>>)

CurlAnswers == {"OK", "NOT_BUILT_IN", "FAILED"}

Sources == {"HOME", "SSL_CERT_FILE", "SSL_CERT_DIR", "cert_pem", "fedora", "common_file", "common_directory"}
ChooseCA    == \E cafile \in {"", "mine"}, env \in SUBSET Sources, find \in BOOLEAN,
                  answers \in [{"CAINFO", "CAPATH"} -> CurlAnswers] : Chosen("ca", <<cafile, env, find, answers>>)
ChooseNetrc == \E level \in U!Levels \cup {"", "Optional"}, file \in {"", "login"},
                  answers \in [{"NETRC", "NETRC_FILE"} -> CurlAnswers] : Chosen("netrc", <<level, file, answers>>)

Tokens == {<<"number", 30>>, <<"number", 2>>, <<".", 0>>, <<"-beta", 0>>, <<"-rc", 0>>}
ChooseName  == \E name \in UpTo(Tokens, 1), tail \in UpTo(Tokens, 2), opens, closes \in BOOLEAN :
                  LET middle == <<<<".", 0>>, <<"number", 2>>, <<".", 0>>>> IN
                  \/ Chosen("name", <<name \o middle \o tail, opens, closes>>)
                  \/ Chosen("name", <<name \o middle \o <<<<"number", 0>>>> \o tail, opens, closes>>)
Calls == {M!Call("map", "h", "none", n) : n \in {3, 8}} \cup {M!Call("file", "h", "none", 3)}
         \cup {M!Call("take", h, g, n) : h \in {"g", "h"}, g \in {"h", "none"}, n \in {0, 2}}
         \cup {M!Call("assign", h, g, 0) : h, g \in {"g", "h"}}
         \cup {M!Call("swap", "h", "g", 0), M!Call("reset", "h", "none", 0)}
ChooseCalls == \E calls \in UpTo(Calls, 3) : calls # << >> /\ Chosen("calls", calls)

ChooseRange == \E n \in 0..4 : \E first \in [1..n -> 1..3], second \in [1..n -> {"x", "y"}] :
                    Chosen("range", <<first, second>>)

ChooseSorts == \E events \in UpTo({H!StartsSort("a"), H!StartsSort("b"), H!Ended, H!Compares("a"), H!Compares("b")}, 4) :
                    Chosen("sorts", events)
ChooseNumber == \/ \E n \in -40..40 : Chosen("number", n)
                \/ \E there \in BOOLEAN, value \in {"", "x"}, answer \in {0, -1} :
                       Chosen("bionic", <<[there |-> there, value |-> value], answer>>)
                \/ \E end, length \in 0..3, left, errno \in {"0", "ERANGE"} :
                       Chosen("double", <<[value |-> 7, end |-> end, errno |-> left], length, errno>>)

CurlVersions == {<<a, b, 0>> : a \in {7, 8}, b \in 2..8}
ChooseCurl ==
    \/ \E file, windows \in BOOLEAN, path \in UpTo({"a", " ", "z"}, 4), lost \in SUBSET {"a", "z"} :
           Chosen("url", <<[file |-> file, path |-> path], windows, lost>>)
    \/ \E v \in CurlVersions, backend \in {"", "mine"}, systemMac \in BOOLEAN : Chosen("curl", <<v, backend, systemMac>>)
    \/ \E a, b \in {"1.0", "1.1", "1.2", "1.3", "1.4"}, result \in CurlAnswers :
           Chosen("tls", <<a, b, result>>)

\* host_compat.h: platforms, answers to a call, sizes of blocks, device numbers.
Answers == {<<-1, "EINTR">>, <<-1, "EIO">>, <<3, "EINTR">>, <<7, "EINTR">>, <<15, "EINTR">>}
ChooseHost ==
    \/ \E p \in F!Platforms, bits \in {32, 64} : Chosen("platform", <<p, bits>>)
    \/ \E answers \in UpTo(Answers, 3), range \in {8, 16} : Chosen("retry", <<answers, range>>)
    \/ \E n, size \in 0..4 : Chosen("block", <<n, size>>)
    \/ \E maj, min \in {0, 1, 255, 256}, mode \in 0..15 : Chosen("device", <<maj, min, mode>>)

\* Requests to ugen(4), what the variable of the Termux shim says, files of sysfs.
Kernels == [open : {"0", "EACCES"}, ioctl : {"0", "EIO", "ENXIO", "EINVAL"}, close : {"0", "EIO"}, data : UpTo({1}, 4)]
Settings == {E!Unset} \cup [set : {TRUE}, text : {"", "0", "1"}, utf8 : BOOLEAN]
Texts    == [there : BOOLEAN, link : BOOLEAN, stops : 0..2, text : {<< >>, <<"x", "y">>}]
ChooseRequest ==
    \/ \E k \in Kernels, len \in 0..5 : Chosen("descriptor", <<k, len>>)
    \/ \E ioctl \in {"0", "EBUSY"}, iface, altsetting \in 0..1, val \in {0, 1, 255, 256}, speed \in {"HIGH", "other"} :
           Chosen("request", <<[open |-> "0", ioctl |-> ioctl, close |-> "0", data |-> << >>], iface, altsetting, val, speed>>)
    \/ \E endpoint \in {1, 2, 129}, little \in BOOLEAN : Chosen("halt", <<endpoint, little>>)
    \/ \E first, later \in Settings : Chosen("variable", <<first, later>>)
    \/ \E file \in Texts, content \in {<< >>, <<"z">>}, follow \in BOOLEAN, answers \in UpTo({"EINTR", "3"}, 3) :
           Chosen("sysfs", <<file, content, follow, answers>>)
    \/ \E plugged \in SUBSET {"d", "e"}, enabled \in BOOLEAN : Chosen("cleanup", <<plugged, enabled>>)

\* The functions of libc that are missing on bionic and NetBSD.
Execs  == [kernel : {318, 319}, executable : BOOLEAN, script : BOOLEAN, cloexec : BOOLEAN, proc : BOOLEAN]
Times  == [sec : {1}, usec : -6..12]
Tables == [0..2 -> {L!Free, L!OpenOn("a"), L!Private("b")}]
Acts   == {L!Opens(0, "x"), L!Closes(1), L!Dups(1, 2)}
ChooseLibc ==
    \/ \E f \in Execs : Chosen("exec", f)
    \/ \E pos, n \in 0..3, offset \in -2..3, flags \in 0..1 :
           Chosen("offset", <<[pos |-> pos, size |-> 2], n, offset, flags>>)
    \/ \E a, b \in Times : Chosen("times", <<a, b>>)
    \/ \E api \in 21..36 : Chosen("api", api)
    \/ \E arch \in L!Arches : Chosen("arch", arch)
    \/ \E t \in Tables, first, last \in 0..3 : Chosen("close", <<t, first, last>>)
    \/ \E t \in Tables, old, new \in 0..3, cloexec \in BOOLEAN, fcntl \in {"0", "EBADF"}, close \in {"0", "EIO"} :
           Chosen("dup3", <<t, old, new, cloexec, fcntl, close>>)
    \/ \E n \in 0..3 : \E acts \in [1..n -> Acts], allocs \in [1..n -> 0..2] : Chosen("list", <<acts, allocs>>)

Start  == input = <<"none", << >>>>
Choose ==
    /\ Start
    /\ \/ ChooseTarget \/ ChooseFile \/ ChooseMask \/ ChooseEntries \/ ChooseStrings \/ ChooseLines
       \/ ChooseOption \/ ChooseText \/ ChooseStore
       \/ ChooseVersions \/ ChooseFind \/ ChooseUpdate \/ ChooseCA \/ ChooseNetrc
       \/ ChooseName \/ ChooseRange \/ ChooseCalls \/ ChooseSorts \/ ChooseNumber \/ ChooseCurl
       \/ ChooseHost \/ ChooseRequest \/ ChooseLibc

-----------------------------------------------------------------------------
(* The properties of the modules, each on the inputs of its function. *)

OnIn(alg, Property(_)) == input[1] = alg => Property(input[2])

\* Targets: the macros, the tables and the checks of the processor and of the
\* system agree, the frequency is the timebase's.
TargetsAgree ==
    /\ OnIn("isa", LAMBDA x : T!IsaTablesAgree(x))
    /\ OnIn("target", LAMBDA x : T!ChainsAgree(x[1]) /\ T!SupportedOnProcessor(x[1], x[2]))
    /\ OnIn("frequency", LAMBDA x : T!FrequencyFound(x[1], x[2], x[3], x[4]))
    /\ OnIn("system", LAMBDA x : T!SystemsApart(x[1], x[2], x[3], x[4]))

\* Resolvconf and NetInterfaces: what the files and the kernel say is read.
NetworkRead ==
    /\ OnIn("conf", LAMBDA x : R!ReadsTheFile(x[1], x[2]))
    /\ OnIn("mask", LAMBDA x : N!PrefixIsMask(x))
    /\ OnIn("entries", LAMBDA x : N!EveryAddressOnce(x))

\* HostCompat: no cell past a buffer, no text lost, the right option, each sort by
\* its own context.  HostPlatforms, LibcShims: a stand-in is there exactly where the
\* function is missing and does what it does.  FbsdRequests, UsbEntry: the error
\* is that of the step that failed, nothing stays open.
FallbacksHold ==
    /\ OnIn("strings", LAMBDA x : H!StringsFit(x[1], x[2], Len(x[1])))
    /\ OnIn("lines", LAMBDA x : H!LinesFit(x[1], x[2]))
    /\ OnIn("option", LAMBDA x : H!OptionFound(x[1], x[2]))
    /\ OnIn("sorts", LAMBDA x : H!ComparesByOwn(x))
    /\ OnIn("platform", LAMBDA x : F!EachNameOnce(x[1]) /\ F!KernelTypesKept(x[2]))
    /\ OnIn("retry", LAMBDA x : F!StandInsCompute(x[1], x[2]))
    /\ OnIn("block", LAMBDA x : F!BlocksLargeEnough(x[1], x[2]))
    /\ OnIn("device", LAMBDA x : F!NumbersKept(x[1], x[2], x[3]))
    /\ OnIn("descriptor", LAMBDA x : Q!RequestAnswers(x[1], x[2]))
    /\ OnIn("request", LAMBDA x : Q!HandleAnswers(x[1], x[2], x[3], x[4], x[5]))
    /\ OnIn("halt", LAMBDA x : Q!ClearsItsEndpoint(x[1], x[2]) /\ Q!CoreFindsOperations)
    /\ OnIn("variable", LAMBDA x : E!OneAnswer(x[1], x[2]))
    /\ OnIn("sysfs", LAMBDA x : E!ReadsWhole(x[1], x[2], x[3], x[4]))
    /\ OnIn("cleanup", LAMBDA x : E!ClosesItsDevices(x[1], x[2]))
    /\ OnIn("exec", LAMBDA x : L!ExecRunsOrTells(x))
    /\ OnIn("offset", LAMBDA x : L!OffsetsAsKernel(x[1], x[2], x[3], x[4]))
    /\ OnIn("times", LAMBDA x : L!TimesKept(x[1], x[2]))
    /\ OnIn("api", LAMBDA x : L!ShimOnce(x))
    /\ OnIn("arch", LAMBDA x : L!NumbersDiffer(x))
    /\ OnIn("close", LAMBDA x : L!RangeClosed(x[1], x[2], x[3]))
    /\ OnIn("dup3", LAMBDA x : L!Dup3Whole(x[1], x[2], x[3], x[4], x[5], x[6]))
    /\ OnIn("list", LAMBDA x : L!ListsWhole(x[1], x[2]))

\* Sysprop: lists and numbers survive being written, a property's own name comes
\* first, errno and bionic's fallbacks tell the same as the function they replace.
PropertiesRead ==
    /\ OnIn("text", LAMBDA x : P!ListsSurvive(x))
    /\ OnIn("store", LAMBDA x : P!OwnNameFirst(x[1], "key", x[2]))
    /\ OnIn("number", LAMBDA x : P!NumbersSurvive(x))
    /\ OnIn("double", LAMBDA x : P!ErrnoRestored(x[1], x[2], x[3]))
    /\ OnIn("bionic", LAMBDA x : P!BionicFallsBack(x[1], x[2]))

\* Catalog: versions are ordered, a host is given its own archive, an update
\* that was installed is not offered again.
CatalogAnswers ==
    /\ OnIn("versions", LAMBDA x : C!GreaterIsOrder(x[1], x[2], x[3]))
    /\ OnIn("find", LAMBDA x : C!FindsOwnHost(x[1], "p", x[2], x[3]))
    /\ OnIn("update", LAMBDA x : C!UpdateSettles(x[1], x[2], <<"linux", "arm64">>))

\* CmCurl: certificates of one origin, a netrc file only with its level, a URL of
\* the file that was named, remedies for the versions that need them.
CurlOptions ==
    /\ OnIn("ca", LAMBDA x : U!OneOrigin(x[1], x[2], x[3], x[4]))
    /\ OnIn("url", LAMBDA x : U!FileURLNamesFile(x[1], x[2], x[3]))
    /\ OnIn("curl", LAMBDA x : U!RemediesInRange(x[1], x[2], x[3]))
    /\ OnIn("tls", LAMBDA x : U!VersionsShown(x[1], x[2], x[3]))
    /\ OnIn("netrc", LAMBDA x : U!FileNeedsLevel(x[1], x[2], x[3]))

\* NdkPackage: the package names the release it was built from, throughout.
NamesItsRelease == OnIn("name", LAMBDA x : G!NamesItsRelease(x[1], x[2], x[3]) /\ G!DocumentAgrees(x[1]))
\* PairedIterator and MemMap: a sort moves both sequences alike, a mapping that is
\* moved has one owner.
MovesKeepAll ==
    /\ OnIn("range", LAMBDA x : I!PartnersStay(x[1], x[2]))
    /\ OnIn("calls", LAMBDA x : M!PagesOwnedOnce(x, {"g", "h"}))

Spec == Start /\ [][Choose]_input
=============================================================================
