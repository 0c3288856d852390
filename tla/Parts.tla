------------------------------- MODULE Parts --------------------------------
(***************************************************************************)
(* The parts that share no state with one another, as one system: a        *)
(* behaviour is one of one part, chosen at the start, while the others     *)
(* stay in an initial state.  Each property is that of the module named in *)
(* front of it, under the same name there, with its comment.               *)
(***************************************************************************)
EXTENDS SemClockwait, Sequences

CONSTANTS
    NdkTable, NdkActions, MaxActions, Functions,                            \* NdkSpawn
    NinjaTable, NinjaLists, NinjaPaths,                                     \* NinjaSpawn
    Askers, MayBeAndroid, Verdicts,                                         \* Faccessat
    Devices, Lengths, Chunk,                                                \* FastbootUsb
    Makers, Namers, Names, TmpdirLengths, MaxTries,                         \* TempFiles
    Nodes, Units, Configs, MaxReplugs, NoUnit,                              \* FbsdDevices
    Runners, EarlierFiles,                                                  \* Licenses
    Assets, Scanners, MaxBuilds                                             \* CatalogPipeline

VARIABLES
    part,       \* the part that moves, "none" if none does
    list, request, child, fds, left, flags, parent,                         \* NdkSpawn
    actions, path, caller, table, dir, pipe, data, ret, worker, workerFds,  \* NinjaSpawn
    workerLeft, errno, kids, faulted,
    android, at, open, checker, copy, sent, answer, broken,                 \* Faccessat
    phase, device, setting, held, claimed, passedOver, count, bytes,        \* FastbootUsb
    received, written,
    tmpdir, entries, stage, tries, file, name,                              \* TempFiles
    plugged, replugs, active, known, refs, scan, todo, node, fd, handle, refresh,    \* FbsdDevices
    changed, missed,
    apex, agp, runner, merged, before, disturbed,                           \* Licenses
    archive, digest, publishing, builds, scanner, unread, looking, found,   \* CatalogPipeline
    follows, branch, scanDisturbed, whole

-----------------------------------------------------------------------------
(* Parts *)

Ndk      == INSTANCE NdkSpawn WITH Inherited <- NdkTable, Actions <- NdkActions
Ninja    == INSTANCE NinjaSpawn WITH
    Inherited <- NinjaTable, Lists <- NinjaLists, Paths <- NinjaPaths,
    parent <- caller, child <- worker, fds <- workerFds, left <- workerLeft
Access   == INSTANCE Faccessat WITH Callers <- Askers, Platforms <- MayBeAndroid, faulted <- broken
Fastboot == INSTANCE FastbootUsb WITH left <- bytes
Temp     == INSTANCE TempFiles WITH handle <- file
Usb      == INSTANCE FbsdDevices WITH None <- NoUnit
Lic      == INSTANCE Licenses WITH Earlier <- EarlierFiles, at <- runner
Pipe     == INSTANCE CatalogPipeline WITH at <- scanner, disturbed <- scanDisturbed

ASSUME NdkParameters      == Ndk!NdkAssumption
ASSUME NinjaParameters    == Ninja!NinjaAssumption
ASSUME TempParameters     == Temp!TempAssumption
ASSUME AccessParameters   == Access!AccessAssumption
ASSUME FastbootParameters == Fastboot!FastbootAssumption
ASSUME UsbParameters      == Usb!DevicesAssumption
ASSUME LicenseParameters  == Lic!LicensesAssumption

semVars      == <<value, pc, posts, served>>
ndkVars      == <<list, request, child, fds, left, flags, parent>>
ninjaVars    == <<actions, path, caller, table, dir, pipe, data, ret, worker, workerFds, workerLeft,
                  errno, kids, faulted>>
accessVars   == <<android, at, open, checker, copy, sent, answer, broken>>
fastbootVars == <<phase, device, setting, held, claimed, passedOver, count, bytes, received, written>>
tempVars     == <<tmpdir, entries, stage, tries, file, name>>
usbVars      == <<plugged, replugs, active, known, refs, scan, todo, node, fd, handle, refresh, changed, missed>>
licenseVars  == <<apex, agp, runner, merged, before, disturbed>>
catalogVars  == <<archive, digest, publishing, builds, scanner, unread, looking, found, follows, branch,
                  scanDisturbed, whole>>

Starts ==
    /\ part \in {"sem", "ndk", "ninja", "access", "fastboot", "temp", "usb", "licenses", "catalog",
                "none"}
    /\ Init /\ Ndk!Init /\ Ninja!Init /\ Access!Init /\ Fastboot!Init /\ Temp!Init /\ Usb!Init
    /\ Lic!Init /\ Pipe!Init
    /\ part # "access" => ~android
    /\ part # "temp" => tmpdir = 4
    /\ part # "usb" => \A n \in DOMAIN plugged : plugged[n] = NoUnit
    /\ part # "licenses" => ~agp.there

OthersStay ==
    /\ UNCHANGED part
    /\ (IF part = "sem" THEN TRUE ELSE UNCHANGED semVars)
    /\ (IF part = "ndk" THEN TRUE ELSE UNCHANGED ndkVars)
    /\ (IF part = "ninja" THEN TRUE ELSE UNCHANGED ninjaVars)
    /\ (IF part = "access" THEN TRUE ELSE UNCHANGED accessVars)
    /\ (IF part = "fastboot" THEN TRUE ELSE UNCHANGED fastbootVars)
    /\ (IF part = "temp" THEN TRUE ELSE UNCHANGED tempVars)
    /\ (IF part = "usb" THEN TRUE ELSE UNCHANGED usbVars)
    /\ (IF part = "licenses" THEN TRUE ELSE UNCHANGED licenseVars)
    /\ (IF part = "catalog" THEN TRUE ELSE UNCHANGED catalogVars)

OnePart ==
    \/ part = "sem" /\ Next /\ OthersStay
    \/ part = "ndk" /\ Ndk!Next /\ OthersStay
    \/ part = "ninja" /\ Ninja!Next /\ OthersStay
    \/ part = "access" /\ Access!Next /\ OthersStay
    \/ part = "fastboot" /\ Fastboot!Next /\ OthersStay
    \/ part = "temp" /\ Temp!Next /\ OthersStay
    \/ part = "usb" /\ Usb!Next /\ OthersStay
    \/ part = "licenses" /\ Lic!Next /\ OthersStay
    \/ part = "catalog" /\ Pipe!Next /\ OthersStay

allVars == <<part, semVars, ndkVars, ninjaVars, accessVars, fastbootVars, tempVars, usbVars,
             licenseVars, catalogVars>>

\* In the parts that do not move, what is asked to move is disabled.
FairParts == Ninja!Fairness /\ Access!Fairness /\ Temp!Fairness /\ Usb!Fairness

Parts == Starts /\ [][OnePart]_allVars /\ FairParts

-----------------------------------------------------------------------------
(* Properties *)

\* NdkSpawn and NinjaSpawn: each keeps the promise of a posix_spawn, the second
\* one that of waiting for the exec and of the search in PATH.
NdkIsSpawn   == Ndk!NdkIsSpawn
NinjaIsSpawn == Ninja!NinjaIsSpawn

\* No descriptor, child, pipe, handle or device outlives the call it was taken
\* for, whichever step of the call failed (ninja's spawn, faccessat, usb_open
\* of fastboot, the scan of the FreeBSD backend).
NothingStays ==
    /\ Ninja!NothingLeft /\ Access!CallsLeaveNothing
    /\ Fastboot!TransportOwnsAll /\ Usb!ScanHoldsNothing

\* The calls that wait for a pipe, or repeat what failed, return all the same.
EveryCallReturns ==
    /\ Ninja!SpawnReturns /\ Access!FaccessatReturns
    /\ Temp!NameSearchEnds /\ Usb!ScanEnds

\* Faccessat: whose rights are asked, among threads that call it at once.
AnswersForEffective == Access!AnswersForEffective
\* FastbootUsb: what is claimed and what is sent.
TransportWorks == Fastboot!FirstFitting /\ Fastboot!WrittenInOrder
\* TempFiles: tmpfile's file is its own, others' stay, tmpnam's name was
\* free where TMPDIR leaves room for it.
TempFilesSafe == Temp!TempFilesSafe
\* FbsdDevices: what a scan describes.
DescribesWhatIsPlugged == Usb!DescribesWhatIsPlugged
\* Licenses: an undisturbed acceptance merges line by line.
AcceptedMergesLines == Lic!AcceptedMergesLines
\* CatalogPipeline: what an undisturbed run of the workflow leaves on the branch.
CatalogIsScan == Pipe!CatalogIsScan
=============================================================================
