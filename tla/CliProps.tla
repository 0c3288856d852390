------------------------------ MODULE CliProps ------------------------------
(***************************************************************************)
(* What apex install, uninstall and update promise about the SDK root.     *)
(***************************************************************************)
EXTENDS ApexCli

\* The shared files and the server.
DiskOK ==
    /\ asset \subseteq Builds /\ catalog \subseteq Builds /\ licensed \in BOOLEAN
    /\ pkg \in [Paths -> Tree \cup {NoTree}] /\ stage \in [Paths -> Tree \cup {NoTree}]
    /\ dlAt \in [Files -> Inodes \cup {None}] /\ ino \in [Inodes -> Bytes]
    /\ manifest \in Manifests \cup {Empty, Torn}
    /\ mtmp \in Manifests \cup {Absent, Empty, Torn}

\* The memory of the processes.
LocalOK ==
    /\ pc \in [Procs -> Labels] /\ job \in [Procs -> Jobs]
    /\ mem \in [Procs -> Manifests] /\ cat \in [Procs -> SUBSET Builds]
    /\ at \in [Procs -> Paths \cup {None}] /\ want \in [Procs -> Content]
    /\ src \in [Procs -> Content] /\ tries \in [Procs -> 0..2]
    /\ fd \in [Procs -> Inodes \cup {None}] /\ left \in [Procs -> SUBSET Names]
    /\ mfd \in [Procs -> {"closed", "tmp", "live", "gone"}]
    /\ hurt \subseteq Paths

\* A process that downloads, unpacks or changes something has a path to do it
\* at, and one that downloads or unpacks has a build to install there.
PlaceOK ==
    \A i \in Procs :
        /\ pc[i] \in Critical \cup Fetching => at[i] \in Paths
        /\ pc[i] \in Fetching => want[i] \in Builds

\* Every variable has its type: trees map names to builds, a manifest file is
\* a map from paths to builds or one of its damaged forms, and a process that
\* works on a package knows which.
TypeOK == DiskOK /\ LocalOK /\ PlaceOK

-----------------------------------------------------------------------------
(* Properties of the code as it is                                         *)

\* Some process is changing path p at this moment.
Busy(p) == \E i \in Procs : pc[i] \in Critical /\ at[i] = p

\* manifest.json and the package directory say the same of p: no entry and no
\* directory, or an entry for a build whose files and metadata are all there.
Agree(p) ==
    IF manifest[p] = None THEN pkg[p] = NoTree ELSE Ready(pkg[p], manifest[p])

\* manifest.json is readable, and unless a command is changing p, or the last
\* one to change it was cut short, it agrees with the directory of p; a later
\* command on p that runs to its end makes them agree again (cmdInstall,
\* cmdUninstall, Manifest.save).
AgreeUnlessCutShort ==
    /\ manifest \in Manifests
    /\ \A p \in Paths : Busy(p) \/ p \in hurt \/ Agree(p)

\* No byte reaches a staging directory that the catalog entry being installed
\* does not vouch for, whatever the server sent in earlier attempts, in earlier
\* runs or before a crash (downloadToFile, extract).
OnlyVerifiedUnpacked ==
    [][\A p \in Paths, n \in Names :
         stage'[p] # NoTree /\ stage'[p][n] # None
         /\ (stage[p] = NoTree \/ stage[p][n] # stage'[p][n])
         => \E i \in Procs : at[i] = p /\ want[i] = stage'[p][n]]_vars

\* An install takes nothing out of the package directory before every file of
\* the new build is in the staging directory: a failed download, a mismatched
\* checksum or a failed extraction leaves the old installation as it was.
OldKeptUntilNewStaged ==
    [][\A i \in Procs, p \in Paths :
         at[i] = p /\ job[i].op # "uninstall" /\ pkg[p] # NoTree
         /\ (pkg'[p] = NoTree \/ \E n \in Names : pkg[p][n] # None /\ pkg'[p][n] = None)
         => Holds(stage[p], want[i])]_vars

\* manifest.json gains or changes an entry only when the directory of the
\* package is complete, metadata included, and loses one only when the
\* directory is gone (the order of cmdInstall and cmdUninstall).
RecordedLast ==
    [][\A p \in Paths : manifest'[p] # manifest[p] =>
         IF manifest'[p] = None THEN pkg[p] = NoTree ELSE Ready(pkg[p], manifest'[p])]_vars

\* Processes that name different packages never spoil each other's: a package
\* directory nobody is changing, whose last change was not cut short, is
\* complete, however the downloads, extractions and crashes of all processes
\* interleave (the shared temporary and .apex directories are no obstacle).
PublishedWhole ==
    \A p \in Paths : Busy(p) \/ p \in hurt \/ pkg[p] = NoTree \/ \E b \in Builds : Ready(pkg[p], b)

\* A command that goes past the license check without --licenses-accepted runs
\* on an SDK root whose license was accepted; apex update has no way around it.
LicensedInstalls ==
    \A i \in Procs :
        job[i].op # "uninstall" /\ "licenses-accepted" \notin job[i].flags
        /\ pc[i] \notin {"idle", "load", "fetch", "scan", "gate"} => licensed

\* Every command ends: three attempts, then an error, and every loop is finite.
CommandsEnd == \A i \in Procs : pc[i] # "idle" ~> pc[i] = "idle"

\* The CLI implements the package store: directories appear complete and the
\* manifest follows them.
Store == INSTANCE PackageStore WITH
    there <- {p \in Paths : pkg[p] # NoTree},
    holds <- [p \in Paths |-> {b \in Builds : Holds(pkg[p], b)}],
    entry <- manifest

IsPackageStore == Store!Spec

-----------------------------------------------------------------------------
(* What the documents say, and the code does not do                        *)

\* README.md:64 "Extraction is checksum-verified, ... atomic (temp dir +
\* rename)": no package directory that nobody is changing is incomplete.
NeverHalfInstalled ==
    \A p \in Paths : Busy(p) \/ pkg[p] = NoTree \/ \E b \in Builds : Holds(pkg[p], b)

\* prd-apex-tools.md:166 (FR-016), the manifest records the installed packages:
\* a complete package directory that nobody is changing has its entry.
InstalledIsRecorded ==
    \A p \in Paths : ~Busy(p) /\ p \notin hurt /\ pkg[p] # NoTree /\ manifest \in Manifests
                     => manifest[p] # None

\* prd-apex-tools.md:161 (FR-011), uninstall removes the directory and the
\* manifest entry, idempotently: it passes over a package only if no entry is left.
UninstallForgets ==
    [][\A i \in Procs, p \in Paths :
         job[i].op = "uninstall" /\ pc[i] = "next" /\ pc'[i] = "next"
         /\ p \in job[i].todo \ job'[i].todo => manifest[p] = None]_vars
=============================================================================
