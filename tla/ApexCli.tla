------------------------------- MODULE ApexCli -------------------------------
(***************************************************************************)
(* The apex command-line tool on one SDK root: apex install, uninstall,    *)
(* update and licenses, run by any number of processes at once, each at    *)
(* the granularity of the system calls that other processes can see, with  *)
(* a kill or a power cut possible before every one of them.                *)
(*                                                                         *)
(* The shared state is the file system (package directories, their .tmp    *)
(* staging directories, the downloads in the temporary directory, the      *)
(* manifest and its .tmp) and the release server.  The source takes no     *)
(* lock: nothing but the file system orders two processes.                 *)
(*                                                                         *)
(* Some definitions have a faulty variant right above them, used by        *)
(* nothing here: OneFileForAll, UpdateUnchecked, OneTooMany, NotCounted,   *)
(* Unchecked, DropTarget, AnyTime, NotRemoved and Forgotten each replace   *)
(* the definition below them to show that a property would notice.         *)
(***************************************************************************)
EXTENDS Packages

CONSTANTS
    Procs,      \* processes that run apex commands, one command at a time
    Inodes,     \* files the temporary directory can hold at once
    Ops,        \* the commands issued: subset of {"install", "uninstall", "update"}
    Flags,      \* the flags given: subset of {"force", "licenses-accepted"}
    MayName,    \* Procs -> SUBSET Paths: what each process's commands may name
    Killable,   \* processes that can be killed or meet an I/O error
    Missable,   \* builds a scan of the releases can miss
    XzDies,     \* TRUE iff the xz child can exit before the end of the stream
    Absent,     \* manifest.json.tmp does not exist
    Empty,      \* a manifest file just truncated
    Torn        \* a manifest file whose bytes are not one JSON document

ASSUME CliAssumption ==
    /\ MayName \in [Procs -> SUBSET Paths]
    /\ Ops \subseteq {"install", "uninstall", "update"}
    /\ Flags \subseteq {"force", "licenses-accepted"}
    /\ Killable \subseteq Procs /\ Missable \subseteq Builds /\ XzDies \in BOOLEAN
    /\ None \notin Inodes
    /\ None \notin Paths
    /\ {Absent, Empty, Torn} \cap [Paths -> Builds \cup {None}] = {}
    /\ Absent # Empty /\ Absent # Torn /\ Empty # Torn

VARIABLES
    asset,      \* builds attached to releases, one per URL
    catalog,    \* builds the published catalog.json lists
    licensed,   \* licenses/apex-sdk-license exists
    pkg,        \* the package directory of each path
    stage,      \* the directory "<package directory>.tmp" of each path
    dlAt,       \* the inode of apex-dl-<archive name>, per path and version
    ino,        \* the first and the second half of the bytes of an inode
    manifest,   \* what .apex/manifest.json says
    mtmp,       \* what .apex/manifest.json.tmp says
    pc,         \* where each process is
    job,        \* its command line
    mem,        \* the Manifest it loaded
    cat,        \* the Catalog it fetched
    at,         \* the path it is working on
    want,       \* the catalog entry it installs
    src,        \* the build the server is sending it
    tries,      \* download attempts that failed
    fd,         \* the archive it has open
    left,       \* archive entries it has not extracted yet
    mfd,        \* where the manifest file it has open is now
    hurt        \* history: paths a command was cut short on while changing them

server   == <<asset, catalog>>
dirs     == <<pkg, stage>>
download == <<dlAt, ino>>
records  == <<manifest, mtmp>>
disk     == <<licensed, dirs, download, records>>
chosen   == <<at, want>>
loaded   == <<mem, cat>>
stream   == <<src, tries, fd, left>>
local    == <<pc, job, loaded, chosen, stream, mfd>>
vars     == <<server, disk, local, hurt>>

\* The bytes of a file, in two halves.
Bytes == [1..2 -> Content]
Blank == [h \in 1..2 |-> None]

Manifests == [Paths -> Content]
NoEntries == [p \in Paths |-> None]
NoJob     == [op |-> "none", todo |-> {}, flags |-> {}]

Jobs == [op : {"none", "install", "uninstall", "update"}, todo : SUBSET Paths, flags : SUBSET Flags]

\* Downloads are named after the archive: Base(URL) is
\* <kind>-<version>-<host>.tar.xz, one name per path and version.
Files == Paths \X {VersionOf[b] : b \in Builds}
OneFileForAll(i) == <<CHOOSE p \in Paths : TRUE, VersionOf[want[i]]>>
File(i) == <<PathOf[want[i]], VersionOf[want[i]]>>

\* While here, process i may have changed the package directory or the
\* manifest entry of at[i] without having finished the change.
Critical == {"clear", "publish", "rmdl", "props", "xml", "mopen", "mwrite", "mrename"}
Fetching == {"get", "half1", "half2", "open", "unpack"}
Labels   == Critical \cup Fetching \cup {"idle", "scan", "load", "fetch", "gate", "next"}

Init ==
    /\ asset = {} /\ catalog = {} /\ licensed = FALSE
    /\ pkg = [p \in Paths |-> NoTree] /\ stage = [p \in Paths |-> NoTree]
    /\ dlAt = [f \in Files |-> None]
    /\ ino = [k \in Inodes |-> Blank]
    /\ manifest = NoEntries /\ mtmp = Absent
    /\ pc = [i \in Procs |-> "idle"] /\ job = [i \in Procs |-> NoJob]
    /\ mem = [i \in Procs |-> NoEntries] /\ cat = [i \in Procs |-> {}]
    /\ at = [i \in Procs |-> None] /\ want = [i \in Procs |-> None]
    /\ src = [i \in Procs |-> None] /\ tries = [i \in Procs |-> 0]
    /\ fd = [i \in Procs |-> None] /\ left = [i \in Procs |-> {}]
    /\ mfd = [i \in Procs |-> "closed"]
    /\ hurt = {}

Goto(i, label) == pc' = [pc EXCEPT ![i] = label]

-----------------------------------------------------------------------------
(* Processes and open files                                                *)

\* Inodes that have a name or an open descriptor; the others are free.
InUse == {dlAt[f] : f \in Files} \cup {fd[i] : i \in Procs}

\* Of these, the ones whose bytes can still be read: open in some process, or
\* downloaded and about to be unpacked.  Whoever finds another one in the
\* temporary directory truncates it first (Connect), so its bytes are dropped
\* from the state, as those of a free inode are.
Live == {fd[i] : i \in Procs} \cup {dlAt[File(i)] : i \in {j \in Procs : pc[j] = "open"}}

Reclaim(bytes) == [k \in Inodes |-> IF k \in Live' THEN bytes[k] ELSE Blank]

\* The process ends: returns from main, or is killed.
Quit(i) ==
    /\ Goto(i, "idle")
    /\ job' = [job EXCEPT ![i] = NoJob]
    /\ mem' = [mem EXCEPT ![i] = NoEntries] /\ cat' = [cat EXCEPT ![i] = {}]
    /\ at' = [at EXCEPT ![i] = None] /\ want' = [want EXCEPT ![i] = None]
    /\ src' = [src EXCEPT ![i] = None] /\ tries' = [tries EXCEPT ![i] = 0]
    /\ fd' = [fd EXCEPT ![i] = None] /\ left' = [left EXCEPT ![i] = {}]
    /\ mfd' = [mfd EXCEPT ![i] = "closed"]
    /\ hurt' = IF pc[i] \in Critical THEN hurt \cup {at[i]} ELSE hurt

\* A kill, a power cut, or a system call that fails and makes main return.  A
\* manifest.json.tmp left behind is truncated by the next save before it is
\* read, so unless another process is in its own save the state forgets it.
Crash(i) ==
    /\ i \in Killable /\ pc[i] # "idle"
    /\ Quit(i)
    /\ mtmp' = IF \E j \in Procs \ {i} : pc[j] \in {"mwrite", "mrename"} THEN mtmp ELSE Absent
    /\ UNCHANGED <<server, licensed, dirs, dlAt, manifest>>
    /\ ino' = Reclaim(ino)

-----------------------------------------------------------------------------
(* The release server: build workflows upload assets, the catalog workflow *)
(* lists them some time later.                                             *)

Upload(b) ==
    /\ \A c \in Served(asset, b) : c < b
    /\ b \notin asset
    /\ asset' = (asset \ Served(asset, b)) \cup {b}
    /\ UNCHANGED <<catalog, disk, local, hurt>>

\* A scan misses assets that have no digest beside them yet, and those on a
\* release page it could not read.
Regenerate ==
    /\ \E missed \in SUBSET Missable : catalog' = asset \ missed
    /\ UNCHANGED <<asset, disk, local, hurt>>

-----------------------------------------------------------------------------
(* Command lines                                                           *)

\* apex licenses, answered with yes.
AcceptLicenses(i) ==
    /\ pc[i] = "idle" /\ ~licensed
    /\ licensed' = TRUE
    /\ UNCHANGED <<server, dirs, download, records, local, hurt>>

\* cmdInstall and cmdUninstall refuse an empty list of packages; the order of
\* the packages is any order (see Pick).  cmdUpdate takes no arguments.
Start(i, op, paths, flags) ==
    /\ pc[i] = "idle"
    /\ op \in Ops
    /\ IF op = "update" THEN paths = {} ELSE paths # {}
    /\ op # "install" => flags = {}
    /\ job' = [job EXCEPT ![i] = [op |-> op, todo |-> paths, flags |-> flags]]
    /\ Goto(i, "load")
    /\ UNCHANGED <<server, disk, loaded, chosen, stream, mfd, hurt>>

LoadManifest(i) ==
    /\ pc[i] = "load"
    /\ \/ /\ manifest \notin {Empty, Torn}
          /\ mem' = [mem EXCEPT ![i] = manifest]
          /\ Goto(i, IF job[i].op = "uninstall" THEN "next" ELSE "fetch")
          /\ UNCHANGED <<job, cat, chosen, stream, mfd, hurt>>
       \/ manifest \in {Empty, Torn} /\ Quit(i)   \* parse local manifest: error
    /\ UNCHANGED <<server, disk>>

FetchCatalog(i) ==
    /\ pc[i] = "fetch"
    /\ \/ /\ cat' = [cat EXCEPT ![i] = catalog]
          /\ Goto(i, IF job[i].op = "update" /\ job[i].todo = {} THEN "scan" ELSE "gate")
          /\ UNCHANGED <<job, mem, chosen, stream, mfd, hurt>>
       \/ Quit(i)                                 \* fetch catalog: error
    /\ UNCHANGED <<server, disk>>

\* The rest of cmdUpdate: the entries with something newer become the packages
\* of a call of cmdInstall, which loads manifest and catalog again.
Outdated(i) == {p \in Paths : mem[i][p] # None /\ Newer(cat[i], p, mem[i][p])}

Scan(i) ==
    /\ pc[i] = "scan"
    /\ \/ Outdated(i) = {} /\ Quit(i)             \* everything up to date
       \/ /\ Outdated(i) # {}
          /\ job' = [job EXCEPT ![i].todo = Outdated(i)]
          /\ mem' = [mem EXCEPT ![i] = NoEntries] /\ cat' = [cat EXCEPT ![i] = {}]
          /\ Goto(i, "load")
          /\ UNCHANGED <<chosen, stream, mfd, hurt>>
    /\ UNCHANGED <<server, disk>>

UpdateUnchecked(i) ==
    licensed \/ "licenses-accepted" \in job[i].flags \/ job[i].op = "update"
MayInstall(i) == licensed \/ "licenses-accepted" \in job[i].flags

LicenseGate(i) ==
    /\ pc[i] = "gate"
    /\ \/ /\ MayInstall(i)
          /\ Goto(i, "next")
          /\ UNCHANGED <<job, loaded, chosen, stream, mfd, hurt>>
       \/ ~MayInstall(i) /\ Quit(i)
    /\ UNCHANGED <<server, disk>>

-----------------------------------------------------------------------------
(* The loops over the packages of a command line                           *)

\* Same version by the manifest, and the directory is there.
Installed(i, p, b) ==
    mem[i][p] # None /\ VersionOf[mem[i][p]] = VersionOf[b] /\ pkg[p] # NoTree

Finish(i) ==
    /\ pc[i] = "next" /\ job[i].todo = {}
    /\ Quit(i)
    /\ UNCHANGED <<server, disk>>

\* One turn of the loop of cmdInstall up to the download.  askReplace may be
\* answered with yes, so an installed package is skipped or replaced.
PickInstall(i, p) ==
    /\ pc[i] = "next" /\ job[i].op # "uninstall" /\ p \in job[i].todo
    /\ \/ EntriesFor(cat[i], p) = {} /\ Quit(i)   \* not found in catalog
       \/ \E b \in EntriesFor(cat[i], p) :
            /\ job' = [job EXCEPT ![i].todo = @ \ {p}]
            /\ \/ /\ Installed(i, p, b) /\ "force" \notin job[i].flags
                  /\ UNCHANGED <<pc, chosen>>
               \/ /\ at' = [at EXCEPT ![i] = p] /\ want' = [want EXCEPT ![i] = b]
                  /\ Goto(i, "get")
            /\ UNCHANGED <<loaded, stream, mfd, hurt>>
    /\ UNCHANGED <<server, disk>>

PickUninstall(i, p) ==
    /\ pc[i] = "next" /\ job[i].op = "uninstall" /\ p \in job[i].todo
    /\ job' = [job EXCEPT ![i].todo = @ \ {p}]
    /\ \/ pkg[p] = NoTree /\ UNCHANGED <<pc, at>>   \* prints "not installed"
       \/ /\ pkg[p] # NoTree
          /\ at' = [at EXCEPT ![i] = p]
          /\ Goto(i, "clear")
    /\ UNCHANGED <<server, disk, loaded, want, stream, mfd, hurt>>

-----------------------------------------------------------------------------
(* downloadToFile: three attempts, each into a file created afresh at a    *)
(* name every process shares; the hash is of the stream, not of the file.  *)

Connect(i) ==
    /\ pc[i] = "get"
    /\ \E b \in Served(asset, want[i]) : src' = [src EXCEPT ![i] = b]
    /\ \E k \in IF dlAt[File(i)] # None THEN {dlAt[File(i)]} ELSE Inodes \ InUse :
         /\ dlAt' = [dlAt EXCEPT ![File(i)] = k]
         /\ fd' = [fd EXCEPT ![i] = k]
         /\ ino' = [ino EXCEPT ![k] = Blank]
    /\ Goto(i, "half1")
    /\ UNCHANGED <<server, licensed, dirs, records, job, loaded, chosen, tries, left, mfd, hurt>>

WriteFirstHalf(i) ==
    /\ pc[i] = "half1"
    /\ ino' = [ino EXCEPT ![fd[i]][1] = src[i]]
    /\ Goto(i, "half2")
    /\ UNCHANGED <<server, licensed, dirs, dlAt, records, job, loaded, chosen, stream, mfd, hurt>>

\* for attempt := 0; attempt < 3; attempt++
OneTooMany(i) == tries[i] <= 2
TriesLeft(i)  == tries[i] < 2
NotCounted(i) == tries[i]
NextTry(i)    == tries[i] + 1

\* The attempt is over with the given bytes on disk: try again, or remove the
\* file and give up.
Retry(i, bytes) ==
    /\ \/ /\ TriesLeft(i)
          /\ tries' = [tries EXCEPT ![i] = NextTry(i)]
          /\ src' = [src EXCEPT ![i] = None] /\ fd' = [fd EXCEPT ![i] = None]
          /\ Goto(i, "get")
          /\ UNCHANGED <<dlAt, job, loaded, chosen, left, mfd, hurt>>
       \/ /\ ~TriesLeft(i)
          /\ dlAt' = [dlAt EXCEPT ![File(i)] = None]
          /\ Quit(i)
    /\ UNCHANGED <<server, licensed, dirs, records>>
    /\ ino' = Reclaim(bytes)

\* The hash of what was streamed is the one in the catalog.
Unchecked(i) == TRUE
Verified(i)  == src[i] = want[i]

\* The last bytes arrive, the file is closed and the hash is compared.
WriteSecondHalf(i) ==
    /\ pc[i] = "half2"
    /\ LET bytes == [ino EXCEPT ![fd[i]][2] = src[i]] IN
       \/ /\ Verified(i)
          /\ src' = [src EXCEPT ![i] = None] /\ fd' = [fd EXCEPT ![i] = None]
          /\ tries' = [tries EXCEPT ![i] = 0]
          /\ Goto(i, "open")
          /\ UNCHANGED <<server, licensed, dirs, dlAt, records,
                         job, loaded, chosen, left, mfd, hurt>>
          /\ ino' = Reclaim(bytes)
       \/ ~Verified(i) /\ Retry(i, bytes)      \* checksum mismatch

\* No connection, an HTTP error, or a body that ends early.
NetworkError(i) == pc[i] \in {"get", "half1", "half2"} /\ Retry(i, ino)

-----------------------------------------------------------------------------
(* extract: unpack into <dir>.tmp, remove <dir>, rename                    *)

\* The build whose archive inode k holds whole, if any.
Whole(k) == {b \in Builds : ino[k][1] = b /\ ino[k][2] = b}

\* The extraction fails: the staging directory is removed.
DropTarget(i) ==
    /\ pkg' = [pkg EXCEPT ![at[i]] = NoTree]
    /\ Quit(i)
    /\ UNCHANGED <<server, licensed, stage, dlAt, records>>
    /\ ino' = Reclaim(ino)

DropStage(i) ==
    /\ stage' = [stage EXCEPT ![at[i]] = NoTree]
    /\ Quit(i)
    /\ UNCHANGED <<server, licensed, pkg, dlAt, records>>
    /\ ino' = Reclaim(ino)

OpenArchive(i) ==
    /\ pc[i] = "open"
    /\ \/ dlAt[File(i)] = None /\ DropStage(i)
       \/ /\ dlAt[File(i)] # None
          /\ fd' = [fd EXCEPT ![i] = dlAt[File(i)]]
          /\ left' = [left EXCEPT ![i] = Names]
          /\ stage' = [stage EXCEPT ![at[i]] = IF @ = NoTree THEN EmptyTree ELSE @]
          /\ Goto(i, "unpack")
          /\ UNCHANGED <<server, licensed, pkg, download, records,
                         job, loaded, chosen, src, tries, mfd, hurt>>

\* One archive entry, creating the parent directories it misses.
Unpack(i, n) ==
    /\ pc[i] = "unpack"
    /\ \E b \in Whole(fd[i]) :
         /\ n \in FilesOf[b] \cap left[i]
         /\ stage' = [stage EXCEPT ![at[i]] =
                        [(IF @ = NoTree THEN EmptyTree ELSE @) EXCEPT ![n] = b]]
    /\ left' = [left EXCEPT ![i] = @ \ {n}]
    /\ UNCHANGED <<server, licensed, pkg, download, records,
                   pc, job, loaded, chosen, src, tries, fd, mfd, hurt>>

\* tar.Next reports io.EOF: the archive is unpacked, or its bytes are damaged
\* or xz died at an entry boundary, which newXZReader reports as the same EOF.
AnyTime(i) == TRUE
AtEOF(i) ==
    \/ \E b \in Whole(fd[i]) : FilesOf[b] \cap left[i] = {}
    \/ Whole(fd[i]) = {}
    \/ XzDies

UnpackEOF(i) ==
    /\ pc[i] = "unpack" /\ AtEOF(i)
    /\ fd' = [fd EXCEPT ![i] = None] /\ left' = [left EXCEPT ![i] = {}]
    /\ Goto(i, "clear")
    /\ UNCHANGED <<server, licensed, dirs, dlAt, records,
                   job, loaded, chosen, src, tries, mfd, hurt>>
    /\ ino' = Reclaim(ino)

\* A truncated entry, a full disk, a directory that cannot be created.
UnpackError(i) == pc[i] = "unpack" /\ DropStage(i)

\* Manifest.remove and Manifest.add, on the copy in memory.
NotRemoved(m, p) == m
Removed(m, p)    == [m EXCEPT ![p] = None]
Added(m, p, b)   == [m EXCEPT ![p] = b]

\* os.RemoveAll(dir), shared with cmdUninstall: file by file, then the directory.
ClearFile(i, n) ==
    /\ pc[i] = "clear" /\ pkg[at[i]] # NoTree
    /\ pkg[at[i]][n] # None
    /\ pkg' = [pkg EXCEPT ![at[i]][n] = None]
    /\ UNCHANGED <<server, licensed, stage, download, records, local, hurt>>

ClearDone(i) ==
    /\ pc[i] = "clear" /\ pkg[at[i]] \in {NoTree, EmptyTree}
    /\ pkg' = [pkg EXCEPT ![at[i]] = NoTree]
    /\ \/ /\ job[i].op # "uninstall"
          /\ Goto(i, "publish")
          /\ UNCHANGED mem
       \/ /\ job[i].op = "uninstall"
          /\ mem' = [mem EXCEPT ![i] = Removed(mem[i], at[i])]
          /\ Goto(i, "mopen")
    /\ UNCHANGED <<server, licensed, stage, download, records,
                   job, cat, chosen, stream, mfd, hurt>>

\* os.Rename refuses a target that is a directory and a source that is gone.
Publish(i) ==
    /\ pc[i] = "publish"
    /\ \/ /\ pkg[at[i]] = NoTree /\ stage[at[i]] # NoTree
          /\ pkg' = [pkg EXCEPT ![at[i]] = stage[at[i]]]
          /\ stage' = [stage EXCEPT ![at[i]] = NoTree]
          /\ Goto(i, "rmdl")
          /\ UNCHANGED <<job, loaded, chosen, stream, mfd, hurt>>
       \/ /\ pkg[at[i]] # NoTree \/ stage[at[i]] = NoTree
          /\ Quit(i)
          /\ UNCHANGED dirs
    /\ UNCHANGED <<server, licensed, download, records>>

RemoveDownload(i) ==
    /\ pc[i] = "rmdl"
    /\ dlAt' = [dlAt EXCEPT ![File(i)] = None]
    /\ Goto(i, "props")
    /\ UNCHANGED <<server, licensed, dirs, records, job, loaded, chosen, stream, mfd, hurt>>
    /\ ino' = Reclaim(ino)

-----------------------------------------------------------------------------
(* Metadata and manifest                                                   *)

\* os.WriteFile fails when the package directory is gone.
DirectoryGone(i) == pkg[at[i]] = NoTree /\ Quit(i) /\ UNCHANGED pkg

\* An upstream source.properties is kept.
Forgotten(t, b)      == t
WithProperties(t, b) == IF t[Props] # None THEN t ELSE [t EXCEPT ![Props] = b]

WriteSourceProperties(i) ==
    /\ pc[i] = "props"
    /\ \/ DirectoryGone(i)
       \/ /\ pkg[at[i]] # NoTree
          /\ pkg' = [pkg EXCEPT ![at[i]] = WithProperties(pkg[at[i]], want[i])]
          /\ Goto(i, "xml")
          /\ UNCHANGED <<job, loaded, chosen, stream, mfd, hurt>>
    /\ UNCHANGED <<server, licensed, stage, download, records>>

\* package.xml is always written; then m.add records the entry in memory.
WritePackageXML(i) ==
    /\ pc[i] = "xml"
    /\ \/ DirectoryGone(i)
       \/ /\ pkg[at[i]] # NoTree
          /\ pkg' = [pkg EXCEPT ![at[i]][Xml] = want[i]]
          /\ mem' = [mem EXCEPT ![i] = Added(mem[i], at[i], want[i])]
          /\ Goto(i, "mopen")
          /\ UNCHANGED <<job, cat, chosen, stream, mfd, hurt>>
    /\ UNCHANGED <<server, licensed, stage, download, records>>

\* Manifest.save: os.WriteFile(manifest.json.tmp) truncates, then writes;
\* then the file is renamed over manifest.json.
SaveOpen(i) ==
    /\ pc[i] = "mopen"
    /\ mtmp' = Empty
    /\ mfd' = [mfd EXCEPT ![i] = "tmp"]
    /\ Goto(i, "mwrite")
    /\ UNCHANGED <<server, licensed, dirs, download, manifest,
                   job, loaded, chosen, stream, hurt>>

\* What a file holds once m is written at its start: the tail of a longer
\* document that another process wrote there meanwhile remains.
Overwrite(old, m) == IF old \in {Empty, m} THEN {m} ELSE {m, Torn}

\* The descriptor follows the file through the renames of other processes.
SaveWrite(i) ==
    /\ pc[i] = "mwrite"
    /\ \/ mfd[i] = "tmp"  /\ mtmp' \in Overwrite(mtmp, mem[i]) /\ UNCHANGED manifest
       \/ mfd[i] = "live" /\ manifest' \in Overwrite(manifest, mem[i]) /\ UNCHANGED mtmp
       \/ mfd[i] = "gone" /\ UNCHANGED records
    /\ mfd' = [mfd EXCEPT ![i] = "closed"]
    /\ Goto(i, "mrename")
    /\ UNCHANGED <<server, licensed, dirs, download, job, loaded, chosen, stream, hurt>>

Renamed(place) == CASE place = "tmp" -> "live" [] place = "live" -> "gone" [] OTHER -> place

SaveRename(i) ==
    /\ pc[i] = "mrename"
    /\ \/ /\ mtmp # Absent
          /\ manifest' = mtmp /\ mtmp' = Absent
          /\ mfd' = [j \in Procs |-> Renamed(mfd[j])]
          /\ at' = [at EXCEPT ![i] = None] /\ want' = [want EXCEPT ![i] = None]
          /\ hurt' = hurt \ {at[i]}
          /\ Goto(i, "next")
          /\ UNCHANGED <<job, loaded, stream>>
       \/ mtmp = Absent /\ Quit(i) /\ UNCHANGED records
    /\ UNCHANGED <<server, licensed, dirs, download>>

-----------------------------------------------------------------------------
Step(i) ==
    \/ LoadManifest(i) \/ FetchCatalog(i) \/ Scan(i) \/ LicenseGate(i) \/ Finish(i)
    \/ \E p \in Paths : PickInstall(i, p) \/ PickUninstall(i, p)
    \/ Connect(i) \/ WriteFirstHalf(i) \/ WriteSecondHalf(i) \/ NetworkError(i)
    \/ OpenArchive(i) \/ UnpackEOF(i) \/ UnpackError(i)
    \/ \E n \in Names : Unpack(i, n) \/ ClearFile(i, n)
    \/ ClearDone(i) \/ Publish(i) \/ RemoveDownload(i)
    \/ WriteSourceProperties(i) \/ WritePackageXML(i)
    \/ SaveOpen(i) \/ SaveWrite(i) \/ SaveRename(i)

Command(i) ==
    \/ AcceptLicenses(i)
    \/ \E op \in Ops, S \in SUBSET MayName[i], flags \in SUBSET Flags :
         Start(i, op, S, flags)

Server == Regenerate \/ \E b \in Builds : Upload(b)

Next == Server \/ \E i \in Procs : Step(i) \/ Crash(i) \/ Command(i)

Spec == Init /\ [][Next]_vars

\* A running process is scheduled; the network answers or fails; nobody has to
\* start a command.
FairSpec == Spec /\ \A i \in Procs : WF_vars(Step(i))
=============================================================================
