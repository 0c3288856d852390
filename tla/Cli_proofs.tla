----------------------------- MODULE Cli_proofs -----------------------------
(***************************************************************************)
(* The CLI, for any processes, packages, builds and files: its types, and  *)
(* what install, uninstall and update leave in the SDK root.               *)
(***************************************************************************)
EXTENDS CliProps, TLAPS

-----------------------------------------------------------------------------
(* Types                                                                   *)

\* A process that ends leaves well-typed memory behind.
LEMMA QuitKeepsTypes ==
    ASSUME TypeOK, NEW i \in Procs, Quit(i)
    PROVE  LocalOK' /\ PlaceOK'
<1> USE CliAssumption, PackagesAssumption DEF TypeOK, LocalOK, PlaceOK, Quit, Goto
<1>1. pc' \in [Procs -> Labels] /\ tries' \in [Procs -> 0..2]
  BY DEF Labels
<1>2. job' \in [Procs -> Jobs]
  BY DEF Jobs, NoJob
<1>3. mem' \in [Procs -> Manifests]
  BY DEF Manifests, NoEntries, Content
<1>4. cat' \in [Procs -> SUBSET Builds] /\ at' \in [Procs -> Paths \cup {None}]
  OBVIOUS
<1>5. want' \in [Procs -> Content] /\ src' \in [Procs -> Content]
  BY DEF Content
<1>6. fd' \in [Procs -> Inodes \cup {None}] /\ left' \in [Procs -> SUBSET Names]
  OBVIOUS
<1>7. mfd' \in [Procs -> {"closed", "tmp", "live", "gone"}]
  OBVIOUS
<1>8. hurt' \subseteq Paths
  OBVIOUS
<1>9. PlaceOK'
  BY DEF Critical, Fetching, Labels
<1>10. QED BY <1>1, <1>2, <1>3, <1>4, <1>5, <1>6, <1>7, <1>8, <1>9

\* Reclaiming inodes keeps every inode's bytes well-typed.
LEMMA ReclaimKeepsTypes ==
    ASSUME NEW x \in [Inodes -> Bytes]
    PROVE  Reclaim(x) \in [Inodes -> Bytes]
BY DEF Reclaim, Bytes, Blank, Content

LEMMA TreeUpdate ==
    ASSUME NEW t \in Tree, NEW n, NEW c \in Content
    PROVE  [t EXCEPT ![n] = c] \in Tree
BY DEF Tree

LEMMA EmptyTreeType == EmptyTree \in Tree
BY DEF EmptyTree, Tree, Content

-----------------------------------------------------------------------------
(* Steps that change only the memory of the process *)

LEMMA MemoryStepsKeepTypes ==
    ASSUME TypeOK, NEW i \in Procs,
           \/ LoadManifest(i) \/ FetchCatalog(i) \/ Scan(i) \/ LicenseGate(i) \/ Finish(i)
           \/ \E p \in Paths : PickInstall(i, p) \/ PickUninstall(i, p)
    PROVE  TypeOK'
<1> USE DEF server, disk, dirs, download, records, chosen, loaded, stream
<1>1. DiskOK'
  BY DEF TypeOK, DiskOK, LoadManifest, FetchCatalog, Scan, LicenseGate, Finish,
         PickInstall, PickUninstall
<1>2. CASE Quit(i)
  BY <1>1, <1>2, QuitKeepsTypes DEF TypeOK
<1>3. CASE LoadManifest(i) /\ ~Quit(i)
  <2>1. LocalOK'
    BY <1>3 DEF LoadManifest, TypeOK, LocalOK, DiskOK, Goto, Labels
  <2>2. PlaceOK'
    BY <1>3 DEF LoadManifest, TypeOK, LocalOK, PlaceOK, Goto, Critical, Fetching
  <2>3. QED BY <1>1, <2>1, <2>2 DEF TypeOK
<1>4. CASE FetchCatalog(i) /\ ~Quit(i)
  <2>1. LocalOK'
    BY <1>4 DEF FetchCatalog, TypeOK, LocalOK, DiskOK, Goto, Labels
  <2>2. PlaceOK'
    BY <1>4 DEF FetchCatalog, TypeOK, LocalOK, PlaceOK, Goto, Critical, Fetching
  <2>3. QED BY <1>1, <2>1, <2>2 DEF TypeOK
<1>5. CASE Scan(i) /\ ~Quit(i)
  <2>1. /\ job' = [job EXCEPT ![i].todo = Outdated(i)]
        /\ mem' = [mem EXCEPT ![i] = NoEntries]
        /\ cat' = [cat EXCEPT ![i] = {}]
        /\ Goto(i, "load")
        /\ UNCHANGED <<chosen, stream, mfd, hurt>>
    BY <1>5 DEF Scan
  <2>2. Outdated(i) \in SUBSET Paths
    BY DEF Outdated
  <2>3. job' \in [Procs -> Jobs]
    BY <2>1, <2>2 DEF TypeOK, LocalOK, Jobs
  <2>4. NoEntries \in Manifests
    BY DEF NoEntries, Manifests, Content
  <2>5. mem' \in [Procs -> Manifests]
    BY <2>1, <2>4 DEF TypeOK, LocalOK
  <2>6. LocalOK'
    BY <2>1, <2>3, <2>5 DEF TypeOK, LocalOK, Goto, Labels
  <2>7. PlaceOK'
    BY <2>1 DEF TypeOK, LocalOK, PlaceOK, Goto, Critical, Fetching
  <2>8. QED BY <1>1, <2>6, <2>7 DEF TypeOK
<1>6. CASE LicenseGate(i) /\ ~Quit(i)
  <2>1. LocalOK'
    BY <1>6 DEF LicenseGate, TypeOK, LocalOK, Goto, Labels
  <2>2. PlaceOK'
    BY <1>6 DEF LicenseGate, TypeOK, LocalOK, PlaceOK, Goto, Critical, Fetching
  <2>3. QED BY <1>1, <2>1, <2>2 DEF TypeOK
<1>7. ASSUME NEW p \in Paths, PickInstall(i, p), ~Quit(i)
      PROVE  TypeOK'
  <2>1. job' \in [Procs -> Jobs]
    BY <1>7 DEF PickInstall, TypeOK, LocalOK, Jobs
  <2>2. want' \in [Procs -> Content] /\ at' \in [Procs -> Paths \cup {None}]
    BY <1>7 DEF PickInstall, EntriesFor, TypeOK, LocalOK, Content
  <2>3. pc' \in [Procs -> Labels]
    BY <1>7 DEF PickInstall, TypeOK, LocalOK, Goto, Labels, Fetching
  <2>4. LocalOK'
    BY <1>7, <2>1, <2>2, <2>3 DEF PickInstall, TypeOK, LocalOK
  <2>5. PlaceOK'
    <3>1. PICK b \in EntriesFor(cat[i], p) :
            \/ UNCHANGED <<pc, chosen>>
            \/ /\ at' = [at EXCEPT ![i] = p] /\ want' = [want EXCEPT ![i] = b]
               /\ Goto(i, "get")
      BY <1>7 DEF PickInstall
    <3>2. b \in Builds
      BY PackagesAssumption DEF EntriesFor
    <3>3. QED BY <3>1, <3>2 DEF TypeOK, LocalOK, PlaceOK, Goto, Fetching
  <2>6. QED BY <1>1, <2>4, <2>5 DEF TypeOK
<1>8. ASSUME NEW p \in Paths, PickUninstall(i, p)
      PROVE  TypeOK'
  <2>1. job' \in [Procs -> Jobs]
    BY <1>8 DEF PickUninstall, TypeOK, LocalOK, Jobs
  <2>2. pc' \in [Procs -> Labels] /\ at' \in [Procs -> Paths \cup {None}]
    BY <1>8 DEF PickUninstall, TypeOK, LocalOK, Goto, Labels, Critical
  <2>3. LocalOK'
    BY <1>8, <2>1, <2>2 DEF PickUninstall, TypeOK, LocalOK
  <2>4. PlaceOK'
    BY <1>8 DEF PickUninstall, TypeOK, LocalOK, PlaceOK, Goto, Critical, Fetching
  <2>5. QED BY <1>1, <2>3, <2>4 DEF TypeOK
<1>9. CASE Finish(i)
  BY <1>2, <1>9 DEF Finish
<1>10. QED BY <1>2, <1>3, <1>4, <1>5, <1>6, <1>7, <1>8, <1>9

-----------------------------------------------------------------------------
(* The download *)

LEMMA DownloadKeepsTypes ==
    ASSUME TypeOK, NEW i \in Procs,
           Connect(i) \/ WriteFirstHalf(i) \/ WriteSecondHalf(i) \/ NetworkError(i)
    PROVE  TypeOK'
<1> USE DEF server, dirs, download, records, chosen, loaded, stream
<1>1. ASSUME NEW x \in [Inodes -> Bytes], Retry(i, x), pc[i] \in Fetching
      PROVE  TypeOK'
  <2>1. ino' \in [Inodes -> Bytes]
    BY <1>1, ReclaimKeepsTypes DEF Retry
  <2>2. dlAt' \in [Files -> Inodes \cup {None}]
    BY <1>1 DEF Retry, TypeOK, DiskOK
  <2>3. DiskOK'
    BY <1>1, <2>1, <2>2 DEF Retry, TypeOK, DiskOK
  <2>4. CASE Quit(i)
    BY <2>3, <2>4, QuitKeepsTypes DEF TypeOK
  <2>5. CASE ~Quit(i)
    <3>1. /\ TriesLeft(i)
          /\ tries' = [tries EXCEPT ![i] = NextTry(i)]
          /\ src' = [src EXCEPT ![i] = None] /\ fd' = [fd EXCEPT ![i] = None]
          /\ Goto(i, "get")
          /\ UNCHANGED <<job, loaded, chosen, left, mfd, hurt>>
      BY <1>1, <2>5 DEF Retry
    <3>2. tries' \in [Procs -> 0..2]
      BY <3>1 DEF TriesLeft, NextTry, TypeOK, LocalOK
    <3>3. LocalOK'
      BY <3>1, <3>2 DEF TypeOK, LocalOK, Goto, Labels, Fetching, Content
    <3>4. PlaceOK'
      BY <1>1, <3>1 DEF TypeOK, LocalOK, PlaceOK, Goto, Fetching
    <3>5. QED BY <2>3, <3>3, <3>4 DEF TypeOK
  <2>6. QED BY <2>4, <2>5
<1>2. CASE NetworkError(i)
  BY <1>1, <1>2 DEF NetworkError, TypeOK, DiskOK, Fetching
<1>4. CASE Connect(i)
  <2>1. PICK k \in Inodes :
          /\ dlAt' = [dlAt EXCEPT ![File(i)] = k]
          /\ fd' = [fd EXCEPT ![i] = k]
          /\ ino' = [ino EXCEPT ![k] = Blank]
    <3>1. CASE dlAt[File(i)] = None
      BY <1>4, <3>1 DEF Connect
    <3>2. CASE dlAt[File(i)] # None
      <4>1. File(i) \in Files
        <5>1. PICK c \in Served(asset, want[i]) : TRUE
          BY <1>4 DEF Connect
        <5>2. /\ c \in Builds
              /\ PathOf[want[i]] = PathOf[c] /\ VersionOf[want[i]] = VersionOf[c]
          BY <5>1 DEF Served, TypeOK, DiskOK
        <5>3. PathOf[c] \in Paths
          BY <5>2, PackagesAssumption
        <5>4. QED BY <5>2, <5>3 DEF File, Files
      <4>2. dlAt[File(i)] \in Inodes
        BY <3>2, <4>1 DEF TypeOK, DiskOK
      <4>3. QED BY <1>4, <3>2, <4>2 DEF Connect
    <3>3. QED BY <3>1, <3>2
  <2>2. Blank \in Bytes
    BY DEF Blank, Bytes, Content
  <2>3. DiskOK'
    BY <1>4, <2>1, <2>2 DEF Connect, TypeOK, DiskOK
  <2>4. src' \in [Procs -> Content]
    BY <1>4 DEF Connect, Served, TypeOK, DiskOK, LocalOK, Content
  <2>5. LocalOK'
    BY <1>4, <2>1, <2>4 DEF Connect, TypeOK, LocalOK, Goto, Labels, Fetching
  <2>6. PlaceOK'
    BY <1>4 DEF Connect, TypeOK, LocalOK, PlaceOK, Goto, Fetching
  <2>7. QED BY <2>3, <2>5, <2>6 DEF TypeOK
<1>5. CASE WriteFirstHalf(i)
  <2>1. ino' \in [Inodes -> Bytes]
    BY <1>5 DEF WriteFirstHalf, TypeOK, DiskOK, LocalOK, Bytes
  <2>2. DiskOK'
    BY <1>5, <2>1 DEF WriteFirstHalf, TypeOK, DiskOK
  <2>3. LocalOK'
    BY <1>5 DEF WriteFirstHalf, TypeOK, LocalOK, Goto, Labels, Fetching
  <2>4. PlaceOK'
    BY <1>5 DEF WriteFirstHalf, TypeOK, LocalOK, PlaceOK, Goto, Fetching
  <2>5. QED BY <2>2, <2>3, <2>4 DEF TypeOK
<1>6. CASE WriteSecondHalf(i)
  <2> DEFINE x == [ino EXCEPT ![fd[i]][2] = src[i]]
  <2>1. x \in [Inodes -> Bytes]
    BY DEF TypeOK, DiskOK, LocalOK, Bytes
  <2>2. CASE Retry(i, x)
    BY <1>1, <1>6, <2>1, <2>2 DEF WriteSecondHalf, Fetching
  <2>3. CASE ~Retry(i, x)
    <3> HIDE DEF x
    <3>1. /\ src' = [src EXCEPT ![i] = None] /\ fd' = [fd EXCEPT ![i] = None]
          /\ tries' = [tries EXCEPT ![i] = 0]
          /\ Goto(i, "open")
          /\ UNCHANGED <<server, licensed, dirs, dlAt, records,
                         job, loaded, chosen, left, mfd, hurt>>
          /\ ino' = Reclaim(x)
      BY <1>6, <2>3 DEF WriteSecondHalf, x
    <3>2. DiskOK'
      BY <2>1, <3>1, ReclaimKeepsTypes DEF TypeOK, DiskOK
    <3>3. LocalOK'
      BY <3>1 DEF TypeOK, LocalOK, Goto, Labels, Fetching, Content
    <3>4. PlaceOK'
      BY <1>6, <3>1 DEF WriteSecondHalf, TypeOK, LocalOK, PlaceOK, Goto, Fetching
    <3>5. QED BY <3>2, <3>3, <3>4 DEF TypeOK
  <2>4. QED BY <2>2, <2>3
<1>7. QED BY <1>2, <1>4, <1>5, <1>6

-----------------------------------------------------------------------------
(* The extraction, the replacement of the directory *)

LEMMA ExtractKeepsTypes ==
    ASSUME TypeOK, NEW i \in Procs,
           \/ OpenArchive(i) \/ UnpackEOF(i) \/ UnpackError(i)
           \/ \E n \in Names : Unpack(i, n)
    PROVE  TypeOK'
<1> USE DEF server, dirs, download, records, chosen, loaded, stream
<1>1. ino \in [Inodes -> Bytes]
  BY DEF TypeOK, DiskOK
<1>2. CASE DropStage(i)
  <2>1. stage' \in [Paths -> Tree \cup {NoTree}]
    BY <1>2 DEF DropStage, TypeOK, DiskOK
  <2>2. DiskOK'
    BY <1>1, <1>2, <2>1, ReclaimKeepsTypes DEF DropStage, TypeOK, DiskOK
  <2>3. QED BY <1>2, <2>2, QuitKeepsTypes DEF DropStage, TypeOK
<1>3. CASE OpenArchive(i) /\ ~DropStage(i)
  <2>1. /\ pc[i] = "open"
        /\ fd' = [fd EXCEPT ![i] = dlAt[File(i)]]
        /\ dlAt[File(i)] # None
        /\ left' = [left EXCEPT ![i] = Names]
        /\ stage' = [stage EXCEPT ![at[i]] = IF @ = NoTree THEN EmptyTree ELSE @]
        /\ Goto(i, "unpack")
        /\ UNCHANGED <<server, licensed, pkg, download, records,
                       job, loaded, chosen, src, tries, mfd, hurt>>
    BY <1>3 DEF OpenArchive
  <2>2. at[i] \in Paths
    BY <2>1 DEF TypeOK, PlaceOK, Fetching
  <2>3. stage' \in [Paths -> Tree \cup {NoTree}]
    BY <2>1, <2>2, EmptyTreeType DEF TypeOK, DiskOK
  <2>4. DiskOK'
    BY <2>1, <2>3 DEF TypeOK, DiskOK
  <2>5. fd' \in [Procs -> Inodes \cup {None}]
    <3>1. want[i] \in Builds
      BY <2>1 DEF TypeOK, PlaceOK, Fetching
    <3>2. File(i) \in Files
      BY <3>1, PackagesAssumption DEF File, Files
    <3>3. QED BY <2>1, <3>2 DEF TypeOK, DiskOK, LocalOK
  <2>6. LocalOK'
    BY <2>1, <2>5 DEF TypeOK, LocalOK, Goto, Labels, Fetching
  <2>7. PlaceOK'
    BY <2>1 DEF TypeOK, LocalOK, PlaceOK, Goto, Fetching
  <2>8. QED BY <2>4, <2>6, <2>7 DEF TypeOK
<1>4. CASE UnpackEOF(i)
  <2>1. DiskOK'
    BY <1>1, <1>4, ReclaimKeepsTypes DEF UnpackEOF, TypeOK, DiskOK
  <2>2. LocalOK'
    BY <1>4 DEF UnpackEOF, TypeOK, LocalOK, Goto, Labels, Critical
  <2>3. PlaceOK'
    BY <1>4 DEF UnpackEOF, TypeOK, LocalOK, PlaceOK, Goto, Critical, Fetching
  <2>4. QED BY <2>1, <2>2, <2>3 DEF TypeOK
<1>5. ASSUME NEW n \in Names, Unpack(i, n)
      PROVE  TypeOK'
  <2>1. PICK c \in Whole(fd[i]) :
          stage' = [stage EXCEPT ![at[i]] =
                      [(IF @ = NoTree THEN EmptyTree ELSE @) EXCEPT ![n] = c]]
    BY <1>5 DEF Unpack
  <2>2. c \in Content
    BY <2>1 DEF Whole, Content
  <2>3. at[i] \in Paths
    BY <1>5 DEF Unpack, TypeOK, PlaceOK, Fetching
  <2>4. [(IF stage[at[i]] = NoTree THEN EmptyTree ELSE stage[at[i]]) EXCEPT ![n] = c] \in Tree
    BY <2>2, <2>3, EmptyTreeType, TreeUpdate DEF TypeOK, DiskOK
  <2>5. stage' \in [Paths -> Tree \cup {NoTree}]
    BY <2>1, <2>3, <2>4 DEF TypeOK, DiskOK
  <2>6. DiskOK'
    BY <1>5, <2>5 DEF Unpack, TypeOK, DiskOK
  <2>7. LocalOK' /\ PlaceOK'
    BY <1>5 DEF Unpack, TypeOK, LocalOK, PlaceOK
  <2>8. QED BY <2>6, <2>7 DEF TypeOK
<1>6. CASE UnpackError(i)
  BY <1>2, <1>6 DEF UnpackError
<1>7. QED BY <1>2, <1>3, <1>4, <1>5, <1>6

LEMMA ReplaceKeepsTypes ==
    ASSUME TypeOK, NEW i \in Procs,
           \/ ClearDone(i) \/ Publish(i) \/ RemoveDownload(i)
           \/ \E n \in Names : ClearFile(i, n)
    PROVE  TypeOK'
<1> USE DEF server, dirs, download, records, chosen, loaded, stream
<1>1. ASSUME NEW n \in Names, ClearFile(i, n)
      PROVE  TypeOK'
  <2>1. at[i] \in Paths
    BY <1>1 DEF ClearFile, TypeOK, PlaceOK, Critical
  <2>2. [pkg[at[i]] EXCEPT ![n] = None] \in Tree
    BY <1>1, <2>1, TreeUpdate DEF ClearFile, TypeOK, DiskOK, Content
  <2>3. pkg' \in [Paths -> Tree \cup {NoTree}]
    BY <1>1, <2>1, <2>2 DEF ClearFile, TypeOK, DiskOK
  <2>4. DiskOK'
    BY <1>1, <2>3 DEF ClearFile, TypeOK, DiskOK
  <2>5. LocalOK' /\ PlaceOK'
    BY <1>1 DEF ClearFile, local, TypeOK, LocalOK, PlaceOK
  <2>6. QED BY <2>4, <2>5 DEF TypeOK
<1>2. CASE ClearDone(i)
  <2>1. DiskOK'
    BY <1>2 DEF ClearDone, TypeOK, DiskOK
  <2>2. Removed(mem[i], at[i]) \in Manifests
    BY DEF Removed, TypeOK, LocalOK, Manifests, Content
  <2>3. mem' \in [Procs -> Manifests]
    BY <1>2, <2>2 DEF ClearDone, TypeOK, LocalOK
  <2>4. LocalOK'
    BY <1>2, <2>3 DEF ClearDone, TypeOK, LocalOK, Goto, Labels, Critical
  <2>5. PlaceOK'
    BY <1>2 DEF ClearDone, TypeOK, LocalOK, PlaceOK, Goto, Critical, Fetching
  <2>6. QED BY <2>1, <2>4, <2>5 DEF TypeOK
<1>3. CASE Publish(i)
  <2>1. DiskOK'
    <3>1. CASE UNCHANGED dirs
      BY <1>3, <3>1 DEF Publish, TypeOK, DiskOK
    <3>2. CASE ~UNCHANGED dirs
      BY <1>3, <3>2 DEF Publish, TypeOK, DiskOK, PlaceOK, Critical
    <3>3. QED BY <3>1, <3>2
  <2>2. CASE Quit(i)
    BY <2>1, <2>2, QuitKeepsTypes DEF TypeOK
  <2>3. CASE ~Quit(i)
    <3>1. LocalOK'
      BY <1>3, <2>3 DEF Publish, TypeOK, LocalOK, Goto, Labels, Critical
    <3>2. PlaceOK'
      BY <1>3, <2>3 DEF Publish, TypeOK, LocalOK, PlaceOK, Goto, Critical, Fetching
    <3>3. QED BY <2>1, <3>1, <3>2 DEF TypeOK
  <2>4. QED BY <2>2, <2>3
<1>4. CASE RemoveDownload(i)
  <2>1. ino' \in [Inodes -> Bytes]
    BY <1>4, ReclaimKeepsTypes DEF RemoveDownload, TypeOK, DiskOK
  <2>2. dlAt' \in [Files -> Inodes \cup {None}]
    BY <1>4 DEF RemoveDownload, TypeOK, DiskOK
  <2>3. DiskOK'
    BY <1>4, <2>1, <2>2 DEF RemoveDownload, TypeOK, DiskOK
  <2>4. LocalOK'
    BY <1>4 DEF RemoveDownload, TypeOK, LocalOK, Goto, Labels, Critical
  <2>5. PlaceOK'
    BY <1>4 DEF RemoveDownload, TypeOK, LocalOK, PlaceOK, Goto, Critical, Fetching
  <2>6. QED BY <2>3, <2>4, <2>5 DEF TypeOK
<1>5. QED BY <1>1, <1>2, <1>3, <1>4

-----------------------------------------------------------------------------
(* Metadata and manifest *)

LEMMA MetadataKeepsTypes ==
    ASSUME TypeOK, NEW i \in Procs, WriteSourceProperties(i) \/ WritePackageXML(i)
    PROVE  TypeOK'
<1> USE DEF server, dirs, download, records, chosen, loaded, stream
<1>1. at[i] \in Paths
  BY DEF WriteSourceProperties, WritePackageXML, TypeOK, PlaceOK, Critical
<1>2. CASE DirectoryGone(i)
  <2>1. DiskOK'
    BY <1>2 DEF DirectoryGone, WriteSourceProperties, WritePackageXML, TypeOK, DiskOK
  <2>2. QED BY <1>2, <2>1, QuitKeepsTypes DEF DirectoryGone, TypeOK
<1>3. CASE WriteSourceProperties(i) /\ ~DirectoryGone(i)
  <2>1. pkg[at[i]] \in Tree
    BY <1>1, <1>3 DEF WriteSourceProperties, TypeOK, DiskOK
  <2>2. WithProperties(pkg[at[i]], want[i]) \in Tree
    BY <2>1, TreeUpdate DEF WithProperties, TypeOK, LocalOK
  <2>3. pkg' \in [Paths -> Tree \cup {NoTree}]
    BY <1>3, <2>2 DEF WriteSourceProperties, TypeOK, DiskOK
  <2>4. DiskOK'
    BY <1>3, <2>3 DEF WriteSourceProperties, TypeOK, DiskOK
  <2>5. LocalOK'
    BY <1>3 DEF WriteSourceProperties, TypeOK, LocalOK, Goto, Labels, Critical
  <2>6. PlaceOK'
    BY <1>3 DEF WriteSourceProperties, TypeOK, LocalOK, PlaceOK, Goto, Critical, Fetching
  <2>7. QED BY <2>4, <2>5, <2>6 DEF TypeOK
<1>4. CASE WritePackageXML(i) /\ ~DirectoryGone(i)
  <2>1. pkg[at[i]] \in Tree
    BY <1>1, <1>4 DEF WritePackageXML, TypeOK, DiskOK
  <2>2. [pkg[at[i]] EXCEPT ![Xml] = want[i]] \in Tree
    BY <2>1, TreeUpdate DEF TypeOK, LocalOK
  <2>3. pkg' \in [Paths -> Tree \cup {NoTree}]
    BY <1>1, <1>4, <2>2 DEF WritePackageXML, TypeOK, DiskOK
  <2>4. DiskOK'
    BY <1>4, <2>3 DEF WritePackageXML, TypeOK, DiskOK
  <2>5. Added(mem[i], at[i], want[i]) \in Manifests
    BY DEF Added, TypeOK, LocalOK, Manifests
  <2>6. mem' \in [Procs -> Manifests]
    BY <1>4, <2>5 DEF WritePackageXML, TypeOK, LocalOK
  <2>7. LocalOK'
    BY <1>4, <2>6 DEF WritePackageXML, TypeOK, LocalOK, Goto, Labels, Critical
  <2>8. PlaceOK'
    BY <1>4 DEF WritePackageXML, TypeOK, LocalOK, PlaceOK, Goto, Critical, Fetching
  <2>9. QED BY <2>4, <2>7, <2>8 DEF TypeOK
<1>5. QED BY <1>2, <1>3, <1>4

LEMMA SaveKeepsTypes ==
    ASSUME TypeOK, NEW i \in Procs, SaveOpen(i) \/ SaveWrite(i) \/ SaveRename(i)
    PROVE  TypeOK'
<1> USE DEF server, dirs, download, records, chosen, loaded, stream
<1>1. CASE SaveOpen(i)
  <2>1. DiskOK'
    BY <1>1 DEF SaveOpen, TypeOK, DiskOK
  <2>2. LocalOK'
    BY <1>1 DEF SaveOpen, TypeOK, LocalOK, Goto, Labels, Critical
  <2>3. PlaceOK'
    BY <1>1 DEF SaveOpen, TypeOK, LocalOK, PlaceOK, Goto, Critical, Fetching
  <2>4. QED BY <2>1, <2>2, <2>3 DEF TypeOK
<1>2. CASE SaveWrite(i)
  <2>1. \A old : Overwrite(old, mem[i]) \subseteq Manifests \cup {Torn}
    BY DEF Overwrite, TypeOK, LocalOK
  <2>2. DiskOK'
    BY <1>2, <2>1 DEF SaveWrite, TypeOK, DiskOK
  <2>3. LocalOK'
    BY <1>2 DEF SaveWrite, TypeOK, LocalOK, Goto, Labels, Critical
  <2>4. PlaceOK'
    BY <1>2 DEF SaveWrite, TypeOK, LocalOK, PlaceOK, Goto, Critical, Fetching
  <2>5. QED BY <2>2, <2>3, <2>4 DEF TypeOK
<1>3. CASE SaveRename(i)
  <2>1. DiskOK'
    BY <1>3 DEF SaveRename, TypeOK, DiskOK
  <2>2. CASE Quit(i)
    BY <2>1, <2>2, QuitKeepsTypes DEF TypeOK
  <2>3. CASE ~Quit(i)
    <3>1. mfd' \in [Procs -> {"closed", "tmp", "live", "gone"}]
      BY <1>3, <2>3 DEF SaveRename, Renamed, TypeOK, LocalOK
    <3>2. LocalOK'
      BY <1>3, <2>3, <3>1 DEF SaveRename, TypeOK, LocalOK, Goto, Labels, Content
    <3>3. PlaceOK'
      BY <1>3, <2>3 DEF SaveRename, TypeOK, LocalOK, PlaceOK, Goto, Critical, Fetching
    <3>4. QED BY <2>1, <3>2, <3>3 DEF TypeOK
  <2>4. QED BY <2>2, <2>3
<1>4. QED BY <1>1, <1>2, <1>3

-----------------------------------------------------------------------------
(* The environment, and the theorem *)

LEMMA OutsideKeepsTypes ==
    ASSUME TypeOK, NEW i \in Procs, Crash(i) \/ Command(i)
    PROVE  TypeOK'
<1> USE DEF server, disk, dirs, download, records, local, chosen, loaded, stream
<1>2. CASE Crash(i)
  <2>1. ino' \in [Inodes -> Bytes]
    BY <1>2, ReclaimKeepsTypes DEF Crash, TypeOK, DiskOK
  <2>2. DiskOK'
    BY <1>2, <2>1 DEF Crash, TypeOK, DiskOK
  <2>3. QED BY <1>2, <2>2, QuitKeepsTypes DEF Crash, TypeOK
<1>3. CASE AcceptLicenses(i)
  BY <1>3 DEF AcceptLicenses, TypeOK, DiskOK, LocalOK, PlaceOK
<1>4. ASSUME NEW op \in Ops, NEW S \in SUBSET MayName[i], NEW flags \in SUBSET Flags,
             Start(i, op, S, flags)
      PROVE  TypeOK'
  <2>1. [op |-> op, todo |-> S, flags |-> flags] \in Jobs
    BY CliAssumption DEF Jobs
  <2>2. job' \in [Procs -> Jobs]
    BY <1>4, <2>1 DEF Start, TypeOK, LocalOK
  <2>3. DiskOK'
    BY <1>4 DEF Start, TypeOK, DiskOK
  <2>4. LocalOK'
    BY <1>4, <2>2 DEF Start, TypeOK, LocalOK, Goto, Labels
  <2>5. PlaceOK'
    BY <1>4 DEF Start, TypeOK, LocalOK, PlaceOK, Goto, Critical, Fetching
  <2>6. QED BY <2>3, <2>4, <2>5 DEF TypeOK
<1>5. QED BY <1>2, <1>3, <1>4 DEF Command

LEMMA InitHasTypes == Init => TypeOK
<1> SUFFICES ASSUME Init PROVE TypeOK
  OBVIOUS
<1>1. DiskOK
  BY DEF Init, DiskOK, Blank, Bytes, Content, Manifests, NoEntries
<1>2. LocalOK
  BY DEF Init, LocalOK, Labels, Jobs, NoJob, Content, Manifests, NoEntries
<1>3. PlaceOK
  BY DEF Init, PlaceOK, Critical, Fetching
<1>4. QED BY <1>1, <1>2, <1>3 DEF TypeOK

LEMMA NextKeepsTypes == TypeOK /\ [Next]_vars => TypeOK'
<1> SUFFICES ASSUME TypeOK, [Next]_vars PROVE TypeOK'
  OBVIOUS
<1>1. ASSUME NEW i \in Procs, Step(i)
      PROVE  TypeOK'
  BY <1>1, MemoryStepsKeepTypes, DownloadKeepsTypes, ExtractKeepsTypes,
     ReplaceKeepsTypes, MetadataKeepsTypes, SaveKeepsTypes DEF Step
<1>2. ASSUME NEW i \in Procs, Crash(i) \/ Command(i)
      PROVE  TypeOK'
  BY <1>2, OutsideKeepsTypes
<1>3. CASE Server
  BY <1>3 DEF Server, Upload, Regenerate, TypeOK, DiskOK, LocalOK, PlaceOK,
              disk, dirs, download, records, local, chosen, loaded, stream
<1>4. CASE UNCHANGED vars
  BY <1>4 DEF vars, server, disk, dirs, download, records, local, chosen, loaded, stream,
              TypeOK, DiskOK, LocalOK, PlaceOK
<1>5. QED BY <1>1, <1>2, <1>3, <1>4 DEF Next

\* The type invariant holds in every reachable state, for any set of processes,
\* packages and builds: in particular the manifest file is a whole document, an
\* empty file or a torn one and nothing else, no download is tried a fourth
\* time, and a process that changes a package knows its path.
THEOREM TypeCorrect == Spec => []TypeOK
<1>1. Init => TypeOK
  BY InitHasTypes
<1>2. TypeOK /\ [Next]_vars => TypeOK'
  BY NextKeepsTypes
<1>3. QED BY <1>1, <1>2, PTL DEF Spec

-----------------------------------------------------------------------------
(* Steps of one process and the memory of the others *)

\* What a process knows is as it was.
Same(j) ==
    /\ pc'[j] = pc[j] /\ job'[j] = job[j] /\ mem'[j] = mem[j] /\ cat'[j] = cat[j]
    /\ at'[j] = at[j] /\ want'[j] = want[j] /\ src'[j] = src[j]
    /\ fd'[j] = fd[j] /\ left'[j] = left[j]

\* What a process that ended knows.
Ended(i) ==
    /\ pc'[i] = "idle" /\ job'[i] = NoJob /\ mem'[i] = NoEntries /\ cat'[i] = {}
    /\ at'[i] = None /\ want'[i] = None /\ src'[i] = None
    /\ fd'[i] = None /\ left'[i] = {} /\ mfd'[i] = "closed"

LEMMA QuitIsLocal ==
    ASSUME TypeOK, NEW i \in Procs, Quit(i)
    PROVE  Ended(i) /\ \A j \in Procs \ {i} : Same(j)
BY DEF TypeOK, LocalOK, Quit, Goto, Ended, Same

LEMMA OthersStay ==
    ASSUME TypeOK, NEW i \in Procs, Step(i) \/ Crash(i) \/ Command(i), NEW j \in Procs \ {i}
    PROVE  Same(j)
<1> USE DEF server, disk, dirs, download, records, local, chosen, loaded, stream, Goto
<1>1. CASE Quit(i)
  BY <1>1, QuitIsLocal
<1>2. CASE ~Quit(i) /\ (LoadManifest(i) \/ FetchCatalog(i) \/ Scan(i) \/ LicenseGate(i) \/ Finish(i))
  BY <1>2 DEF LoadManifest, FetchCatalog, Scan, LicenseGate, Finish, Same, TypeOK, LocalOK
<1>3. CASE ~Quit(i) /\ \E p \in Paths : PickInstall(i, p) \/ PickUninstall(i, p)
  BY <1>3 DEF PickInstall, PickUninstall, Same, TypeOK, LocalOK
<1>4. CASE ~Quit(i) /\ (Connect(i) \/ WriteFirstHalf(i))
  BY <1>4 DEF Connect, WriteFirstHalf, Same, TypeOK, LocalOK
<1>5. CASE ~Quit(i) /\ (WriteSecondHalf(i) \/ NetworkError(i))
  BY <1>5 DEF WriteSecondHalf, NetworkError, Retry, Same, TypeOK, LocalOK
<1>6. CASE ~Quit(i) /\ (OpenArchive(i) \/ UnpackEOF(i) \/ UnpackError(i) \/ \E n \in Names : Unpack(i, n))
  BY <1>6 DEF OpenArchive, UnpackEOF, UnpackError, Unpack, DropStage, Same, TypeOK, LocalOK
<1>7. CASE ~Quit(i) /\ (ClearDone(i) \/ Publish(i) \/ RemoveDownload(i) \/ \E n \in Names : ClearFile(i, n))
  BY <1>7 DEF ClearDone, Publish, RemoveDownload, ClearFile, Same, TypeOK, LocalOK
<1>8. CASE ~Quit(i) /\ (WriteSourceProperties(i) \/ WritePackageXML(i))
  BY <1>8 DEF WriteSourceProperties, WritePackageXML, DirectoryGone, Same, TypeOK, LocalOK
<1>9. CASE ~Quit(i) /\ (SaveOpen(i) \/ SaveWrite(i) \/ SaveRename(i))
  BY <1>9 DEF SaveOpen, SaveWrite, SaveRename, Same, TypeOK, LocalOK
<1>10. CASE ~Quit(i) /\ (Crash(i) \/ Command(i))
  BY <1>10 DEF Crash, Command, AcceptLicenses, Start, Same, TypeOK, LocalOK
<1>11. QED BY <1>1, <1>2, <1>3, <1>4, <1>5, <1>6, <1>7, <1>8, <1>9, <1>10 DEF Step

-----------------------------------------------------------------------------
(* The license gate *)

LEMMA LicenseKept ==
    ASSUME TypeOK, [Next]_vars
    PROVE  licensed => licensed'
<1> USE DEF server, disk, dirs, download, records, local, chosen, loaded, stream
<1>1. CASE Server \/ UNCHANGED vars
  BY <1>1 DEF Server, Upload, Regenerate, vars
<1>2. ASSUME NEW i \in Procs, Step(i) PROVE licensed' = licensed
  BY <1>2 DEF Step, LoadManifest, FetchCatalog, Scan, LicenseGate, Finish, PickInstall, PickUninstall,
     Connect, WriteFirstHalf, WriteSecondHalf, NetworkError, Retry, OpenArchive, UnpackEOF,
     UnpackError, DropStage, Unpack, ClearFile, ClearDone, Publish, RemoveDownload,
     WriteSourceProperties, WritePackageXML, SaveOpen, SaveWrite, SaveRename
<1>3. ASSUME NEW i \in Procs, Crash(i) \/ Command(i) PROVE licensed => licensed'
  BY <1>3 DEF Crash, Command, AcceptLicenses, Start
<1>4. QED BY <1>1, <1>2, <1>3 DEF Next

\* Before the gate a process has no way past it, and behind it keeps its command line.
Gated == {"idle", "load", "fetch", "scan", "gate"}

LEMMA CommandLineKept ==
    ASSUME TypeOK, NEW i \in Procs, Step(i) \/ Crash(i) \/ Command(i), pc'[i] \notin Gated
    PROVE  /\ job'[i].op = job[i].op /\ job'[i].flags = job[i].flags
           /\ pc[i] \in Gated => job[i].op = "uninstall" \/ MayInstall(i)
<1> USE DEF server, disk, dirs, download, records, local, chosen, loaded, stream, Goto
<1>0. pc \in [Procs -> Labels] /\ job \in [Procs -> Jobs]
  BY DEF TypeOK, LocalOK
<1>1. ~Quit(i)
  BY QuitIsLocal DEF Ended, Gated
<1>2. CASE LoadManifest(i) \/ FetchCatalog(i) \/ Scan(i) \/ LicenseGate(i) \/ Finish(i)
  BY <1>0, <1>1, <1>2 DEF LoadManifest, FetchCatalog, Scan, LicenseGate, Finish, Gated, Jobs
<1>3. CASE \E p \in Paths : PickInstall(i, p) \/ PickUninstall(i, p)
  BY <1>0, <1>1, <1>3 DEF PickInstall, PickUninstall, Gated, Jobs
<1>4. CASE Connect(i) \/ WriteFirstHalf(i) \/ WriteSecondHalf(i) \/ NetworkError(i)
  BY <1>0, <1>1, <1>4 DEF Connect, WriteFirstHalf, WriteSecondHalf, NetworkError, Retry, Gated
<1>5. CASE OpenArchive(i) \/ UnpackEOF(i) \/ UnpackError(i) \/ \E n \in Names : Unpack(i, n) \/ ClearFile(i, n)
  BY <1>0, <1>1, <1>5 DEF OpenArchive, UnpackEOF, UnpackError, DropStage, Unpack, ClearFile, Gated
<1>6. CASE ClearDone(i) \/ Publish(i) \/ RemoveDownload(i) \/ WriteSourceProperties(i) \/ WritePackageXML(i)
  BY <1>0, <1>1, <1>6 DEF ClearDone, Publish, RemoveDownload, WriteSourceProperties, WritePackageXML,
                          DirectoryGone, Gated
<1>7. CASE SaveOpen(i) \/ SaveWrite(i) \/ SaveRename(i)
  BY <1>0, <1>1, <1>7 DEF SaveOpen, SaveWrite, SaveRename, Gated
<1>8. CASE Crash(i) \/ Command(i)
  BY <1>0, <1>1, <1>8 DEF Crash, Command, AcceptLicenses, Start, Gated
<1>9. QED BY <1>2, <1>3, <1>4, <1>5, <1>6, <1>7, <1>8 DEF Step

LEMMA LicenseStep == TypeOK /\ LicensedInstalls /\ [Next]_vars => LicensedInstalls'
<1> SUFFICES ASSUME TypeOK, LicensedInstalls, [Next]_vars, NEW k \in Procs,
                    job'[k].op # "uninstall", "licenses-accepted" \notin job'[k].flags,
                    pc'[k] \notin Gated
             PROVE  licensed'
  BY DEF LicensedInstalls, Gated
<1>1. ASSUME Same(k) PROVE licensed'
  BY <1>1, LicenseKept DEF Same, LicensedInstalls, Gated
<1>2. ASSUME NEW i \in Procs, Step(i) \/ Crash(i) \/ Command(i) PROVE licensed'
  <2>1. CASE k # i
    BY <1>1, <1>2, <2>1, OthersStay
  <2>2. CASE k = i
    BY <1>2, <2>2, LicenseKept, CommandLineKept DEF LicensedInstalls, MayInstall, Gated
  <2>3. QED BY <2>1, <2>2
<1>3. CASE Server \/ UNCHANGED vars
  BY <1>1, <1>3 DEF Server, Upload, Regenerate, vars, Same,
     server, disk, dirs, download, records, local, chosen, loaded, stream
<1>4. QED BY <1>2, <1>3 DEF Next

\* A command that goes past the license check without --licenses-accepted runs on
\* an SDK root whose license was accepted, whatever other processes do meanwhile:
\* the check of LicenseGate cannot be got around by update, which enters
\* cmdInstall from its own loop.
THEOREM Licensed == Spec => []LicensedInstalls
<1>1. Init => LicensedInstalls
  BY DEF Init, LicensedInstalls
<1>2. TypeOK /\ LicensedInstalls /\ [Next]_vars => LicensedInstalls'
  BY LicenseStep
<1>3. QED BY <1>1, <1>2, TypeCorrect, PTL DEF Spec

-----------------------------------------------------------------------------
(* Who works on which package *)

\* What is known of the commands when no two processes can name one package:
\* update, which takes its packages from the manifest, is then one process's.
Apart ==
    \A i, j \in Procs : i # j => MayName[i] \cap MayName[j] = {} /\ "update" \notin Ops

Working(i)  == pc[i] \in Critical \cup Fetching
Installs(i) == job[i].op # "uninstall"

\* A process at work has a package of its command line, and a build of it to
\* install unless it uninstalls; one that is not at work has none.
JobInv(i) ==
    /\ ~Working(i) => at[i] = None
    /\ Working(i) /\ Installs(i) => want[i] \in Builds /\ PathOf[want[i]] = at[i]
    /\ pc[i] \in Fetching \cup {"publish", "rmdl", "props", "xml"} => Installs(i)
    /\ pc[i] = "scan" => job[i].op = "update"
    /\ job[i].op = "update" => "update" \in Ops
    /\ job[i].op # "update" => job[i].todo \subseteq MayName[i] /\ at[i] \in MayName[i] \cup {None}

JobsInv == \A i \in Procs : JobInv(i)

LEMMA SameJob == ASSUME NEW j \in Procs, JobInv(j), Same(j) PROVE JobInv(j)'
BY DEF JobInv, Same, Working, Installs

LEMMA EndedJob == ASSUME NEW i \in Procs, Ended(i) PROVE JobInv(i)'
BY DEF JobInv, Ended, Working, Installs, NoJob, Critical, Fetching

LEMMA JobStep ==
    ASSUME TypeOK, NEW i \in Procs, Step(i) \/ Crash(i) \/ Command(i), JobInv(i)
    PROVE  JobInv(i)'
<1> USE DEF server, disk, dirs, download, records, local, chosen, loaded, stream, Goto
<1>0. /\ pc \in [Procs -> Labels] /\ job \in [Procs -> Jobs] /\ at \in [Procs -> Paths \cup {None}]
      /\ want \in [Procs -> Content]
      /\ Working(i) => at[i] \in Paths
  BY DEF TypeOK, LocalOK, PlaceOK, Working
<1> USE <1>0 DEF Installs
<1>1. CASE Quit(i)
  BY <1>1, QuitIsLocal, EndedJob
<1>2. CASE ~Quit(i) /\ (LoadManifest(i) \/ FetchCatalog(i) \/ LicenseGate(i) \/ Finish(i))
  BY <1>2 DEF LoadManifest, FetchCatalog, LicenseGate, Finish, JobInv, Working, Critical, Fetching
<1>3. CASE ~Quit(i) /\ Scan(i)
  <2>1. pc[i] = "scan" /\ pc'[i] = "load" /\ at'[i] = at[i] /\ job'[i].op = job[i].op
    BY <1>3 DEF Scan, Jobs
  <2>2. QED BY <2>1 DEF JobInv, Working, Critical, Fetching
<1>4. ASSUME NEW p \in Paths, PickInstall(i, p), ~Quit(i) PROVE JobInv(i)'
  <2>1. PICK b \in EntriesFor(cat[i], p) :
          /\ job' = [job EXCEPT ![i].todo = @ \ {p}]
          /\ \/ UNCHANGED <<pc, chosen>>
             \/ /\ at' = [at EXCEPT ![i] = p] /\ want' = [want EXCEPT ![i] = b]
                /\ Goto(i, "get")
    BY <1>4 DEF PickInstall
  <2>2. job'[i].op = job[i].op /\ job'[i].todo \subseteq job[i].todo /\ p \in job[i].todo
        /\ pc[i] = "next" /\ job[i].op # "uninstall"
    BY <1>4, <2>1 DEF PickInstall, Jobs
  <2>3. b \in Builds /\ PathOf[b] = p
    BY PackagesAssumption DEF EntriesFor
  <2>4. QED BY <2>1, <2>2, <2>3 DEF JobInv, Working, Critical, Fetching
<1>5. ASSUME NEW p \in Paths, PickUninstall(i, p) PROVE JobInv(i)'
  <2>1. /\ job'[i].op = "uninstall" /\ job'[i].todo \subseteq job[i].todo /\ p \in job[i].todo
        /\ pc[i] = "next" /\ job[i].op = "uninstall"
    BY <1>5 DEF PickUninstall, Jobs
  <2>2. QED BY <1>5, <2>1 DEF PickUninstall, JobInv, Working, Critical, Fetching
<1>6. CASE ~Quit(i) /\ (Connect(i) \/ WriteFirstHalf(i))
  BY <1>6 DEF Connect, WriteFirstHalf, JobInv, Working, Critical, Fetching
<1>7. CASE ~Quit(i) /\ (WriteSecondHalf(i) \/ NetworkError(i))
  BY <1>7 DEF WriteSecondHalf, NetworkError, Retry, JobInv, Working, Critical, Fetching
<1>8. CASE ~Quit(i) /\ (OpenArchive(i) \/ UnpackEOF(i) \/ UnpackError(i) \/ \E n \in Names : Unpack(i, n) \/ ClearFile(i, n))
  BY <1>8 DEF OpenArchive, UnpackEOF, UnpackError, DropStage, Unpack, ClearFile, JobInv, Working, Critical, Fetching
<1>9. CASE ~Quit(i) /\ (ClearDone(i) \/ Publish(i) \/ RemoveDownload(i))
  BY <1>9 DEF ClearDone, Publish, RemoveDownload, JobInv, Working, Critical, Fetching
<1>10. CASE ~Quit(i) /\ (WriteSourceProperties(i) \/ WritePackageXML(i))
  BY <1>10 DEF WriteSourceProperties, WritePackageXML, DirectoryGone, JobInv, Working, Critical, Fetching
<1>11. CASE ~Quit(i) /\ (SaveOpen(i) \/ SaveWrite(i) \/ SaveRename(i))
  BY <1>11 DEF SaveOpen, SaveWrite, SaveRename, JobInv, Working, Critical, Fetching
<1>12. CASE ~Quit(i) /\ Crash(i)
  BY <1>12 DEF Crash
<1>13. CASE AcceptLicenses(i)
  BY <1>13 DEF AcceptLicenses, JobInv, Working
<1>14. ASSUME NEW op \in Ops, NEW S \in SUBSET MayName[i], NEW flags \in SUBSET Flags,
              Start(i, op, S, flags)
       PROVE  JobInv(i)'
  <2>1. pc[i] = "idle" /\ pc'[i] = "load" /\ at' = at /\ job'[i] = [op |-> op, todo |-> S, flags |-> flags]
    BY <1>14 DEF Start
  <2>2. QED BY <2>1 DEF JobInv, Working, Critical, Fetching
<1>15. QED BY <1>1, <1>2, <1>3, <1>4, <1>5, <1>6, <1>7, <1>8, <1>9, <1>10, <1>11, <1>12, <1>13, <1>14 DEF Step, Command

LEMMA InitJobs == Init => JobsInv
BY DEF Init, JobsInv, JobInv, Working, Installs, NoJob, Critical, Fetching

LEMMA JobsStep == TypeOK /\ JobsInv /\ [Next]_vars => JobsInv'
<1> SUFFICES ASSUME TypeOK, JobsInv, [Next]_vars, NEW j \in Procs PROVE JobInv(j)'
  BY DEF JobsInv
<1>1. ASSUME NEW i \in Procs, Step(i) \/ Crash(i) \/ Command(i) PROVE JobInv(j)'
  BY <1>1, JobStep, OthersStay, SameJob DEF JobsInv
<1>2. CASE Server \/ UNCHANGED vars
  <2>1. Same(j)
    BY <1>2 DEF Server, Upload, Regenerate, vars, Same,
       server, disk, dirs, download, records, local, chosen, loaded, stream
  <2>2. QED BY <2>1, SameJob DEF JobsInv
<1>3. QED BY <1>1, <1>2 DEF Next

\* Two processes at work are at work on two packages.
LEMMA ApartAt ==
    ASSUME TypeOK, Apart, JobsInv, NEW i \in Procs, NEW j \in Procs, i # j, Working(i), at[i] = at[j]
    PROVE  FALSE
<1>1. JobInv(i) /\ JobInv(j)
  BY DEF JobsInv
<1>2. at[i] \in Paths /\ at[i] # None
  BY CliAssumption DEF TypeOK, PlaceOK, Working
<1>3. "update" \notin Ops /\ MayName[i] \cap MayName[j] = {}
  BY DEF Apart
<1>4. QED BY <1>1, <1>2, <1>3 DEF JobInv

-----------------------------------------------------------------------------
(* What a step leaves of the shared files *)

\* A process changes the directories of the package it works on and no other.
LEMMA OtherDirectories ==
    ASSUME TypeOK, NEW i \in Procs, Step(i) \/ Crash(i) \/ Command(i),
           NEW p \in Paths, p # at[i]
    PROVE  pkg'[p] = pkg[p] /\ stage'[p] = stage[p]
<1> USE DEF server, disk, dirs, download, records, local, chosen, loaded, stream, Goto
<1>0. pkg \in [Paths -> Tree \cup {NoTree}] /\ stage \in [Paths -> Tree \cup {NoTree}]
  BY DEF TypeOK, DiskOK
<1> USE <1>0
<1>1. CASE LoadManifest(i) \/ FetchCatalog(i) \/ Scan(i) \/ LicenseGate(i) \/ Finish(i)
  BY <1>1 DEF LoadManifest, FetchCatalog, Scan, LicenseGate, Finish
<1>2. CASE \E q \in Paths : PickInstall(i, q) \/ PickUninstall(i, q)
  BY <1>2 DEF PickInstall, PickUninstall
<1>3. CASE Connect(i) \/ WriteFirstHalf(i) \/ WriteSecondHalf(i) \/ NetworkError(i)
  BY <1>3 DEF Connect, WriteFirstHalf, WriteSecondHalf, NetworkError, Retry
<1>4. CASE OpenArchive(i) \/ UnpackEOF(i) \/ UnpackError(i) \/ \E n \in Names : Unpack(i, n) \/ ClearFile(i, n)
  BY <1>4 DEF OpenArchive, UnpackEOF, UnpackError, DropStage, Unpack, ClearFile
<1>5. CASE ClearDone(i) \/ Publish(i) \/ RemoveDownload(i)
  BY <1>5 DEF ClearDone, Publish, RemoveDownload
<1>6. CASE WriteSourceProperties(i) \/ WritePackageXML(i)
  BY <1>6 DEF WriteSourceProperties, WritePackageXML, DirectoryGone
<1>7. CASE SaveOpen(i) \/ SaveWrite(i) \/ SaveRename(i)
  BY <1>7 DEF SaveOpen, SaveWrite, SaveRename
<1>8. CASE Crash(i) \/ Command(i)
  BY <1>8 DEF Crash, Command, AcceptLicenses, Start
<1>9. QED BY <1>1, <1>2, <1>3, <1>4, <1>5, <1>6, <1>7, <1>8 DEF Step

\* It gives and takes away the name of its own download and no other.
LEMMA OtherDownloads ==
    ASSUME TypeOK, NEW i \in Procs, Step(i) \/ Crash(i) \/ Command(i),
           JobInv(i), NEW f \in Files, ~(Working(i) /\ Installs(i) /\ f = File(i))
    PROVE  dlAt'[f] = dlAt[f]
<1> USE DEF server, disk, dirs, download, records, local, chosen, loaded, stream, Working, Fetching, Critical, JobInv
<1>0. dlAt \in [Files -> Inodes \cup {None}]
  BY DEF TypeOK, DiskOK
<1> USE <1>0
<1>1. CASE LoadManifest(i) \/ FetchCatalog(i) \/ Scan(i) \/ LicenseGate(i) \/ Finish(i)
  BY <1>1 DEF LoadManifest, FetchCatalog, Scan, LicenseGate, Finish
<1>2. CASE \E q \in Paths : PickInstall(i, q) \/ PickUninstall(i, q)
  BY <1>2 DEF PickInstall, PickUninstall
<1>3. CASE Connect(i) \/ WriteFirstHalf(i) \/ WriteSecondHalf(i) \/ NetworkError(i)
  BY <1>3 DEF Connect, WriteFirstHalf, WriteSecondHalf, NetworkError, Retry
<1>4. CASE OpenArchive(i) \/ UnpackEOF(i) \/ UnpackError(i) \/ \E n \in Names : Unpack(i, n) \/ ClearFile(i, n)
  BY <1>4 DEF OpenArchive, UnpackEOF, UnpackError, DropStage, Unpack, ClearFile
<1>5. CASE ClearDone(i) \/ Publish(i) \/ RemoveDownload(i)
  BY <1>5 DEF ClearDone, Publish, RemoveDownload
<1>6. CASE WriteSourceProperties(i) \/ WritePackageXML(i)
  BY <1>6 DEF WriteSourceProperties, WritePackageXML, DirectoryGone
<1>7. CASE SaveOpen(i) \/ SaveWrite(i) \/ SaveRename(i)
  BY <1>7 DEF SaveOpen, SaveWrite, SaveRename
<1>8. CASE Crash(i) \/ Command(i)
  BY <1>8 DEF Crash, Command, AcceptLicenses, Start
<1>9. QED BY <1>1, <1>2, <1>3, <1>4, <1>5, <1>6, <1>7, <1>8 DEF Step

\* It writes the file it has open and no other; a file that is open, or about
\* to be unpacked, is not reclaimed.
LEMMA OtherBytes ==
    ASSUME TypeOK, NEW i \in Procs, Step(i) \/ Crash(i) \/ Command(i),
           NEW k \in Inodes, k \in Live', k # fd[i], k # fd'[i] \/ pc[i] # "get"
    PROVE  ino'[k] = ino[k]
<1> USE DEF server, disk, dirs, download, records, local, chosen, loaded, stream
<1>0. ino \in [Inodes -> Bytes]  /\ fd \in [Procs -> Inodes \cup {None}]
  BY DEF TypeOK, DiskOK, LocalOK
<1> USE <1>0
<1>1. CASE LoadManifest(i) \/ FetchCatalog(i) \/ Scan(i) \/ LicenseGate(i) \/ Finish(i)
  BY <1>1 DEF LoadManifest, FetchCatalog, Scan, LicenseGate, Finish
<1>2. CASE \E q \in Paths : PickInstall(i, q) \/ PickUninstall(i, q)
  BY <1>2 DEF PickInstall, PickUninstall
<1>3. CASE Connect(i) \/ WriteFirstHalf(i) \/ WriteSecondHalf(i) \/ NetworkError(i)
  BY <1>3 DEF Connect, WriteFirstHalf, WriteSecondHalf, NetworkError, Retry, Reclaim
<1>4. CASE OpenArchive(i) \/ UnpackEOF(i) \/ UnpackError(i) \/ \E n \in Names : Unpack(i, n) \/ ClearFile(i, n)
  BY <1>4 DEF OpenArchive, UnpackEOF, UnpackError, DropStage, Unpack, ClearFile, Reclaim
<1>5. CASE ClearDone(i) \/ Publish(i) \/ RemoveDownload(i)
  BY <1>5 DEF ClearDone, Publish, RemoveDownload, Reclaim
<1>6. CASE WriteSourceProperties(i) \/ WritePackageXML(i)
  BY <1>6 DEF WriteSourceProperties, WritePackageXML, DirectoryGone
<1>7. CASE SaveOpen(i) \/ SaveWrite(i) \/ SaveRename(i)
  BY <1>7 DEF SaveOpen, SaveWrite, SaveRename
<1>8. CASE Crash(i) \/ Command(i)
  BY <1>8 DEF Crash, Command, AcceptLicenses, Start, Reclaim
<1>9. QED BY <1>1, <1>2, <1>3, <1>4, <1>5, <1>6, <1>7, <1>8 DEF Step

-----------------------------------------------------------------------------
(* The downloads *)

\* A process has the file of its download open while it writes or unpacks it,
\* and what it is about to unpack are the bytes the catalog entry vouches for.
DownloadInv(i) ==
    /\ fd[i] # None <=> pc[i] \in {"half1", "half2", "unpack"}
    /\ fd[i] # None => fd[i] = dlAt[File(i)]
    /\ pc[i] = "half2" => ino[fd[i]][1] = src[i]
    /\ pc[i] = "open" => dlAt[File(i)] # None
    /\ pc[i] \in {"open", "unpack"} => \A h \in 1..2 : ino[dlAt[File(i)]][h] = want[i]

\* Two names never lead to one inode.
OneInode == \A f, g \in Files : dlAt[f] = dlAt[g] /\ dlAt[f] # None => f = g

DownloadsInv == OneInode /\ \A i \in Procs : DownloadInv(i)

LEMMA FileType ==
    ASSUME TypeOK, NEW i \in Procs, want[i] \in Builds
    PROVE  File(i) \in Files /\ File(i)[1] = PathOf[want[i]]
BY PackagesAssumption DEF File, Files

\* The file a process connects to is its own, or has neither a name nor a reader.
LEMMA ConnectsFresh ==
    ASSUME TypeOK, NEW i \in Procs, Step(i) \/ Crash(i) \/ Command(i), pc[i] = "get"
    PROVE  \/ fd'[i] = None
           \/ fd'[i] = dlAt[File(i)] \/ fd'[i] \notin InUse
<1> USE DEF Goto
<1>0. fd \in [Procs -> Inodes \cup {None}] /\ pc \in [Procs -> Labels]
  BY DEF TypeOK, LocalOK
<1>1. CASE Quit(i)
  BY <1>1, QuitIsLocal DEF Ended
<1>2. CASE Connect(i)
  BY <1>0, <1>2 DEF Connect
<1>3. CASE NetworkError(i) /\ ~Quit(i)
  BY <1>0, <1>3 DEF NetworkError, Retry
<1>4. Step(i) => Connect(i) \/ NetworkError(i)
  BY DEF Step, LoadManifest, FetchCatalog, Scan, LicenseGate, Finish, PickInstall, PickUninstall,
     WriteFirstHalf, WriteSecondHalf, OpenArchive, UnpackEOF, UnpackError, Unpack, ClearFile,
     ClearDone, Publish, RemoveDownload, WriteSourceProperties, WritePackageXML,
     SaveOpen, SaveWrite, SaveRename
<1>5. Crash(i) \/ Command(i) => Quit(i)
  BY DEF Crash, Command, AcceptLicenses, Start
<1>6. QED BY <1>1, <1>2, <1>3, <1>4, <1>5

\* What one process downloads or unpacks is out of reach of the others.
LEMMA DownloadOfOther ==
    ASSUME TypeOK, Apart, JobsInv, DownloadsInv, NEW i \in Procs, Step(i) \/ Crash(i) \/ Command(i),
           NEW j \in Procs, i # j, pc[j] \in {"half1", "half2", "open", "unpack"}
    PROVE  /\ File(j)' = File(j) /\ dlAt'[File(j)] = dlAt[File(j)]
           /\ ino'[dlAt[File(j)]] = ino[dlAt[File(j)]]
<1>1. Same(j)
  BY OthersStay
<1>2. File(j)' = File(j)
  BY <1>1 DEF File, Same
<1>3. Working(j) /\ Installs(j) /\ JobInv(i) /\ JobInv(j)
  BY DEF JobsInv, JobInv, Working, Fetching
<1>4. want[j] \in Builds /\ File(j) \in Files /\ File(j)[1] = at[j]
  BY <1>3, FileType DEF JobInv
<1>5. ~(Working(i) /\ Installs(i) /\ File(j) = File(i))
  <2> SUFFICES ASSUME Working(i), Installs(i), File(j) = File(i) PROVE FALSE
    OBVIOUS
  <2>1. File(i)[1] = at[i]
    BY <1>3, FileType DEF JobInv
  <2>2. QED BY <1>4, <2>1, ApartAt
<1>6. dlAt'[File(j)] = dlAt[File(j)]
  BY <1>3, <1>4, <1>5, OtherDownloads
<1> DEFINE k == dlAt[File(j)]
<1>7. k \in Inodes /\ k \in InUse
  BY <1>4 DEF DownloadsInv, DownloadInv, TypeOK, DiskOK, InUse
<1>8. k \in Live'
  BY <1>1, <1>2, <1>6 DEF Live, Same, DownloadsInv, DownloadInv
<1>9. k # dlAt[File(i)] \/ ~(Working(i) /\ Installs(i))
  <2> SUFFICES ASSUME k = dlAt[File(i)], Working(i), Installs(i) PROVE FALSE
    OBVIOUS
  <2>1. File(i) \in Files
    BY <1>3, FileType DEF JobInv
  <2>2. k # None
    BY <1>7, CliAssumption
  <2>3. QED BY <1>4, <1>5, <2>1, <2>2 DEF DownloadsInv, OneInode
<1>10. k # fd[i]
  <2>1. k # None
    BY <1>7, CliAssumption
  <2>2. fd[i] # None => fd[i] = dlAt[File(i)] /\ Working(i) /\ Installs(i)
    BY <1>3 DEF DownloadsInv, DownloadInv, JobInv, Working, Fetching
  <2>3. QED BY <1>9, <2>1, <2>2
<1>11. pc[i] = "get" => k # fd'[i]
  <2> SUFFICES ASSUME pc[i] = "get" PROVE k # fd'[i]
    OBVIOUS
  <2>1. Working(i) /\ Installs(i)
    BY <1>3 DEF JobInv, Working, Fetching
  <2>2. k # None
    BY <1>7, CliAssumption
  <2>3. QED BY <1>7, <1>9, <2>1, <2>2, ConnectsFresh
<1>12. QED BY <1>2, <1>6, <1>7, <1>8, <1>10, <1>11, OtherBytes

LEMMA DownloadOfOtherKept ==
    ASSUME TypeOK, Apart, JobsInv, DownloadsInv, NEW i \in Procs, Step(i) \/ Crash(i) \/ Command(i),
           NEW j \in Procs, i # j
    PROVE  DownloadInv(j)'
<1>1. Same(j) /\ DownloadInv(j)
  BY OthersStay DEF DownloadsInv
<1>2. CASE pc[j] \in {"half1", "half2", "open", "unpack"}
  BY <1>1, <1>2, DownloadOfOther DEF DownloadInv, Same
<1>3. CASE pc[j] \notin {"half1", "half2", "open", "unpack"}
  BY <1>1, <1>3 DEF DownloadInv, Same
<1>4. QED BY <1>2, <1>3

LEMMA DownloadStep ==
    ASSUME TypeOK, NEW i \in Procs, JobInv(i), DownloadInv(i), Step(i) \/ Crash(i) \/ Command(i)
    PROVE  DownloadInv(i)'
<1> USE DEF server, disk, dirs, download, records, local, chosen, loaded, stream, Goto
<1>0. /\ pc \in [Procs -> Labels] /\ want \in [Procs -> Content] /\ src \in [Procs -> Content]
      /\ fd \in [Procs -> Inodes \cup {None}]
      /\ dlAt \in [Files -> Inodes \cup {None}] /\ ino \in [Inodes -> Bytes]
  BY DEF TypeOK, LocalOK, DiskOK
<1>a. pc[i] \in Fetching => want[i] \in Builds /\ File(i) \in Files
  BY FileType DEF JobInv, Working
<1>b. None \notin Inodes
  BY CliAssumption
<1> USE <1>0
<1>c. ASSUME fd'[i] = None, pc'[i] \notin {"half1", "half2", "open", "unpack"} PROVE DownloadInv(i)'
  BY <1>c DEF DownloadInv
<1>1. CASE Quit(i)
  BY <1>1, <1>c, QuitIsLocal DEF Ended
<1>2. CASE ~Quit(i) /\ (LoadManifest(i) \/ FetchCatalog(i) \/ Scan(i) \/ LicenseGate(i) \/ Finish(i))
  BY <1>2, <1>c DEF LoadManifest, FetchCatalog, Scan, LicenseGate, Finish, DownloadInv
<1>3. CASE ~Quit(i) /\ \E p \in Paths : PickInstall(i, p) \/ PickUninstall(i, p)
  BY <1>3, <1>c DEF PickInstall, PickUninstall, DownloadInv
<1>4. CASE Connect(i)
  <2>1. File(i)' = File(i)
    BY <1>4 DEF Connect, File
  <2>2. PICK k \in IF dlAt[File(i)] # None THEN {dlAt[File(i)]} ELSE Inodes \ InUse :
          dlAt' = [dlAt EXCEPT ![File(i)] = k] /\ fd' = [fd EXCEPT ![i] = k]
    BY <1>4 DEF Connect
  <2>3. File(i) \in Files /\ k \in Inodes
    BY <1>4, <1>a, <2>2 DEF Connect, Fetching
  <2>4. pc'[i] = "half1" /\ fd'[i] = k /\ dlAt'[File(i)] = k
    BY <1>4, <2>2, <2>3 DEF Connect
  <2>5. QED BY <1>b, <2>1, <2>3, <2>4 DEF DownloadInv
<1>5. CASE WriteFirstHalf(i)
  <2>1. File(i)' = File(i) /\ dlAt' = dlAt /\ fd' = fd /\ src' = src /\ pc'[i] = "half2" /\ pc[i] = "half1"
        /\ ino' = [ino EXCEPT ![fd[i]][1] = src[i]]
    BY <1>5 DEF WriteFirstHalf, File
  <2>2. fd[i] \in Inodes /\ fd[i] = dlAt[File(i)]
    BY <2>1 DEF DownloadInv
  <2>3. ino'[fd[i]][1] = src[i]
    BY <2>1, <2>2 DEF Bytes
  <2>4. QED BY <2>1, <2>2, <2>3 DEF DownloadInv
<1>6. CASE ~Quit(i) /\ NetworkError(i)
  BY <1>6, <1>c DEF NetworkError, Retry
<1>7. CASE ~Quit(i) /\ WriteSecondHalf(i)
  <2> DEFINE bytes == [ino EXCEPT ![fd[i]][2] = src[i]]
  <2>1. pc[i] = "half2"
    BY <1>7 DEF WriteSecondHalf
  <2>2. CASE Retry(i, bytes)
    BY <1>7, <1>c, <2>2 DEF Retry
  <2>3. CASE ~Retry(i, bytes)
    <3>1. /\ src[i] = want[i] /\ fd'[i] = None /\ pc'[i] = "open"
          /\ dlAt' = dlAt /\ want' = want /\ ino' = Reclaim(bytes)
      BY <1>7, <2>3 DEF WriteSecondHalf, Verified
    <3>2. File(i)' = File(i)
      BY <3>1 DEF File
    <3>3. fd[i] = dlAt[File(i)] /\ fd[i] # None /\ ino[fd[i]][1] = want[i] /\ fd[i] \in Inodes
      BY <2>1, <3>1 DEF DownloadInv
    <3>4. fd[i] \in Live'
      BY <3>1, <3>2, <3>3 DEF Live
    <3>5. ino'[fd[i]] = bytes[fd[i]]
      BY <3>1, <3>3, <3>4 DEF Reclaim
    <3>6. bytes[fd[i]][1] = want[i] /\ bytes[fd[i]][2] = want[i]
      BY <3>1, <3>3 DEF Bytes
    <3>7. \A h \in 1..2 : ino'[fd[i]][h] = want[i]
      BY <3>5, <3>6
    <3>8. QED BY <3>1, <3>2, <3>3, <3>7 DEF DownloadInv
  <2>4. QED BY <2>2, <2>3
<1>8. CASE ~Quit(i) /\ OpenArchive(i)
  <2>1. /\ pc[i] = "open" /\ pc'[i] = "unpack" /\ fd'[i] = dlAt[File(i)] /\ dlAt[File(i)] # None
        /\ dlAt' = dlAt /\ ino' = ino /\ want' = want
    BY <1>8 DEF OpenArchive, DropStage
  <2>2. File(i)' = File(i)
    BY <2>1 DEF File
  <2>3. QED BY <2>1, <2>2 DEF DownloadInv
<1>9. ASSUME NEW n \in Names, Unpack(i, n) PROVE DownloadInv(i)'
  <2>1. pc' = pc /\ fd' = fd /\ dlAt' = dlAt /\ ino' = ino /\ want' = want /\ src' = src
    BY <1>9 DEF Unpack
  <2>2. File(i)' = File(i)
    BY <2>1 DEF File
  <2>3. QED BY <2>1, <2>2 DEF DownloadInv
<1>10. CASE ~Quit(i) /\ (UnpackEOF(i) \/ UnpackError(i))
  BY <1>10, <1>c DEF UnpackEOF, UnpackError, DropStage
<1>11. CASE ~Quit(i) /\ (ClearDone(i) \/ Publish(i) \/ RemoveDownload(i) \/ \E n \in Names : ClearFile(i, n))
  BY <1>11, <1>c DEF ClearDone, Publish, RemoveDownload, ClearFile, DownloadInv
<1>12. CASE ~Quit(i) /\ (WriteSourceProperties(i) \/ WritePackageXML(i))
  BY <1>12, <1>c DEF WriteSourceProperties, WritePackageXML, DirectoryGone, DownloadInv
<1>13. CASE ~Quit(i) /\ (SaveOpen(i) \/ SaveWrite(i) \/ SaveRename(i))
  BY <1>13, <1>c DEF SaveOpen, SaveWrite, SaveRename, DownloadInv
<1>14. CASE ~Quit(i) /\ (Crash(i) \/ Command(i))
  BY <1>14, <1>c DEF Crash, Command, AcceptLicenses, Start, DownloadInv
<1>15. QED BY <1>1, <1>2, <1>3, <1>4, <1>5, <1>6, <1>7, <1>8, <1>9, <1>10, <1>11, <1>12, <1>13, <1>14 DEF Step

\* The file a process gives a name to had no other name.
LEMMA NamesFresh ==
    ASSUME TypeOK, NEW i \in Procs, JobInv(i), Step(i) \/ Crash(i) \/ Command(i),
           Working(i), Installs(i)
    PROVE  \/ dlAt'[File(i)] = None \/ dlAt'[File(i)] = dlAt[File(i)]
           \/ dlAt'[File(i)] \notin InUse
<1> USE DEF server, disk, dirs, download, records, local, chosen, loaded, stream
<1>0. dlAt \in [Files -> Inodes \cup {None}] /\ File(i) \in Files
  BY FileType DEF TypeOK, DiskOK, JobInv
<1> USE <1>0
<1>1. CASE LoadManifest(i) \/ FetchCatalog(i) \/ Scan(i) \/ LicenseGate(i) \/ Finish(i)
  BY <1>1 DEF LoadManifest, FetchCatalog, Scan, LicenseGate, Finish
<1>2. CASE \E q \in Paths : PickInstall(i, q) \/ PickUninstall(i, q)
  BY <1>2 DEF PickInstall, PickUninstall
<1>3. CASE Connect(i)
  BY <1>3 DEF Connect
<1>4. CASE WriteFirstHalf(i) \/ WriteSecondHalf(i) \/ NetworkError(i)
  BY <1>4 DEF WriteFirstHalf, WriteSecondHalf, NetworkError, Retry
<1>5. CASE OpenArchive(i) \/ UnpackEOF(i) \/ UnpackError(i) \/ \E n \in Names : Unpack(i, n) \/ ClearFile(i, n)
  BY <1>5 DEF OpenArchive, UnpackEOF, UnpackError, DropStage, Unpack, ClearFile
<1>6. CASE ClearDone(i) \/ Publish(i) \/ RemoveDownload(i)
  BY <1>6 DEF ClearDone, Publish, RemoveDownload
<1>7. CASE WriteSourceProperties(i) \/ WritePackageXML(i)
  BY <1>7 DEF WriteSourceProperties, WritePackageXML, DirectoryGone
<1>8. CASE SaveOpen(i) \/ SaveWrite(i) \/ SaveRename(i)
  BY <1>8 DEF SaveOpen, SaveWrite, SaveRename
<1>9. CASE Crash(i) \/ Command(i)
  BY <1>9 DEF Crash, Command, AcceptLicenses, Start
<1>10. QED BY <1>1, <1>2, <1>3, <1>4, <1>5, <1>6, <1>7, <1>8, <1>9 DEF Step

LEMMA OneInodeStep ==
    ASSUME TypeOK, JobsInv, DownloadsInv, NEW i \in Procs, Step(i) \/ Crash(i) \/ Command(i)
    PROVE  OneInode'
<1> SUFFICES ASSUME NEW f \in Files, NEW g \in Files, dlAt'[f] = dlAt'[g], dlAt'[f] # None, f # g PROVE FALSE
  BY DEF OneInode
<1>1. JobInv(i)
  BY DEF JobsInv
<1>2. \A h \in Files : dlAt'[h] = dlAt[h] \/ (Working(i) /\ Installs(i) /\ h = File(i))
  BY <1>1, OtherDownloads
<1>3. \A h \in Files : dlAt[h] \in InUse
  BY DEF InUse
<1>4. \A h \in Files : dlAt'[h] = dlAt[h] \/ dlAt'[h] = None \/ dlAt'[h] \notin InUse
  BY <1>1, <1>2, NamesFresh
<1>5. CASE dlAt'[f] = dlAt[f] /\ dlAt'[g] = dlAt[g]
  BY <1>5 DEF DownloadsInv, OneInode
<1>6. CASE dlAt'[f] # dlAt[f]
  BY <1>2, <1>3, <1>4, <1>6
<1>7. CASE dlAt'[g] # dlAt[g]
  BY <1>2, <1>3, <1>4, <1>7
<1>8. QED BY <1>5, <1>6, <1>7

LEMMA DownloadsStep == TypeOK /\ Apart /\ JobsInv /\ DownloadsInv /\ [Next]_vars => DownloadsInv'
<1> SUFFICES ASSUME TypeOK, Apart, JobsInv, DownloadsInv, [Next]_vars PROVE DownloadsInv'
  OBVIOUS
<1>1. ASSUME NEW i \in Procs, Step(i) \/ Crash(i) \/ Command(i) PROVE DownloadsInv'
  <2>1. ASSUME NEW j \in Procs PROVE DownloadInv(j)'
    <3>1. CASE i = j
      BY <1>1, <3>1, DownloadStep DEF JobsInv, DownloadsInv
    <3>2. CASE i # j
      BY <1>1, <3>2, DownloadOfOtherKept
    <3>3. QED BY <3>1, <3>2
  <2>2. QED BY <1>1, <2>1, OneInodeStep DEF DownloadsInv
<1>2. CASE Server \/ UNCHANGED vars
  BY <1>2 DEF Server, Upload, Regenerate, vars, DownloadsInv, OneInode, DownloadInv, File,
     server, disk, dirs, download, records, local, chosen, loaded, stream
<1>3. QED BY <1>1, <1>2 DEF Next

LEMMA InitDownloads == Init => DownloadsInv
BY DEF Init, DownloadsInv, OneInode, DownloadInv

-----------------------------------------------------------------------------
(* The staging directory and the package directory *)

\* What a process at work has staged or published so far: before it clears the
\* old directory every file of its build is staged, and from Publish to the end
\* every file, then the metadata, are in the package directory.
StageInv(i) ==
    /\ pc[i] = "unpack" => stage[at[i]] # NoTree
                           /\ \A n \in FilesOf[want[i]] \ left[i] : stage[at[i]][n] = want[i]
    /\ pc[i] \in {"clear", "publish"} /\ Installs(i) => Holds(stage[at[i]], want[i])
    /\ pc[i] = "publish" => pkg[at[i]] = NoTree
    /\ pc[i] \in {"rmdl", "props", "xml", "mopen", "mwrite", "mrename"} /\ Installs(i)
         => Holds(pkg[at[i]], want[i])
    /\ pc[i] \in {"xml", "mopen", "mwrite", "mrename"} /\ Installs(i) => pkg[at[i]][Props] # None
    /\ pc[i] \in {"mopen", "mwrite", "mrename"} =>
         IF Installs(i) THEN pkg[at[i]][Xml] = want[i] ELSE pkg[at[i]] = NoTree

StagesInv == \A i \in Procs : StageInv(i)

\* The archive a process unpacks is the one the catalog entry vouches for.
LEMMA UnpacksWanted ==
    ASSUME TypeOK, NEW i \in Procs, JobInv(i), DownloadInv(i), pc[i] = "unpack"
    PROVE  want[i] \in Builds /\ Whole(fd[i]) = {want[i]}
<1>1. want[i] \in Builds
  BY DEF JobInv, Working, Installs, Fetching
<1>2. ino[fd[i]][1] = want[i] /\ ino[fd[i]][2] = want[i]
  BY DEF DownloadInv
<1>3. QED BY <1>1, <1>2 DEF Whole

LEMMA StageOfOtherKept ==
    ASSUME TypeOK, Apart, JobsInv, StagesInv, NEW i \in Procs, Step(i) \/ Crash(i) \/ Command(i),
           NEW j \in Procs, i # j
    PROVE  StageInv(j)'
<1>1. Same(j) /\ StageInv(j)
  BY OthersStay DEF StagesInv
<1>2. CASE Working(j)
  <2>1. at[j] \in Paths
    BY <1>2 DEF TypeOK, PlaceOK, Working
  <2>2. at[j] # at[i]
    BY <1>2, ApartAt
  <2>3. pkg'[at[j]] = pkg[at[j]] /\ stage'[at[j]] = stage[at[j]]
    BY <2>1, <2>2, OtherDirectories
  <2>4. QED BY <1>1, <2>3 DEF StageInv, Same, Installs, Holds
<1>3. CASE ~Working(j)
  BY <1>1, <1>3 DEF StageInv, Same, Working, Critical, Fetching
<1>4. QED BY <1>2, <1>3

LEMMA StageStep ==
    ASSUME TypeOK, ~XzDies, NEW i \in Procs, JobInv(i), DownloadInv(i), StageInv(i),
           Step(i) \/ Crash(i) \/ Command(i)
    PROVE  StageInv(i)'
<1> USE DEF server, disk, dirs, download, records, local, chosen, loaded, stream, Goto
<1>0. /\ pc \in [Procs -> Labels] /\ want \in [Procs -> Content]
      /\ left \in [Procs -> SUBSET Names] /\ at \in [Procs -> Paths \cup {None}]
      /\ pkg \in [Paths -> Tree \cup {NoTree}] /\ stage \in [Paths -> Tree \cup {NoTree}]
      /\ pc[i] \in Critical \cup Fetching => at[i] \in Paths
  BY DEF TypeOK, LocalOK, DiskOK, PlaceOK
<1> USE <1>0
<1>c. ASSUME pc'[i] \notin Critical \cup {"unpack"} PROVE StageInv(i)'
  BY <1>c DEF StageInv, Critical
<1>1. CASE Quit(i)
  BY <1>1, <1>c, QuitIsLocal DEF Ended, Critical
<1>2. CASE ~Quit(i) /\ (LoadManifest(i) \/ FetchCatalog(i) \/ Scan(i) \/ LicenseGate(i) \/ Finish(i))
  BY <1>2, <1>c DEF LoadManifest, FetchCatalog, Scan, LicenseGate, Finish, Critical
<1>3. CASE ~Quit(i) /\ \E p \in Paths : PickInstall(i, p)
  BY <1>3, <1>c DEF PickInstall, Critical
<1>4. ASSUME NEW p \in Paths, PickUninstall(i, p) PROVE StageInv(i)'
  <2>1. job' = [job EXCEPT ![i].todo = @ \ {p}] /\ job[i].op = "uninstall" /\ job \in [Procs -> Jobs]
    BY <1>4 DEF PickUninstall, TypeOK, LocalOK
  <2>2. job'[i].op = "uninstall"
    BY <2>1 DEF Jobs
  <2>3. pc'[i] \in {"next", "clear"}
    BY <1>4 DEF PickUninstall
  <2>4. QED BY <2>2, <2>3 DEF StageInv, Installs
<1>5. CASE ~Quit(i) /\ (Connect(i) \/ WriteFirstHalf(i) \/ WriteSecondHalf(i) \/ NetworkError(i))
  BY <1>5, <1>c DEF Connect, WriteFirstHalf, WriteSecondHalf, NetworkError, Retry, Critical
<1>6. CASE ~Quit(i) /\ OpenArchive(i)
  <2>1. /\ pc[i] = "open" /\ pc'[i] = "unpack" /\ left'[i] = Names /\ want' = want /\ at' = at
        /\ stage' = [stage EXCEPT ![at[i]] = IF @ = NoTree THEN EmptyTree ELSE @]
    BY <1>6 DEF OpenArchive, DropStage
  <2>2. at[i] \in Paths /\ want[i] \in Builds
    BY <2>1 DEF Fetching, JobInv, Working, Installs
  <2>3. stage'[at[i]] # NoTree
    BY <2>1, <2>2, EmptyTreeType, PackagesAssumption DEF Tree, Content
  <2>4. FilesOf[want[i]] \ left'[i] = {}
    BY <2>1, <2>2, PackagesAssumption
  <2>5. QED BY <2>1, <2>3, <2>4 DEF StageInv
<1>7. ASSUME NEW n \in Names, Unpack(i, n) PROVE StageInv(i)'
  <2>1. pc[i] = "unpack" /\ pc' = pc /\ want' = want /\ at' = at /\ left'[i] = left[i] \ {n}
    BY <1>7 DEF Unpack
  <2>2. at[i] \in Paths /\ want[i] \in Builds /\ Whole(fd[i]) = {want[i]}
    BY <2>1, UnpacksWanted DEF Fetching
  <2>3. stage[at[i]] \in Tree /\ stage[at[i]] # NoTree
    BY <2>1, <2>2 DEF StageInv
  <2>4. stage'[at[i]] = [stage[at[i]] EXCEPT ![n] = want[i]]
    BY <1>7, <2>2, <2>3 DEF Unpack
  <2>5. stage'[at[i]] \in Tree /\ stage'[at[i]] # NoTree
    BY <2>2, <2>3, <2>4, PackagesAssumption DEF Tree, Content
  <2>6. \A m \in FilesOf[want[i]] \ left'[i] : stage'[at[i]][m] = want[i]
    BY <2>1, <2>2, <2>3, <2>4, PackagesAssumption DEF StageInv, Tree
  <2>7. QED BY <2>1, <2>5, <2>6 DEF StageInv
<1>8. CASE ~Quit(i) /\ UnpackEOF(i)
  <2>1. /\ pc[i] = "unpack" /\ pc'[i] = "clear" /\ AtEOF(i) /\ at' = at /\ want' = want /\ stage' = stage
    BY <1>8 DEF UnpackEOF
  <2>2. want[i] \in Builds /\ Whole(fd[i]) = {want[i]}
    BY <2>1, UnpacksWanted
  <2>3. FilesOf[want[i]] \cap left[i] = {}
    BY <2>1, <2>2 DEF AtEOF
  <2>4. Holds(stage[at[i]], want[i])
    BY <2>1, <2>3 DEF StageInv, Holds
  <2>5. QED BY <2>1, <2>4 DEF StageInv, Holds
<1>9. CASE UnpackError(i)
  BY <1>1, <1>9 DEF UnpackError, DropStage
<1>10. ASSUME NEW n \in Names, ClearFile(i, n) PROVE StageInv(i)'
  BY <1>10 DEF ClearFile, StageInv, Holds, Installs
<1>11. CASE ~Quit(i) /\ ClearDone(i)
  <2>1. /\ pc[i] = "clear" /\ at[i] \in Paths /\ at' = at /\ want' = want /\ stage' = stage /\ job' = job
        /\ pkg'[at[i]] = NoTree
        /\ pc'[i] = IF Installs(i) THEN "publish" ELSE "mopen"
    BY <1>11 DEF ClearDone, Critical, Installs
  <2>2. QED BY <2>1 DEF StageInv, Installs, Holds
<1>12. CASE ~Quit(i) /\ Publish(i)
  <2>1. /\ pc[i] = "publish" /\ at[i] \in Paths /\ at' = at /\ want' = want /\ job' = job
        /\ pkg'[at[i]] = stage[at[i]] /\ pc'[i] = "rmdl"
    BY <1>12 DEF Publish, Critical
  <2>2. QED BY <2>1 DEF StageInv, Installs, Holds
<1>13. CASE RemoveDownload(i)
  BY <1>13 DEF RemoveDownload, StageInv, Installs, Holds
<1>14. CASE ~Quit(i) /\ WriteSourceProperties(i)
  <2>1. /\ pc[i] = "props" /\ at[i] \in Paths /\ at' = at /\ want' = want /\ job' = job
        /\ pkg'[at[i]] = WithProperties(pkg[at[i]], want[i]) /\ pc'[i] = "xml"
        /\ pkg[at[i]] \in Tree
    BY <1>14 DEF WriteSourceProperties, DirectoryGone, Critical
  <2>2. Installs(i) /\ want[i] \in Builds /\ Holds(pkg[at[i]], want[i])
    BY <2>1 DEF JobInv, StageInv, Working, Critical
  <2>3. pkg'[at[i]] \in Tree
    <3>1. [pkg[at[i]] EXCEPT ![Props] = want[i]] \in Tree
      BY <2>1, TreeUpdate
    <3>2. QED BY <2>1, <3>1 DEF WithProperties
  <2>4. pkg'[at[i]][Props] # None
    BY <2>1, <2>2, PackagesAssumption DEF WithProperties, Tree
  <2>5. Holds(pkg'[at[i]], want[i])
    BY <2>1, <2>2, <2>3, PackagesAssumption DEF WithProperties, Tree, Holds, Content
  <2>6. QED BY <2>1, <2>4, <2>5 DEF StageInv, Installs, Holds
<1>15. CASE ~Quit(i) /\ WritePackageXML(i)
  <2>1. /\ pc[i] = "xml" /\ at[i] \in Paths /\ at' = at /\ want' = want /\ job' = job
        /\ pkg'[at[i]] = [pkg[at[i]] EXCEPT ![Xml] = want[i]] /\ pc'[i] = "mopen"
        /\ pkg[at[i]] \in Tree
    BY <1>15 DEF WritePackageXML, DirectoryGone, Critical
  <2>2. Installs(i) /\ want[i] \in Builds /\ Holds(pkg[at[i]], want[i]) /\ pkg[at[i]][Props] # None
    BY <2>1 DEF JobInv, StageInv, Working, Critical
  <2>3. pkg'[at[i]] \in Tree
    <3>1. [pkg[at[i]] EXCEPT ![Xml] = want[i]] \in Tree
      BY <2>1, TreeUpdate
    <3>2. QED BY <2>1, <3>1
  <2>4. pkg'[at[i]][Props] # None /\ pkg'[at[i]][Xml] = want[i]
    BY <2>1, <2>2, PackagesAssumption DEF Tree
  <2>5. Holds(pkg'[at[i]], want[i])
    BY <2>1, <2>2, <2>3, PackagesAssumption DEF Tree, Holds, Content
  <2>6. QED BY <2>1, <2>2, <2>4, <2>5 DEF StageInv, Installs, Holds
<1>16. CASE ~Quit(i) /\ (SaveOpen(i) \/ SaveWrite(i))
  BY <1>16 DEF SaveOpen, SaveWrite, StageInv, Installs, Holds
<1>17. CASE ~Quit(i) /\ SaveRename(i)
  BY <1>17, <1>c DEF SaveRename, Critical
<1>18. CASE ~Quit(i) /\ (Crash(i) \/ AcceptLicenses(i))
  BY <1>18, <1>c DEF Crash, AcceptLicenses, Critical
<1>19. CASE \E op \in Ops, S \in SUBSET MayName[i], flags \in SUBSET Flags : Start(i, op, S, flags)
  BY <1>19, <1>c DEF Start, Critical
<1>20. QED BY <1>1, <1>2, <1>3, <1>4, <1>5, <1>6, <1>7, <1>8, <1>9, <1>10, <1>11, <1>12, <1>13, <1>14, <1>15,
              <1>16, <1>17, <1>18, <1>19 DEF Step, Command

LEMMA StagesStep ==
    TypeOK /\ Apart /\ ~XzDies /\ JobsInv /\ DownloadsInv /\ StagesInv /\ [Next]_vars => StagesInv'
<1> SUFFICES ASSUME TypeOK, Apart, ~XzDies, JobsInv, DownloadsInv, StagesInv, [Next]_vars,
                    NEW j \in Procs
             PROVE  StageInv(j)'
  BY DEF StagesInv
<1>1. ASSUME NEW i \in Procs, Step(i) \/ Crash(i) \/ Command(i) PROVE StageInv(j)'
  <2>1. CASE i = j
    BY <1>1, <2>1, StageStep DEF JobsInv, DownloadsInv, StagesInv
  <2>2. CASE i # j
    BY <1>1, <2>2, StageOfOtherKept
  <2>3. QED BY <2>1, <2>2
<1>2. CASE Server \/ UNCHANGED vars
  BY <1>2 DEF Server, Upload, Regenerate, vars, StagesInv, StageInv, Installs, Holds,
     server, disk, dirs, download, records, local, chosen, loaded, stream
<1>3. QED BY <1>1, <1>2 DEF Next

LEMMA InitStages == Init => StagesInv
BY DEF Init, StagesInv, StageInv

-----------------------------------------------------------------------------
(* Whole packages *)

\* A step of a process outside Critical changes no package directory; one from
\* Critical stays with its path, gives it up as hurt, or has saved the manifest.
LEMMA CriticalStep ==
    ASSUME TypeOK, NEW i \in Procs, Step(i) \/ Crash(i) \/ Command(i)
    PROVE  /\ pc[i] \notin Critical => pkg' = pkg /\ hurt' = hurt
           /\ pc[i] \in Critical => \/ pc'[i] \in Critical /\ at'[i] = at[i] /\ hurt' = hurt
                                    \/ hurt' = hurt \cup {at[i]}
                                    \/ /\ pc[i] = "mrename" /\ UNCHANGED pkg /\ manifest' = mtmp
                                       /\ hurt' = hurt \ {at[i]}
<1> USE DEF server, disk, dirs, download, records, local, chosen, loaded, stream, Goto, Critical
<1>0. pc \in [Procs -> Labels] /\ at \in [Procs -> Paths \cup {None}]
  BY DEF TypeOK, LocalOK
<1> USE <1>0
<1>1. CASE LoadManifest(i) \/ FetchCatalog(i) \/ Scan(i) \/ LicenseGate(i) \/ Finish(i)
  BY <1>1 DEF LoadManifest, FetchCatalog, Scan, LicenseGate, Finish, Quit
<1>2. CASE \E p \in Paths : PickInstall(i, p) \/ PickUninstall(i, p)
  BY <1>2 DEF PickInstall, PickUninstall, Quit
<1>3. CASE Connect(i) \/ WriteFirstHalf(i) \/ WriteSecondHalf(i) \/ NetworkError(i)
  BY <1>3 DEF Connect, WriteFirstHalf, WriteSecondHalf, NetworkError, Retry, Quit
<1>4. CASE OpenArchive(i) \/ UnpackEOF(i) \/ UnpackError(i) \/ \E n \in Names : Unpack(i, n)
  BY <1>4 DEF OpenArchive, UnpackEOF, UnpackError, DropStage, Unpack, Quit
<1>5. CASE Publish(i) \/ ClearDone(i) \/ RemoveDownload(i) \/ \E n \in Names : ClearFile(i, n)
  BY <1>5 DEF Publish, ClearDone, RemoveDownload, ClearFile, Quit
<1>6. CASE WriteSourceProperties(i) \/ WritePackageXML(i)
  BY <1>6 DEF WriteSourceProperties, WritePackageXML, DirectoryGone, Quit
<1>7. CASE SaveOpen(i) \/ SaveWrite(i) \/ SaveRename(i)
  BY <1>7 DEF SaveOpen, SaveWrite, SaveRename, Quit
<1>8. CASE Crash(i) \/ Command(i)
  BY <1>8 DEF Crash, Command, AcceptLicenses, Start, Quit
<1>9. QED BY <1>1, <1>2, <1>3, <1>4, <1>5, <1>6, <1>7, <1>8 DEF Step

\* When the manifest is about to be renamed the package is as the command wanted it.
LEMMA DoneIsWhole ==
    ASSUME TypeOK, NEW i \in Procs, JobInv(i), StageInv(i), pc[i] = "mrename"
    PROVE  IF Installs(i) THEN want[i] \in Builds /\ Ready(pkg[at[i]], want[i])
                          ELSE pkg[at[i]] = NoTree
BY DEF JobInv, StageInv, Working, Critical, Ready

LEMMA WholeStep ==
    TypeOK /\ JobsInv /\ StagesInv /\ PublishedWhole /\ [Next]_vars => PublishedWhole'
<1> SUFFICES ASSUME TypeOK, JobsInv, StagesInv, PublishedWhole, [Next]_vars, NEW p \in Paths,
                    ~Busy(p)', p \notin hurt', pkg'[p] # NoTree
             PROVE  \E b \in Builds : Ready(pkg'[p], b)
  BY DEF PublishedWhole, Ready, Holds
<1>1. ASSUME NEW i \in Procs, Step(i) \/ Crash(i) \/ Command(i)
      PROVE  \E b \in Builds : Ready(pkg'[p], b)
  <2>1. \A j \in Procs \ {i} : pc'[j] = pc[j] /\ at'[j] = at[j]
    BY <1>1, OthersStay DEF Same
  <2>2. \A j \in Procs \ {i} : ~(pc[j] \in Critical /\ at[j] = p)
    BY <2>1 DEF Busy
  <2>3. CASE pc[i] \in Critical /\ at[i] = p
    <3>1. pc[i] = "mrename" /\ pkg' = pkg
      BY <1>1, <2>3, CriticalStep DEF Busy
    <3>2. QED BY <2>3, <3>1, DoneIsWhole DEF JobsInv, StagesInv
  <2>4. CASE ~(pc[i] \in Critical /\ at[i] = p)
    <3>1. ~Busy(p)
      BY <2>2, <2>4 DEF Busy
    <3>2. p \notin hurt /\ pkg'[p] = pkg[p]
      BY <1>1, <2>4, CriticalStep, OtherDirectories
    <3>3. QED BY <3>1, <3>2 DEF PublishedWhole
  <2>5. QED BY <2>3, <2>4
<1>2. CASE Server \/ UNCHANGED vars
  <2>1. pkg' = pkg /\ hurt' = hurt /\ (Busy(p)' <=> Busy(p))
    BY <1>2 DEF Server, Upload, Regenerate, vars, Busy,
       server, disk, dirs, download, records, local, chosen, loaded, stream
  <2>2. QED BY <2>1 DEF PublishedWhole
<1>3. QED BY <1>1, <1>2 DEF Next

\* What the proofs about the staging directories and those about the package
\* directories rest on.
FetchInv == TypeOK /\ JobsInv /\ DownloadsInv
WorkInv  == FetchInv /\ StagesInv

LEMMA FetchInvariant ==
    ASSUME Apart
    PROVE  Spec => []FetchInv
<1>1. Init => FetchInv
  BY InitHasTypes, InitJobs, InitDownloads DEF FetchInv
<1>2. FetchInv /\ [Next]_vars => FetchInv'
  BY NextKeepsTypes, JobsStep, DownloadsStep DEF FetchInv
<1>3. QED BY <1>1, <1>2, PTL DEF Spec

LEMMA WorkInvariant ==
    ASSUME Apart, ~XzDies
    PROVE  Spec => []WorkInv
<1>1. Init => StagesInv
  BY InitStages
<1>2. FetchInv /\ StagesInv /\ [Next]_vars => StagesInv'
  BY StagesStep DEF FetchInv
<1>3. Spec => [](FetchInv /\ StagesInv)
  BY <1>1, <1>2, FetchInvariant, PTL DEF Spec
<1>4. QED BY <1>3 DEF WorkInv

\* Commands that name different packages never spoil each other's: a package
\* directory nobody is changing, whose last change was not cut short, is a
\* complete build with its metadata, however downloads, extractions and crashes
\* of any number of processes interleave in the temporary directory they share.
THEOREM WholePackages ==
    ASSUME Apart, ~XzDies
    PROVE  Spec => []PublishedWhole
<1>1. Init => PublishedWhole
  BY DEF Init, PublishedWhole
<1>2. WorkInv /\ PublishedWhole /\ [Next]_vars => PublishedWhole'
  BY WholeStep DEF WorkInv, FetchInv
<1>3. QED BY <1>1, <1>2, WorkInvariant, PTL DEF Spec

-----------------------------------------------------------------------------
(* What no step does to the directories *)

\* A file that appears in a staging directory is of the build its process installs.
LEMMA StagesWanted ==
    ASSUME TypeOK, NEW i \in Procs, JobInv(i), DownloadInv(i), Step(i) \/ Crash(i) \/ Command(i),
           NEW p \in Paths, NEW n \in Names, stage'[p] # NoTree, stage'[p][n] # None,
           stage[p] = NoTree \/ stage[p][n] # stage'[p][n]
    PROVE  at[i] = p /\ want[i] = stage'[p][n]
<1> USE DEF server, disk, dirs, download, records, local, chosen, loaded, stream
<1>0. stage \in [Paths -> Tree \cup {NoTree}]
  BY DEF TypeOK, DiskOK
<1>1. at[i] = p
  BY OtherDirectories
<1>2. stage' # stage
  BY DEF TypeOK
<1>3. CASE OpenArchive(i)
  <2>1. stage'[p] = EmptyTree
    BY <1>0, <1>1, <1>2, <1>3 DEF OpenArchive, DropStage
  <2>2. QED BY <2>1 DEF EmptyTree
<1>4. ASSUME NEW m \in Names, Unpack(i, m) PROVE want[i] = stage'[p][n]
  <2>1. Whole(fd[i]) = {want[i]} /\ want[i] \in Builds
    BY <1>4, UnpacksWanted DEF Unpack
  <2> DEFINE t == IF stage[p] = NoTree THEN EmptyTree ELSE stage[p]
  <2>2. stage'[p] = [t EXCEPT ![m] = want[i]]
    BY <1>0, <1>1, <1>4, <2>1 DEF Unpack
  <2>3. t \in Tree
    BY <1>0, EmptyTreeType
  <2>4. n # m => stage'[p][n] = t[n]
    BY <2>2, <2>3 DEF Tree
  <2>5. n = m => stage'[p][n] = want[i]
    BY <2>2, <2>3 DEF Tree
  <2>6. n = m
    BY <2>4 DEF EmptyTree
  <2>7. QED BY <2>5, <2>6
<1>5. CASE UnpackError(i)
  BY <1>0, <1>1, <1>5 DEF UnpackError, DropStage
<1>6. CASE Publish(i)
  BY <1>0, <1>1, <1>6 DEF Publish
<1>7. CASE LoadManifest(i) \/ FetchCatalog(i) \/ Scan(i) \/ LicenseGate(i) \/ Finish(i)
  BY <1>2, <1>7 DEF LoadManifest, FetchCatalog, Scan, LicenseGate, Finish
<1>8. CASE \E q \in Paths : PickInstall(i, q) \/ PickUninstall(i, q)
  BY <1>2, <1>8 DEF PickInstall, PickUninstall
<1>9. CASE Connect(i) \/ WriteFirstHalf(i) \/ WriteSecondHalf(i) \/ NetworkError(i)
  BY <1>2, <1>9 DEF Connect, WriteFirstHalf, WriteSecondHalf, NetworkError, Retry
<1>10. CASE UnpackEOF(i) \/ ClearDone(i) \/ RemoveDownload(i) \/ \E m \in Names : ClearFile(i, m)
  BY <1>2, <1>10 DEF UnpackEOF, ClearDone, RemoveDownload, ClearFile
<1>11. CASE WriteSourceProperties(i) \/ WritePackageXML(i)
  BY <1>2, <1>11 DEF WriteSourceProperties, WritePackageXML, DirectoryGone
<1>12. CASE SaveOpen(i) \/ SaveWrite(i) \/ SaveRename(i)
  BY <1>2, <1>12 DEF SaveOpen, SaveWrite, SaveRename
<1>13. CASE Crash(i) \/ Command(i)
  BY <1>2, <1>13 DEF Crash, Command, AcceptLicenses, Start
<1>14. QED BY <1>1, <1>3, <1>4, <1>5, <1>6, <1>7, <1>8, <1>9, <1>10, <1>11, <1>12, <1>13 DEF Step

\* An install takes files away only at clear, where every file is staged.
LEMMA OldKeptStep ==
    ASSUME TypeOK, Apart, JobsInv, StagesInv, [Next]_vars, NEW i \in Procs, NEW p \in Paths,
           at[i] = p, Installs(i), pkg[p] # NoTree,
           pkg'[p] = NoTree \/ \E n \in Names : pkg[p][n] # None /\ pkg'[p][n] = None
    PROVE  Holds(stage[p], want[i])
<1> USE DEF server, disk, dirs, download, records, local, chosen, loaded, stream
<1>0. pkg \in [Paths -> Tree \cup {NoTree}] /\ want \in [Procs -> Content]
  BY DEF TypeOK, DiskOK, LocalOK
<1>1. Working(i)
  BY CliAssumption DEF JobsInv, JobInv
<1>2. pkg'[p] # pkg[p]
  BY <1>0
<1>3. ASSUME NEW k \in Procs, Step(k) \/ Crash(k) \/ Command(k) PROVE pc[i] = "clear"
  <2>1. k = i
    <3>1. at[k] = at[i]
      BY <1>2, <1>3, OtherDirectories
    <3>2. QED BY <1>1, <3>1, ApartAt
  <2>2. pc[i] \in Critical
    BY <1>2, <1>3, <2>1, CriticalStep
  <2>3. ~(Crash(i) \/ Command(i))
    BY <1>2 DEF Crash, Command, AcceptLicenses, Start
  <2>4. ~Publish(i)
    BY <1>2, <2>2 DEF Publish
  <2>5. ~(RemoveDownload(i) \/ SaveOpen(i) \/ SaveWrite(i) \/ SaveRename(i))
    BY <1>2 DEF RemoveDownload, SaveOpen, SaveWrite, SaveRename
  <2>6. pc[i] \in {"props", "xml"} => want[i] \in Builds /\ want[i] # None
    BY PackagesAssumption DEF JobsInv, JobInv, Working, Critical
  <2>7. ASSUME WriteSourceProperties(i) PROVE FALSE
    <3>1. pc[i] = "props" /\ pkg'[p] = WithProperties(pkg[p], want[i])
      BY <1>0, <1>2, <2>7 DEF WriteSourceProperties, DirectoryGone
    <3>2. pkg[p] \in Tree
      BY <1>0
    <3>3. pkg'[p] \in Tree
      <4>1. [pkg[p] EXCEPT ![Props] = want[i]] \in Tree
        BY <1>0, <3>2, TreeUpdate
      <4>2. QED BY <3>1, <3>2, <4>1 DEF WithProperties
    <3>4. \A n \in Names : pkg[p][n] # None => pkg'[p][n] # None
      BY <2>6, <3>1, <3>2 DEF WithProperties, Tree
    <3>5. pkg'[p] # NoTree
      BY <3>3, PackagesAssumption DEF Tree, Content
    <3>6. QED BY <3>4, <3>5
  <2>8. ASSUME WritePackageXML(i) PROVE FALSE
    <3>1. pc[i] = "xml" /\ pkg'[p] = [pkg[p] EXCEPT ![Xml] = want[i]]
      BY <1>0, <1>2, <2>8 DEF WritePackageXML, DirectoryGone
    <3>2. pkg[p] \in Tree
      BY <1>0
    <3>3. pkg'[p] \in Tree
      <4>1. [pkg[p] EXCEPT ![Xml] = want[i]] \in Tree
        BY <1>0, <3>2, TreeUpdate
      <4>2. QED BY <3>1, <4>1
    <3>4. \A n \in Names : pkg[p][n] # None => pkg'[p][n] # None
      BY <2>6, <3>1, <3>2 DEF Tree
    <3>5. pkg'[p] # NoTree
      BY <3>3, PackagesAssumption DEF Tree, Content
    <3>6. QED BY <3>4, <3>5
  <2>9. Step(i) => pc[i] = "clear" \/ Publish(i) \/ RemoveDownload(i) \/ WriteSourceProperties(i)
                   \/ WritePackageXML(i) \/ SaveOpen(i) \/ SaveWrite(i) \/ SaveRename(i)
    BY <2>2 DEF Step, Critical, LoadManifest, FetchCatalog, Scan, LicenseGate, Finish, PickInstall,
       PickUninstall, Connect, WriteFirstHalf, WriteSecondHalf, NetworkError, OpenArchive,
       UnpackEOF, UnpackError, Unpack, ClearFile, ClearDone
  <2>10. QED BY <1>3, <2>1, <2>3, <2>4, <2>5, <2>7, <2>8, <2>9
<1>4. CASE Server \/ UNCHANGED vars
  BY <1>2, <1>4 DEF Server, Upload, Regenerate, vars
<1>5. QED BY <1>3, <1>4 DEF Next, StagesInv, StageInv

\* No byte reaches a staging directory that the catalog entry being installed
\* does not vouch for, whatever the server sent in earlier attempts, in earlier
\* runs or before a crash: the hash is taken of the stream, and the file the
\* extraction opens by name still holds what was streamed.
THEOREM UnpacksOnlyVerified ==
    ASSUME Apart
    PROVE  Spec => OnlyVerifiedUnpacked
<1> DEFINE A == \A p \in Paths, n \in Names :
                  stage'[p] # NoTree /\ stage'[p][n] # None
                  /\ (stage[p] = NoTree \/ stage[p][n] # stage'[p][n])
                  => \E i \in Procs : at[i] = p /\ want[i] = stage'[p][n]
<1>1. ASSUME FetchInv, [Next]_vars, NEW p \in Paths, NEW n \in Names,
             stage'[p] # NoTree, stage'[p][n] # None,
             stage[p] = NoTree \/ stage[p][n] # stage'[p][n]
      PROVE  \E i \in Procs : at[i] = p /\ want[i] = stage'[p][n]
  <2>1. ASSUME NEW i \in Procs, Step(i) \/ Crash(i) \/ Command(i)
        PROVE  at[i] = p /\ want[i] = stage'[p][n]
    BY <1>1, <2>1, StagesWanted DEF FetchInv, JobsInv, DownloadsInv
  <2>2. CASE Server \/ UNCHANGED vars
    BY <1>1, <2>2 DEF Server, Upload, Regenerate, vars, disk, dirs
  <2>3. QED BY <1>1, <2>1, <2>2 DEF Next
<1>2. FetchInv /\ [Next]_vars => [A]_vars
  BY <1>1
<1>3. Spec => [][A]_vars
  BY <1>2, FetchInvariant, PTL DEF Spec
<1>4. QED BY <1>3 DEF OnlyVerifiedUnpacked

\* An install takes nothing out of the package directory before every file of
\* the new build is in the staging directory: a failed download, a mismatched
\* checksum or a failed extraction leaves the old installation as it was.
THEOREM OldInstallationKept ==
    ASSUME Apart, ~XzDies
    PROVE  Spec => OldKeptUntilNewStaged
<1> DEFINE A == \A i \in Procs, p \in Paths :
                  at[i] = p /\ job[i].op # "uninstall" /\ pkg[p] # NoTree
                  /\ (pkg'[p] = NoTree \/ \E n \in Names : pkg[p][n] # None /\ pkg'[p][n] = None)
                  => Holds(stage[p], want[i])
<1>1. WorkInv /\ [Next]_vars => [A]_vars
  BY OldKeptStep DEF WorkInv, FetchInv, Installs
<1>2. Spec => [][A]_vars
  BY <1>1, WorkInvariant, PTL DEF Spec
<1>3. QED BY <1>2 DEF OldKeptUntilNewStaged

-----------------------------------------------------------------------------
(* One process: the manifest *)

\* One command at a time runs on the SDK root.
Alone == \A i, j \in Procs : i = j

LEMMA AloneApart == Alone => Apart
BY DEF Alone, Apart

\* The manifest in memory is the one on disk until the entry of the package at
\* work is changed in it, and manifest.json.tmp holds what SaveWrite wrote.
SaveInv(i) ==
    /\ mfd[i] = IF pc[i] = "mwrite" THEN "tmp" ELSE "closed"
    /\ mtmp = IF pc[i] = "mwrite" THEN Empty ELSE IF pc[i] = "mrename" THEN mem[i] ELSE Absent
    /\ pc[i] \notin {"idle", "load", "mopen", "mwrite", "mrename"} => mem[i] = manifest
    /\ pc[i] \in {"mopen", "mwrite", "mrename"} =>
         mem[i] = [manifest EXCEPT ![at[i]] = IF Installs(i) THEN want[i] ELSE None]

SavesInv == manifest \in Manifests /\ \A i \in Procs : SaveInv(i)

\* Only the rename of a save changes manifest.json, and it changes one entry.
LEMMA ManifestStep ==
    ASSUME TypeOK, NEW i \in Procs, manifest \in Manifests, SaveInv(i),
           Step(i) \/ Crash(i) \/ Command(i)
    PROVE  \/ manifest' = manifest
           \/ /\ pc[i] = "mrename" /\ UNCHANGED pkg
              /\ manifest' = [manifest EXCEPT ![at[i]] = IF Installs(i) THEN want[i] ELSE None]
<1> USE DEF server, disk, dirs, download, records, local, chosen, loaded, stream
<1>1. CASE LoadManifest(i) \/ FetchCatalog(i) \/ Scan(i) \/ LicenseGate(i) \/ Finish(i)
  BY <1>1 DEF LoadManifest, FetchCatalog, Scan, LicenseGate, Finish
<1>2. CASE \E p \in Paths : PickInstall(i, p) \/ PickUninstall(i, p)
  BY <1>2 DEF PickInstall, PickUninstall
<1>3. CASE Connect(i) \/ WriteFirstHalf(i) \/ WriteSecondHalf(i) \/ NetworkError(i)
  BY <1>3 DEF Connect, WriteFirstHalf, WriteSecondHalf, NetworkError, Retry
<1>4. CASE OpenArchive(i) \/ UnpackEOF(i) \/ UnpackError(i) \/ \E n \in Names : Unpack(i, n) \/ ClearFile(i, n)
  BY <1>4 DEF OpenArchive, UnpackEOF, UnpackError, DropStage, Unpack, ClearFile
<1>5. CASE ClearDone(i) \/ Publish(i) \/ RemoveDownload(i)
  BY <1>5 DEF ClearDone, Publish, RemoveDownload
<1>6. CASE WriteSourceProperties(i) \/ WritePackageXML(i)
  BY <1>6 DEF WriteSourceProperties, WritePackageXML, DirectoryGone
<1>7. CASE SaveOpen(i) \/ SaveWrite(i)
  BY <1>7 DEF SaveOpen, SaveWrite, SaveInv
<1>8. CASE SaveRename(i)
  BY <1>8 DEF SaveRename, SaveInv
<1>9. CASE Crash(i) \/ Command(i)
  BY <1>9 DEF Crash, Command, AcceptLicenses, Start
<1>10. QED BY <1>1, <1>2, <1>3, <1>4, <1>5, <1>6, <1>7, <1>8, <1>9 DEF Step

LEMMA SaveStep ==
    ASSUME TypeOK, Alone, NEW i \in Procs, JobInv(i), manifest \in Manifests, SaveInv(i),
           Step(i) \/ Crash(i) \/ Command(i)
    PROVE  SaveInv(i)'
<1> USE DEF server, disk, dirs, download, records, local, chosen, loaded, stream, Goto
<1>0. /\ pc \in [Procs -> Labels] /\ mem \in [Procs -> Manifests] /\ job \in [Procs -> Jobs]
      /\ at \in [Procs -> Paths \cup {None}] /\ want \in [Procs -> Content]
      /\ mfd \in [Procs -> {"closed", "tmp", "live", "gone"}]
  BY DEF TypeOK, LocalOK
<1>a. Absent \notin Manifests /\ Empty \notin Manifests /\ Torn \notin Manifests
      /\ Absent # Empty
  BY CliAssumption DEF Manifests, Content
<1> USE <1>0
<1>1. ASSUME Quit(i), mtmp' = Absent PROVE SaveInv(i)'
  BY <1>1, QuitIsLocal DEF Ended, SaveInv
<1>2. CASE ~Quit(i) /\ LoadManifest(i)
  BY <1>2 DEF LoadManifest, SaveInv
<1>3. CASE ~Quit(i) /\ (FetchCatalog(i) \/ LicenseGate(i) \/ Finish(i))
  BY <1>3 DEF FetchCatalog, LicenseGate, Finish, SaveInv
<1>4. CASE ~Quit(i) /\ Scan(i)
  BY <1>4 DEF Scan, SaveInv
<1>5. CASE ~Quit(i) /\ \E p \in Paths : PickInstall(i, p)
  BY <1>5 DEF PickInstall, SaveInv
<1>6. CASE \E p \in Paths : PickUninstall(i, p)
  BY <1>6 DEF PickUninstall, SaveInv
<1>7. CASE ~Quit(i) /\ (Connect(i) \/ WriteFirstHalf(i) \/ WriteSecondHalf(i) \/ NetworkError(i))
  BY <1>7 DEF Connect, WriteFirstHalf, WriteSecondHalf, NetworkError, Retry, SaveInv
<1>8. CASE ~Quit(i) /\ (OpenArchive(i) \/ UnpackEOF(i) \/ UnpackError(i) \/ \E n \in Names : Unpack(i, n) \/ ClearFile(i, n))
  BY <1>8 DEF OpenArchive, UnpackEOF, UnpackError, DropStage, Unpack, ClearFile, SaveInv
<1>9. CASE ~Quit(i) /\ ClearDone(i)
  <2>1. /\ pc[i] = "clear" /\ at' = at /\ want' = want /\ job' = job /\ mfd' = mfd
        /\ mtmp' = mtmp /\ manifest' = manifest
        /\ \/ Installs(i) /\ pc'[i] = "publish" /\ mem' = mem
           \/ ~Installs(i) /\ pc'[i] = "mopen" /\ mem'[i] = Removed(mem[i], at[i])
    BY <1>9 DEF ClearDone, Installs
  <2>2. QED BY <2>1 DEF SaveInv, Removed, Installs
<1>10. CASE ~Quit(i) /\ (Publish(i) \/ RemoveDownload(i) \/ WriteSourceProperties(i))
  BY <1>10 DEF Publish, RemoveDownload, WriteSourceProperties, DirectoryGone, SaveInv
<1>11. CASE ~Quit(i) /\ WritePackageXML(i)
  <2>1. /\ pc[i] = "xml" /\ at' = at /\ want' = want /\ job' = job /\ mfd' = mfd
        /\ mtmp' = mtmp /\ manifest' = manifest
        /\ pc'[i] = "mopen" /\ mem'[i] = Added(mem[i], at[i], want[i])
    BY <1>11 DEF WritePackageXML, DirectoryGone
  <2>2. Installs(i)
    BY <2>1 DEF JobInv
  <2>3. QED BY <2>1, <2>2 DEF SaveInv, Added, Installs
<1>12. CASE SaveOpen(i)
  BY <1>12 DEF SaveOpen, SaveInv, Installs
<1>13. CASE SaveWrite(i)
  <2>1. /\ pc[i] = "mwrite" /\ mfd[i] = "tmp" /\ mtmp = Empty
    BY <1>13 DEF SaveWrite, SaveInv
  <2>2. /\ mtmp' = mem[i] /\ manifest' = manifest /\ pc'[i] = "mrename" /\ mfd'[i] = "closed"
        /\ mem' = mem /\ at' = at /\ want' = want /\ job' = job
    BY <1>13, <2>1 DEF SaveWrite, Overwrite
  <2>3. QED BY <2>1, <2>2 DEF SaveInv, Installs
<1>14. CASE ~Quit(i) /\ SaveRename(i)
  <2>1. /\ pc[i] = "mrename" /\ mtmp = mem[i] /\ mfd[i] = "closed"
    BY <1>14 DEF SaveRename, SaveInv
  <2>2. mfd'[i] = "closed"
    BY <1>14, <2>1 DEF SaveRename, Renamed
  <2>3. /\ mtmp' = Absent /\ manifest' = mem[i] /\ mem' = mem /\ pc'[i] = "next"
    BY <1>14, <2>1 DEF SaveRename
  <2>4. QED BY <2>2, <2>3 DEF SaveInv
<1>15. CASE Crash(i)
  <2>1. mtmp' = Absent
    BY <1>15 DEF Crash, Alone
  <2>2. QED BY <1>1, <1>15, <2>1 DEF Crash
<1>16. CASE AcceptLicenses(i)
  BY <1>16 DEF AcceptLicenses, SaveInv, Installs
<1>17. CASE \E op \in Ops, S \in SUBSET MayName[i], flags \in SUBSET Flags : Start(i, op, S, flags)
  BY <1>17 DEF Start, SaveInv
<1>18. CASE Quit(i) /\ Step(i)
  <2>1. CASE LoadManifest(i) \/ FetchCatalog(i) \/ Scan(i) \/ LicenseGate(i) \/ Finish(i)
             \/ \E p \in Paths : PickInstall(i, p)
    BY <1>1, <1>18, <2>1 DEF LoadManifest, FetchCatalog, Scan, LicenseGate, Finish, PickInstall, SaveInv
  <2>2. CASE WriteSecondHalf(i) \/ NetworkError(i) \/ OpenArchive(i) \/ UnpackError(i)
    BY <1>1, <1>18, <2>2 DEF WriteSecondHalf, NetworkError, Retry, OpenArchive, UnpackError, DropStage, SaveInv
  <2>3. CASE Publish(i) \/ WriteSourceProperties(i) \/ WritePackageXML(i)
    BY <1>1, <1>18, <2>3 DEF Publish, WriteSourceProperties, WritePackageXML, DirectoryGone, SaveInv
  <2>4. CASE SaveRename(i)
    BY <1>1, <1>18, <2>4 DEF SaveRename, SaveInv
  <2>5. CASE Connect(i) \/ WriteFirstHalf(i) \/ UnpackEOF(i) \/ \E n \in Names : Unpack(i, n) \/ ClearFile(i, n)
    BY <1>1, <1>18, <2>5 DEF Connect, WriteFirstHalf, UnpackEOF, Unpack, ClearFile, SaveInv
  <2>6. CASE ClearDone(i) \/ RemoveDownload(i) \/ SaveOpen(i) \/ \E p \in Paths : PickUninstall(i, p)
    BY <1>1, <1>12, <1>18, <2>6 DEF ClearDone, RemoveDownload, PickUninstall, SaveInv
  <2>7. QED BY <1>13, <1>18, <2>1, <2>2, <2>3, <2>4, <2>5, <2>6 DEF Step
<1>19. QED BY <1>2, <1>3, <1>4, <1>5, <1>6, <1>7, <1>8, <1>9, <1>10, <1>11, <1>12, <1>13, <1>14,
              <1>15, <1>16, <1>17, <1>18 DEF Step, Command

LEMMA SavesStep ==
    TypeOK /\ Alone /\ JobsInv /\ SavesInv /\ [Next]_vars => SavesInv'
<1> SUFFICES ASSUME TypeOK, Alone, JobsInv, SavesInv, [Next]_vars PROVE SavesInv'
  OBVIOUS
<1>1. ASSUME NEW i \in Procs, Step(i) \/ Crash(i) \/ Command(i) PROVE SavesInv'
  <2>1. JobInv(i) /\ SaveInv(i) /\ manifest \in Manifests
    BY DEF JobsInv, SavesInv
  <2>2. SaveInv(i)'
    BY <1>1, <2>1, SaveStep
  <2>3. \A j \in Procs : SaveInv(j)'
    BY <2>2 DEF Alone
  <2>4. manifest' \in Manifests
    <3>1. manifest' = manifest
          \/ manifest' = [manifest EXCEPT ![at[i]] = IF Installs(i) THEN want[i] ELSE None]
      BY <1>1, <2>1, ManifestStep
    <3>2. want[i] \in Content
      BY DEF TypeOK, LocalOK
    <3>3. QED BY <2>1, <3>1, <3>2 DEF Manifests, Content
  <2>5. QED BY <2>3, <2>4 DEF SavesInv
<1>2. CASE Server \/ UNCHANGED vars
  BY <1>2 DEF Server, Upload, Regenerate, vars, SavesInv, SaveInv, Installs,
     server, disk, dirs, download, records, local, chosen, loaded, stream
<1>3. QED BY <1>1, <1>2 DEF Next

\* A step that changes the entry of a package finds the directory as the new
\* entry says.
LEMMA RecordStep ==
    ASSUME WorkInv, SavesInv, [Next]_vars, NEW p \in Paths, manifest'[p] # manifest[p]
    PROVE  IF manifest'[p] = None THEN pkg[p] = NoTree ELSE Ready(pkg[p], manifest'[p])
<1>1. ASSUME NEW i \in Procs, Step(i) \/ Crash(i) \/ Command(i)
      PROVE  IF manifest'[p] = None THEN pkg[p] = NoTree ELSE Ready(pkg[p], manifest'[p])
  <2>1. TypeOK /\ JobInv(i) /\ StageInv(i) /\ SaveInv(i) /\ manifest \in Manifests
    BY DEF WorkInv, FetchInv, JobsInv, StagesInv, SavesInv
  <2>2. /\ pc[i] = "mrename"
        /\ manifest' = [manifest EXCEPT ![at[i]] = IF Installs(i) THEN want[i] ELSE None]
    BY <1>1, <2>1, ManifestStep
  <2>3. p = at[i] /\ manifest'[p] = IF Installs(i) THEN want[i] ELSE None
    BY <2>1, <2>2 DEF Manifests
  <2>4. IF Installs(i) THEN want[i] \in Builds /\ Ready(pkg[p], want[i]) ELSE pkg[p] = NoTree
    BY <2>1, <2>2, <2>3, DoneIsWhole
  <2>5. QED BY <2>3, <2>4, PackagesAssumption
<1>2. CASE Server \/ UNCHANGED vars
  BY <1>2 DEF Server, Upload, Regenerate, vars, disk, records
<1>3. QED BY <1>1, <1>2 DEF Next

LEMMA AgreeStep ==
    WorkInv /\ Alone /\ SavesInv /\ AgreeUnlessCutShort /\ [Next]_vars => AgreeUnlessCutShort'
<1> SUFFICES ASSUME WorkInv, Alone, SavesInv, AgreeUnlessCutShort, [Next]_vars, NEW p \in Paths,
                    ~Busy(p)', p \notin hurt'
             PROVE  Agree(p)'
  BY SavesStep DEF AgreeUnlessCutShort, WorkInv, FetchInv, SavesInv
<1>1. ASSUME NEW i \in Procs, Step(i) \/ Crash(i) \/ Command(i) PROVE Agree(p)'
  <2>1. TypeOK /\ JobInv(i) /\ StageInv(i) /\ SaveInv(i) /\ manifest \in Manifests
    BY DEF WorkInv, FetchInv, JobsInv, StagesInv, SavesInv
  <2>2. CASE pc[i] \in Critical /\ at[i] = p
    <3>1. pc[i] = "mrename" /\ pkg' = pkg /\ manifest' = mtmp
      BY <1>1, <2>1, <2>2, CriticalStep DEF Busy
    <3>2. IF Installs(i) THEN want[i] \in Builds /\ Ready(pkg[p], want[i]) ELSE pkg[p] = NoTree
      BY <2>1, <2>2, <3>1, DoneIsWhole
    <3>3. manifest'[p] = IF Installs(i) THEN want[i] ELSE None
      BY <2>1, <2>2, <3>1 DEF SaveInv, Manifests
    <3>4. QED BY <3>1, <3>2, <3>3, PackagesAssumption DEF Agree
  <2>3. CASE ~(pc[i] \in Critical /\ at[i] = p)
    <3>1. ~Busy(p)
      BY <2>3 DEF Busy, Alone
    <3>2. p \notin hurt /\ pkg'[p] = pkg[p]
      BY <1>1, <2>1, <2>3, CriticalStep, OtherDirectories
    <3>3. manifest'[p] = manifest[p]
      BY <1>1, <2>1, <2>3, ManifestStep DEF Manifests, Critical
    <3>4. QED BY <3>1, <3>2, <3>3 DEF AgreeUnlessCutShort, Agree
  <2>4. QED BY <2>2, <2>3
<1>2. CASE Server \/ UNCHANGED vars
  <2>1. pkg' = pkg /\ hurt' = hurt /\ manifest' = manifest /\ (Busy(p)' <=> Busy(p))
    BY <1>2 DEF Server, Upload, Regenerate, vars, Busy,
       server, disk, dirs, download, records, local, chosen, loaded, stream
  <2>2. QED BY <2>1 DEF AgreeUnlessCutShort, Agree
<1>3. QED BY <1>1, <1>2 DEF Next

LEMMA AloneInvariant ==
    ASSUME Alone, ~XzDies
    PROVE  Spec => [](WorkInv /\ SavesInv)
<1>1. Init => SavesInv
  BY DEF Init, SavesInv, SaveInv, Manifests, NoEntries, Content
<1>2. WorkInv /\ SavesInv /\ [Next]_vars => SavesInv'
  BY SavesStep DEF WorkInv, FetchInv
<1>3. QED BY <1>1, <1>2, AloneApart, WorkInvariant, PTL DEF Spec

\* With one command at a time, manifest.json is always readable, and unless a
\* command is changing a package, or the last one to change it was cut short,
\* the manifest and the package directory say the same of it; a command that
\* runs to its end makes them agree again.
THEOREM ManifestAgrees ==
    ASSUME Alone, ~XzDies
    PROVE  Spec => []AgreeUnlessCutShort
<1>1. Init => AgreeUnlessCutShort
  BY DEF Init, AgreeUnlessCutShort, Agree, Manifests, NoEntries, Content
<1>2. WorkInv /\ SavesInv /\ AgreeUnlessCutShort /\ [Next]_vars => AgreeUnlessCutShort'
  BY AgreeStep
<1>3. QED BY <1>1, <1>2, AloneInvariant, PTL DEF Spec

\* manifest.json gains or changes an entry only when the directory of the
\* package is complete, metadata included, and loses one only when the
\* directory is gone, wherever earlier commands were cut short.
THEOREM RecordsLast ==
    ASSUME Alone, ~XzDies
    PROVE  Spec => RecordedLast
<1> DEFINE A == \A p \in Paths : manifest'[p] # manifest[p] =>
                  IF manifest'[p] = None THEN pkg[p] = NoTree ELSE Ready(pkg[p], manifest'[p])
<1>1. WorkInv /\ SavesInv /\ [Next]_vars => [A]_vars
  BY RecordStep
<1>2. Spec => [][A]_vars
  BY <1>1, AloneInvariant, PTL DEF Spec
<1>3. QED BY <1>2 DEF RecordedLast

-----------------------------------------------------------------------------
(* The package store *)

\* Every archive has a file beside package.xml: tar.xz archives of components
\* hold at least one program or one platform jar.
Filled == \A b \in Builds : FilesOf[b] \ {Xml} # {}

\* The builds a tree holds.
HeldBy(t) == {b \in Builds : Holds(t, b)}

There   == {p \in Paths : pkg[p] # NoTree}
HoldsAt == [p \in Paths |-> HeldBy(pkg[p])]

LEMMA NothingHeld == ASSUME Filled PROVE HeldBy(NoTree) = {} /\ HeldBy(EmptyTree) = {}
<1>1. HeldBy(NoTree) = {}
  BY DEF HeldBy, Holds
<1>2. ASSUME NEW b \in Builds PROVE ~Holds(EmptyTree, b)
  <2>1. PICK n \in FilesOf[b] : n # Xml
    BY DEF Filled
  <2>2. n \in Names /\ b # None
    BY <2>1, PackagesAssumption
  <2>3. QED BY <2>1, <2>2 DEF Holds, EmptyTree
<1>3. QED BY <1>1, <1>2 DEF HeldBy

\* Removing a file takes away builds and brings none.
LEMMA WornHolds ==
    ASSUME NEW t \in Tree, NEW n \in Names
    PROVE  HeldBy([t EXCEPT ![n] = None]) \subseteq HeldBy(t)
BY PackagesAssumption DEF HeldBy, Holds, Tree, Content

\* The metadata the CLI writes into a directory that holds the build changes
\* nothing of what the directory holds.
LEMMA MetadataHolds ==
    ASSUME NEW t \in Tree, NEW b \in Builds, Holds(t, b)
    PROVE  HeldBy(WithProperties(t, b)) = HeldBy(t) /\ HeldBy([t EXCEPT ![Xml] = b]) = HeldBy(t)
<1> USE PackagesAssumption
<1>0. t # NoTree
  BY DEF Holds
<1>1. HeldBy([t EXCEPT ![Xml] = b]) = HeldBy(t)
  <2>1. [t EXCEPT ![Xml] = b] # NoTree
    BY DEF Tree, Content
  <2>2. \A c \in Builds : Holds([t EXCEPT ![Xml] = b], c) <=> Holds(t, c)
    BY <1>0, <2>1 DEF Holds, Tree
  <2>3. QED BY <2>2 DEF HeldBy
<1>2. CASE t[Props] = None
  <2>1. [t EXCEPT ![Props] = b] # NoTree
    BY DEF Tree, Content
  <2>2. Props \notin FilesOf[b]
    BY <1>2 DEF Holds
  <2>3. ASSUME NEW c \in Builds PROVE Holds([t EXCEPT ![Props] = b], c) <=> Holds(t, c)
    BY <1>0, <1>2, <2>1, <2>2 DEF Holds, Tree
  <2>4. QED BY <1>1, <1>2, <2>3 DEF HeldBy, WithProperties
<1>3. CASE t[Props] # None
  BY <1>1, <1>3 DEF WithProperties
<1>4. QED BY <1>2, <1>3

LEMMA InitStore == Init => Store!Init
<1> SUFFICES ASSUME Init PROVE There = {} /\ HoldsAt = [p \in Paths |-> {}] /\ manifest = [p \in Paths |-> None]
  BY DEF Store!Init, There, HoldsAt, HeldBy
<1>1. There = {} /\ manifest = [p \in Paths |-> None]
  BY DEF Init, There, NoEntries
<1>2. \A p \in Paths : HeldBy(pkg[p]) = {}
  BY DEF Init, HeldBy, Holds
<1>3. QED BY <1>1, <1>2 DEF HoldsAt

\* A step that leaves directories and manifest alone does not show.
LEMMA Hidden ==
    ASSUME UNCHANGED <<pkg, manifest>>
    PROVE  UNCHANGED Store!store
BY DEF Store!store

\* What a step does to the store when it changes the directory of one path.
LEMMA OneDirectory ==
    ASSUME TypeOK, NEW p \in Paths, NEW t, pkg' = [pkg EXCEPT ![p] = t]
    PROVE  /\ There' = IF t = NoTree THEN There \ {p} ELSE There \cup {p}
           /\ HoldsAt' = [HoldsAt EXCEPT ![p] = HeldBy(t)]
<1>0. pkg \in [Paths -> Tree \cup {NoTree}]
  BY DEF TypeOK, DiskOK
<1>1. \A q \in Paths : pkg'[q] = IF q = p THEN t ELSE pkg[q]
  BY <1>0
<1>2. There' = IF t = NoTree THEN There \ {p} ELSE There \cup {p}
  BY <1>1 DEF There
<1>3. HoldsAt' = [q \in Paths |-> HeldBy(pkg'[q])]
  BY DEF HoldsAt, HeldBy, Holds
<1>4. \A q \in Paths : HeldBy(pkg'[q]) = IF q = p THEN HeldBy(t) ELSE HeldBy(pkg[q])
  BY <1>1
<1>5. QED BY <1>2, <1>3, <1>4 DEF HoldsAt

\* The actions of the store, as the directories and the manifest show them.
LEMMA StoreSteps ==
    ASSUME NEW p \in Paths,
           \/ /\ p \notin There /\ There' = There \cup {p} /\ UNCHANGED manifest
              /\ \E B \in SUBSET Builds : B # {} /\ HoldsAt' = [HoldsAt EXCEPT ![p] = B]
           \/ /\ p \in There /\ UNCHANGED <<There, manifest>>
              /\ \E B \in SUBSET HoldsAt[p] : HoldsAt' = [HoldsAt EXCEPT ![p] = B]
           \/ /\ p \in There /\ HoldsAt[p] = {} /\ There' = There \ {p}
              /\ UNCHANGED <<HoldsAt, manifest>>
           \/ /\ UNCHANGED <<There, HoldsAt>>
              /\ \E b \in Builds : b \in HoldsAt[p] /\ manifest' = [manifest EXCEPT ![p] = b]
           \/ /\ p \notin There /\ manifest' = [manifest EXCEPT ![p] = None]
              /\ UNCHANGED <<There, HoldsAt>>
    PROVE  Store!Next
BY DEF Store!Next, Store!Put, Store!Wear, Store!Remove, Store!Record, Store!Forget, There, HoldsAt, HeldBy

LEMMA ReplaceRefines ==
    ASSUME TypeOK, Filled, NEW i \in Procs, JobInv(i), StageInv(i), pc[i] \in Critical, UNCHANGED manifest,
           \/ ClearDone(i) \/ Publish(i) \/ WriteSourceProperties(i) \/ WritePackageXML(i)
           \/ \E n \in Names : ClearFile(i, n)
    PROVE  [Store!Next]_(Store!store)
<1> DEFINE p == at[i]
           t == pkg[p]
<1>0. p \in Paths /\ pkg \in [Paths -> Tree \cup {NoTree}] /\ (t # NoTree <=> p \in There)
      /\ HoldsAt[p] = HeldBy(t) /\ HoldsAt = [HoldsAt EXCEPT ![p] = HeldBy(t)]
  BY DEF TypeOK, DiskOK, PlaceOK, There, HoldsAt
<1>s. CASE UNCHANGED pkg
  BY <1>s, Hidden
<1>1. ASSUME NEW n \in Names, ClearFile(i, n) PROVE Store!Next
  <2> DEFINE u == [t EXCEPT ![n] = None]
  <2>1. t \in Tree /\ t # NoTree /\ pkg' = [pkg EXCEPT ![p] = u]
    BY <1>0, <1>1 DEF ClearFile
  <2>2. u # NoTree
    BY <2>1, PackagesAssumption DEF Tree, Content
  <2>3. There' = There /\ HoldsAt' = [HoldsAt EXCEPT ![p] = HeldBy(u)]
    <3>1. /\ There' = IF u = NoTree THEN There \ {p} ELSE There \cup {p}
          /\ HoldsAt' = [HoldsAt EXCEPT ![p] = HeldBy(u)]
      BY <1>0, <2>1, OneDirectory
    <3>2. QED BY <1>0, <2>1, <2>2, <3>1
  <2>4. HeldBy(u) \in SUBSET HoldsAt[p]
    BY <1>0, <2>1, WornHolds
  <2>5. QED BY <1>0, <2>1, <2>3, <2>4, StoreSteps
<1>2. CASE ClearDone(i) /\ pkg' # pkg
  <2>1. t = EmptyTree /\ t # NoTree /\ pkg' = [pkg EXCEPT ![p] = NoTree]
    BY <1>0, <1>2 DEF ClearDone
  <2>2. HeldBy(t) = {} /\ HeldBy(NoTree) = {}
    BY <2>1, NothingHeld
  <2>3. There' = There \ {p} /\ HoldsAt' = HoldsAt
    BY <1>0, <2>1, <2>2, OneDirectory
  <2>4. QED BY <1>0, <2>1, <2>2, <2>3, StoreSteps
<1>3. CASE Publish(i) /\ pkg' # pkg
  <2>1. t = NoTree /\ stage[p] # NoTree /\ pkg' = [pkg EXCEPT ![p] = stage[p]] /\ pc[i] = "publish"
    BY <1>3 DEF Publish, dirs
  <2>2. There' = There \cup {p} /\ HoldsAt' = [HoldsAt EXCEPT ![p] = HeldBy(stage[p])]
    <3>1. /\ There' = IF stage[p] = NoTree THEN There \ {p} ELSE There \cup {p}
          /\ HoldsAt' = [HoldsAt EXCEPT ![p] = HeldBy(stage[p])]
      BY <1>0, <2>1, OneDirectory
    <3>2. QED BY <2>1, <3>1
  <2>3. want[i] \in HeldBy(stage[p])
    BY <2>1 DEF JobInv, StageInv, Working, HeldBy
  <2>4. HeldBy(stage[p]) \in SUBSET Builds /\ HeldBy(stage[p]) # {}
    BY <2>3 DEF HeldBy
  <2>5. QED BY <1>0, <2>1, <2>2, <2>4, StoreSteps
<1>4. ASSUME NEW u, u # NoTree, t \in Tree, t # NoTree, HeldBy(u) = HeldBy(t), pkg' = [pkg EXCEPT ![p] = u]
      PROVE  UNCHANGED Store!store
  <2>1. There' = There /\ HoldsAt' = HoldsAt
    <3>1. /\ There' = IF u = NoTree THEN There \ {p} ELSE There \cup {p}
          /\ HoldsAt' = [HoldsAt EXCEPT ![p] = HeldBy(u)]
      BY <1>0, <1>4, OneDirectory
    <3>2. QED BY <1>0, <1>4, <3>1
  <2>2. QED BY <2>1 DEF Store!store, There, HoldsAt, HeldBy
<1>5. pc[i] \in {"props", "xml"} => want[i] \in Builds /\ Holds(t, want[i])
  BY DEF JobInv, StageInv, Working
<1>6. CASE WriteSourceProperties(i) /\ pkg' # pkg
  <2> DEFINE u == WithProperties(t, want[i])
  <2>1. t \in Tree /\ t # NoTree /\ pkg' = [pkg EXCEPT ![p] = u] /\ pc[i] = "props"
    BY <1>0, <1>6 DEF WriteSourceProperties, DirectoryGone
  <2>2. HeldBy(u) = HeldBy(t)
    BY <1>5, <2>1, MetadataHolds
  <2>3. u # NoTree
    BY <2>1, PackagesAssumption, <1>5 DEF WithProperties, Tree, Content
  <2>4. QED BY <1>4, <2>1, <2>2, <2>3
<1>7. CASE WritePackageXML(i) /\ pkg' # pkg
  <2> DEFINE u == [t EXCEPT ![Xml] = want[i]]
  <2>1. t \in Tree /\ t # NoTree /\ pkg' = [pkg EXCEPT ![p] = u] /\ pc[i] = "xml"
    BY <1>0, <1>7 DEF WritePackageXML, DirectoryGone
  <2>2. HeldBy(u) = HeldBy(t)
    BY <1>5, <2>1, MetadataHolds
  <2>3. u # NoTree
    BY <2>1, PackagesAssumption, <1>5 DEF Tree, Content
  <2>4. QED BY <1>4, <2>1, <2>2, <2>3
<1>8. QED BY <1>s, <1>1, <1>2, <1>3, <1>6, <1>7

LEMMA SaveRefines ==
    ASSUME TypeOK, NEW i \in Procs, JobInv(i), StageInv(i), manifest \in Manifests,
           pc[i] = "mrename", UNCHANGED pkg,
           manifest' = [manifest EXCEPT ![at[i]] = IF Installs(i) THEN want[i] ELSE None]
    PROVE  Store!Next
<1> DEFINE p == at[i]
<1>0. p \in Paths
  BY DEF TypeOK, PlaceOK, Critical
<1>1. UNCHANGED <<There, HoldsAt>>
  BY DEF There, HoldsAt, HeldBy
<1>2. CASE Installs(i)
  <2>1. want[i] \in Builds /\ want[i] \in HoldsAt[p]
    BY <1>0, <1>2, DoneIsWhole DEF Ready, HoldsAt, HeldBy
  <2>2. QED BY <1>0, <1>1, <1>2, <2>1, StoreSteps
<1>3. CASE ~Installs(i)
  <2>1. p \notin There
    BY <1>3, DoneIsWhole DEF There
  <2>2. QED BY <1>0, <1>1, <1>3, <2>1, StoreSteps
<1>4. QED BY <1>2, <1>3

\* The steps that change a package directory are those of the replacement and of
\* the metadata.
LEMMA DirectorySteps ==
    ASSUME TypeOK, NEW i \in Procs, Step(i) \/ Crash(i) \/ Command(i), pkg' # pkg
    PROVE  /\ pc[i] \in Critical
           /\ \/ ClearDone(i) \/ Publish(i) \/ WriteSourceProperties(i) \/ WritePackageXML(i)
              \/ \E n \in Names : ClearFile(i, n)
<1> USE DEF server, disk, dirs, download, records, local, chosen, loaded, stream
<1>1. pc[i] \in Critical
  BY CriticalStep
<1>2. ~(Crash(i) \/ Command(i))
  BY DEF Crash, Command, AcceptLicenses, Start
<1>3. ~(RemoveDownload(i) \/ SaveOpen(i) \/ SaveWrite(i) \/ SaveRename(i))
  BY DEF RemoveDownload, SaveOpen, SaveWrite, SaveRename
<1>4. ~(LoadManifest(i) \/ FetchCatalog(i) \/ Scan(i) \/ LicenseGate(i) \/ Finish(i)
        \/ \E p \in Paths : PickInstall(i, p) \/ PickUninstall(i, p))
  BY <1>1 DEF LoadManifest, FetchCatalog, Scan, LicenseGate, Finish, PickInstall, PickUninstall, Critical
<1>5. ~(Connect(i) \/ WriteFirstHalf(i) \/ WriteSecondHalf(i) \/ NetworkError(i) \/ OpenArchive(i)
        \/ UnpackEOF(i) \/ UnpackError(i) \/ \E n \in Names : Unpack(i, n))
  BY <1>1 DEF Connect, WriteFirstHalf, WriteSecondHalf, NetworkError, OpenArchive, UnpackEOF,
     UnpackError, Unpack, Critical
<1>6. QED BY <1>1, <1>2, <1>3, <1>4, <1>5 DEF Step

LEMMA StoreStep ==
    ASSUME WorkInv, SavesInv, Filled, [Next]_vars
    PROVE  [Store!Next]_(Store!store)
<1>1. ASSUME NEW i \in Procs, Step(i) \/ Crash(i) \/ Command(i) PROVE [Store!Next]_(Store!store)
  <2>1. TypeOK /\ JobInv(i) /\ StageInv(i) /\ SaveInv(i) /\ manifest \in Manifests
    BY DEF WorkInv, FetchInv, JobsInv, StagesInv, SavesInv
  <2>2. \/ manifest' = manifest
        \/ /\ pc[i] = "mrename" /\ UNCHANGED pkg
           /\ manifest' = [manifest EXCEPT ![at[i]] = IF Installs(i) THEN want[i] ELSE None]
    BY <1>1, <2>1, ManifestStep
  <2>3. CASE manifest' = manifest /\ pkg' = pkg
    BY <2>3, Hidden
  <2>4. CASE manifest' = manifest /\ pkg' # pkg
    <3>1. /\ pc[i] \in Critical
          /\ \/ ClearDone(i) \/ Publish(i) \/ WriteSourceProperties(i) \/ WritePackageXML(i)
             \/ \E n \in Names : ClearFile(i, n)
      BY <1>1, <2>1, <2>4, DirectorySteps
    <3>2. QED BY <2>1, <2>4, <3>1, ReplaceRefines
  <2>5. CASE manifest' # manifest
    BY <2>1, <2>2, <2>5, SaveRefines
  <2>6. QED BY <2>3, <2>4, <2>5
<1>2. CASE Server \/ UNCHANGED vars
  <2>1. UNCHANGED <<pkg, manifest>>
    BY <1>2 DEF Server, Upload, Regenerate, vars, disk, dirs, records
  <2>2. QED BY <2>1, Hidden
<1>3. QED BY <1>1, <1>2 DEF Next

\* With one command at a time the CLI implements the package store: a directory
\* appears with every file of a build at once, loses them only on its way out,
\* and the manifest changes only while the directory is as it will say.  Neither
\* crashes nor what the server sends can be seen in the store.
THEOREM ImplementsPackageStore ==
    ASSUME Alone, ~XzDies, Filled
    PROVE  Spec => IsPackageStore
<1>1. Init => Store!Init
  BY InitStore
<1>2. WorkInv /\ SavesInv /\ [Next]_vars => [Store!Next]_(Store!store)
  BY StoreStep
<1>3. Spec => Store!Spec
  BY <1>1, <1>2, AloneInvariant, PTL DEF Spec, Store!Spec
<1>4. QED BY <1>3 DEF IsPackageStore
=============================================================================
