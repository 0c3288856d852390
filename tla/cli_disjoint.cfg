SPECIFICATION Spec
CONSTANTS
  p1 = p1  p2 = p2  a = a  b = b
  bin = bin  lib = lib  props = props  xml = xml
  None = None  NoTree = NoTree  Absent = Absent  Empty = Empty  Torn = Torn
  Paths <- TwoPaths
  Builds <- TwoBuilds
  PathOf <- OneEach
  VersionOf <- SameVersion
  ThisHost <- TwoBuilds
  Names <- FewNames
  FilesOf <- FewFiles
  Props = props
  Xml = xml
  Procs = {a, b}
  Inodes = {k1, k2}
  Ops = {"install"}
  MayName <- MayOwn
  Flags = {}
  Killable = {a}
  Missable <- NoBuilds
  XzDies = FALSE
SYMMETRY InodesAlike
INVARIANTS PublishedWhole
