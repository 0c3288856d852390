SPECIFICATION Spec
CONSTANTS
  p1 = p1  p2 = p2  a = a  b = b
  bin = bin  lib = lib  props = props  xml = xml
  None = None  NoTree = NoTree  Absent = Absent  Empty = Empty  Torn = Torn
  Paths <- TwoPaths
  Builds <- TwoBuilds
  PathOf <- OneEach
  VersionOf <- SameVersion
  ThisHost <- TwoBuilds
  Names <- AllNames
  FilesOf <- TwoFileSets
  Props = props
  Xml = xml
  Procs = {a, b}
  Inodes = {k1, k2}
  Ops = {"install"}
  MayName <- MayOwn
  Flags = {}
  Killable = {}
  Missable <- NoBuilds
  XzDies = FALSE
INVARIANTS InstalledIsRecorded
