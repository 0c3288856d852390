SPECIFICATION Spec
CONSTANTS
  p1 = p1  p2 = p2  a = a  b = b
  bin = bin  lib = lib  props = props  xml = xml
  None = None  NoTree = NoTree  Absent = Absent  Empty = Empty  Torn = Torn
  Paths <- OnePath
  Builds <- TwoBuilds
  PathOf <- BothOnOne
  VersionOf <- SameVersion
  ThisHost <- TwoBuilds
  Names <- AllNames
  FilesOf <- TwoFileSets
  Props = props
  Xml = xml
  Procs = {a}
  Inodes = {k1}
  Ops = {"install", "uninstall"}
  MayName <- MayAll
  Flags = {}
  Killable = {a}
  Missable <- NoBuilds
  XzDies = FALSE
PROPERTIES UninstallForgets
