SPECIFICATION Checked
CONSTANTS
  Callers = {"c1", "c2"}
  Natives = {"n1"}
  Posters = {"p1", "p2"}
  Initial = 1
  MaxPosts = 3
  NdkTable <- NdkDescriptors
  NdkActions <- SomeActions
  MaxActions = 2
  Functions = {"posix_spawn", "posix_spawnp"}
  NinjaTable <- NinjaDescriptors
  NinjaLists <- SomeLists
  NinjaPaths <- UpToTwo
  Askers = {"a", "b"}
  MayBeAndroid = {TRUE, FALSE}
  Verdicts <- OwnFileOnly
  Devices <- ThreeDevices
  Lengths = {0, 5}
  Chunk = 2
  Makers = {"m1", "m2"}
  Namers = {"q"}
  Names <- SixLetters
  TmpdirLengths = {4, 8, 35}
  MaxTries = 2
  Nodes = {"ugen0.2", "ugen0.3"}
  Units = {"u1", "u2"}
  Configs = {1, 2}
  MaxReplugs = 2
  NoUnit = "-"
  Runners = {"r1", "r2"}
  EarlierFiles <- SomeEarlier
  Assets = {"x"}
  Scanners = {"s", "t"}
  MaxBuilds = 2
INVARIANTS
  TokensConserved PostWakes CatalogIsScan
  NothingStays AnswersForEffective TransportWorks
  DescribesWhatIsPlugged AcceptedMergesLines
  TargetsAgree NetworkRead FallbacksHold PropertiesRead
  CatalogAnswers CurlOptions NamesItsRelease MovesKeepAll
PROPERTIES
  NdkIsSpawn NinjaIsSpawn TempFilesSafe EveryCallReturns
CHECK_DEADLOCK FALSE
