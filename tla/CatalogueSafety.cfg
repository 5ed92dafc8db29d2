SPECIFICATION MCSpec
CONSTANTS
  curated = curated
  listed = listed
  firm = firm
  demo = demo
  None = None
  Entries = {curated, listed, firm, demo}
  Kind <- MCKind
  Card <- MCCard
  HostOf <- MCHost
  Landing <- MCLanding
  Home <- MCHome
  Contact <- MCContact
  OnTopic = {firm}
  AtRoot = {}
  RobotsStrict = FALSE
  Texts <- MCTexts
  Sources = {"seed", "registry", "market"}
  Feed <- MCFeed
  Tasks = {"runall", "crawlall"}
  Plan <- MCPlan
  Limit <- MCLimit
  RunAll = {"runall"}
  Workers = {w1, w2}
  Similar <- MCSimilar
  SlugOf <- MCSlugOf
  Demo = {demo}
  MaxRetries = 1
  MaxSlugs = 4
  MaxFaults = 1
  Documents <- MCDocuments
  Absent = Absent
  Dumps <- MCDumps
  Limits = {1, 2, 3, 4}
  Sizes = {1, 2, 3}
  Root = Root
  NoHost = NoHost
  MaxImports = 2
  acme = acme  beta = beta  chef = chef  it = it  web = web  law = law
  RU = RU  word = word  typo = typo  cron = cron  operator = operator
  CategorySlugs = {it, web, law}
  Places = {RU}
  ParentOf <- MCParentOf
  NoValue = NoValue
  Blank = Blank
  Providers = {acme, beta, chef}
  RowAt <- MCRowAt
  CreatedAt <- MCCreatedAt
  Reindexers = {cron, operator}
  BatchSize = 2
  MaxTasks = 2
  Queries <- MCQueries
INVARIANTS
  LonelyRunNeverConflicts
  AbsorbedStays
  OkMeansAll
  SeedIsWhole
  ListsResolve
  CompaniesApart
  RegistryResolves
  BatchesAreTheDump
  IndexCatchesUp
  AnswerKeepsHits
  PageFilled
  FacetsPredict
PROPERTIES
  NothingForgotten
SYMMETRY WorkerSymmetry
CHECK_DEADLOCK FALSE
