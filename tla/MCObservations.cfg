SPECIFICATION Spec
CONSTANTS
  SeriesTime = 3
  MaxBatches = 3
  UpdatesPage = 2
  SeriesLimit = 1
  RawSeconds = 1
  MaxBroken = 1
  RunTime = 8
  Bucket = 3
  RawRetention = 2
  Retention = 5
  PointsLimit = 4
  MilestoneNames = {m1, m2}
  Weights = {0, 1}
  Reporters = {u1, u2}
  ReportTime = 2
  MaxReports = 2
  Half = 1
  Nodes = {n1, n2, n3}
  Root = root
  Scattered <- MCScattered
  MaxRows = 5
  RowsPage = 2
  SourceNames = {m1, m2}
  Phases = {"train"}
  Units = {"s", "m"}
  Titles = {"Training"}
  MaxBatch = 2
  ObservedSources <- MCObserved
  TemplateDefinitions <- MCDefinitions
  Width = 3
  MaxResolves = 1
  BoardIds = {1, 2, 3}
  Labels = {"Dashboard", "a"}
  BoardRequests = {u1, u2}
  MaxBoards = 2
SYMMETRY Symmetry
INVARIANTS
  ChartIsComplete EverySampleIsSomewhere CompleteMeansReached
  PagesAreTheTable SamplesFitTheirMetric ResolvedIsWhole
  DashboardsAreConsistent
PROPERTIES
  ProgressNeverGoesBack MeaningIsStable NothingSilentlyChosen
CHECK_DEADLOCK FALSE
