---------------------------- MODULE Observations ----------------------------
(***************************************************************************)
(* What an attempt reports about itself and what users see of it: series   *)
(* of samples, their averages, progress, tables, the catalog of sources,   *)
(* templates and dashboards.  These share no state the models could race   *)
(* on, so they are checked and proved about as one system: the initial     *)
(* state picks the component that moves.                                   *)
(***************************************************************************)
EXTENDS Integers, Sequences, FiniteSets

CONSTANTS
  SeriesTime, MaxBatches, UpdatesPage, SeriesLimit, RawSeconds, MaxBroken,  \* Series
  RunTime, Bucket, RawRetention, Retention, PointsLimit,     \* Telemetry
  MilestoneNames, Weights, Reporters, ReportTime, MaxReports, Half,  \* Progress
  Nodes, Root, Scattered, MaxRows, RowsPage,                 \* Tables
  SourceNames, Phases, Units, Titles, MaxBatch,           \* Observables
  ObservedSources, TemplateDefinitions, Width, MaxResolves,  \* Templates
  BoardIds, Labels, BoardRequests, MaxBoards                 \* Dashboards

(* The page opens when the job has begun.                                  *)
ASSUME SeriesAssumption ==
  /\ SeriesTime \in Nat \ {0} /\ MaxBatches \in Nat
  /\ UpdatesPage \in Nat /\ MaxBroken \in Nat
  /\ SeriesLimit \in Nat \ {0} /\ RawSeconds \in Nat \ {0}
(* What is too old to be kept is too old to be kept as it is               *)
(* (internal/config/config.go:105).                                        *)
ASSUME TelemetryAssumption ==
  /\ RunTime \in Nat /\ Bucket \in Nat \ {0}
  /\ RawRetention \in Nat /\ Retention \in Nat /\ RawRetention <= Retention
(* Finitely many milestones with weights of their own.                     *)
ASSUME ProgressAssumption ==
  /\ IsFiniteSet(MilestoneNames) /\ Weights \subseteq Nat
  /\ ReportTime \in Nat /\ MaxReports \in Nat /\ Half \in Nat \ {0}
(* The parent "" of a top node is the id of none; a sample multiplies the  *)
(* ids by an odd number, modulo 2^31 (internal/store/tables.go:131), which *)
(* gives no two of them the same place.                                    *)
ASSUME TablesAssumption ==
  /\ IsFiniteSet(Nodes) /\ Root \notin Nodes
  /\ MaxRows \in Nat /\ RowsPage \in Nat \ {0}
  /\ Scattered \in [1 .. MaxRows -> Nat]
  /\ \A i, j \in 1 .. MaxRows : Scattered[i] = Scattered[j] => i = j
ASSUME ObservablesAssumption == MaxBatch \in Nat
(* What validateDashboardTemplate lets through                             *)
(* (internal/httpapi/dashboard_templates.go:275).                          *)
ASSUME TemplatesAssumption ==
  /\ Width \in Nat /\ MaxResolves \in Nat /\ IsFiniteSet(ObservedSources)
  /\ \A definition \in TemplateDefinitions :
       /\ Len(definition) \in Nat /\ DOMAIN definition = 1 .. Len(definition)
       /\ \A w \in DOMAIN definition :
            /\ definition[w].size \in [columns : 1 .. Width, rows : Nat \ {0}]
            /\ definition[w].position \in [x : Nat, y : Nat]
            /\ \A s \in DOMAIN definition[w].slots :
                 LET slot == definition[w].slots[s] IN
                 /\ slot.min \in Nat /\ slot.max \in Nat /\ IsFiniteSet(slot.optional)
                 /\ {slot.onMissing, slot.onAmbiguous}
                      \subseteq {"", "error", "omit_slot", "omit_widget"}
(* Dashboards are numbered; 0 stands for none.                             *)
ASSUME BoardsAssumption == IsFiniteSet(BoardIds) /\ BoardIds \subseteq Nat \ {0}

VARIABLES
  part,   \* the component that moves
  seriesNow, updates, query, stream, shown, chart, faults,
  telemetryNow, raw, average, cutoff, stored,
  milestones, reports, progressThread, raced,
  subtype, rows, last, verdict, reader,
  declared, phase, metric, matrix, samples,
  template, catalog, result, resolves,
  board, active, used, dashboardsThread

SeriesOf == INSTANCE Series WITH
  MaxTime <- SeriesTime, Page <- UpdatesPage, Limit <- SeriesLimit,
  MaxFaults <- MaxBroken,
  now <- seriesNow
seriesVars == <<seriesNow, updates, query, stream, shown, chart, faults>>
Resources == INSTANCE Telemetry WITH
  MaxTime <- RunTime, Limit <- PointsLimit, now <- telemetryNow
telemetryVars == <<telemetryNow, raw, average, cutoff, stored>>
ProgressOf == INSTANCE Progress WITH
  Names <- MilestoneNames, Threads <- Reporters, MaxTime <- ReportTime,
  thread <- progressThread
progressVars == <<milestones, reports, progressThread, raced>>
TablesOf == INSTANCE Tables WITH
  Page <- RowsPage
tablesVars == <<subtype, rows, last, verdict, reader>>
SourcesOf == INSTANCE Observables WITH
  Names <- SourceNames
observablesVars == <<declared, phase, metric, matrix, samples>>
Resolving == INSTANCE Templates WITH
  Sources <- ObservedSources, Definitions <- TemplateDefinitions
templatesVars == <<template, catalog, result, resolves>>
Boards == INSTANCE Dashboards WITH
  Ids <- BoardIds, Threads <- BoardRequests, thread <- dashboardsThread
dashboardsVars == <<board, active, used, dashboardsThread>>

Init ==
  /\ part \in {"series", "telemetry", "progress", "tables", "observables",
      "templates", "dashboards"}
  /\ SeriesOf!Init /\ Resources!Init /\ ProgressOf!Init /\ TablesOf!Init
  /\ SourcesOf!Init /\ Resolving!Init /\ Boards!Init
  /\ part # "templates" => template = CHOOSE some \in TemplateDefinitions : TRUE

Next ==
  \/ part = "series" /\ SeriesOf!Next
     /\ UNCHANGED <<part, telemetryVars, progressVars, tablesVars,
         observablesVars, templatesVars, dashboardsVars>>
  \/ part = "telemetry" /\ Resources!Next
     /\ UNCHANGED <<part, seriesVars, progressVars, tablesVars,
         observablesVars, templatesVars, dashboardsVars>>
  \/ part = "progress" /\ ProgressOf!Next
     /\ UNCHANGED <<part, seriesVars, telemetryVars, tablesVars,
         observablesVars, templatesVars, dashboardsVars>>
  \/ part = "tables" /\ TablesOf!Next
     /\ UNCHANGED <<part, seriesVars, telemetryVars, progressVars,
         observablesVars, templatesVars, dashboardsVars>>
  \/ part = "observables" /\ SourcesOf!Next
     /\ UNCHANGED <<part, seriesVars, telemetryVars, progressVars,
         tablesVars, templatesVars, dashboardsVars>>
  \/ part = "templates" /\ Resolving!Next
     /\ UNCHANGED <<part, seriesVars, telemetryVars, progressVars,
         tablesVars, observablesVars, dashboardsVars>>
  \/ part = "dashboards" /\ Boards!Next
     /\ UNCHANGED <<part, seriesVars, telemetryVars, progressVars,
         tablesVars, observablesVars, templatesVars>>

vars == <<part, seriesVars, telemetryVars, progressVars, tablesVars,
  observablesVars, templatesVars, dashboardsVars>>
Spec == Init /\ [][Next]_vars

-----------------------------------------------------------------------------
(* Properties: of each component its types and the conjunction of what its *)
(* module states.                                                          *)

(* A chart has no sample twice; and of what its stream has passed it draws *)
(* the window and all behind the snapshot, but for what Limit newer points *)
(* have replaced, a snapshot the page says was cut, and windows read from  *)
(* compacted rows.                                                         *)
ChartIsComplete ==
  /\ SeriesOf!IInv
  /\ SeriesOf!NothingTwice
  /\ SeriesOf!NothingInWindowMissed

(* A young sample is kept as itself, an old one has an average of its      *)
(* bucket, and none is in an average and beside it.                        *)
EverySampleIsSomewhere ==
  /\ Resources!IInv
  /\ Resources!NoSampleCountedTwice
  /\ Resources!RecentIsRaw
  /\ Resources!NoGap

(* 100% is shown when every milestone was reached, or when the only one    *)
(* missing is that of the newest segment, which is complete itself; and,   *)
(* but for a race, reports are of milestones there are.                    *)
CompleteMeansReached ==
  /\ ProgressOf!IInv
  /\ ProgressOf!CompleteMeansReached
  /\ ProgressOf!ReportedIsDefinedUnlessRaced

(* A late report does not take the place of a newer one. *)
ProgressNeverGoesBack == ProgressOf!ProgressNeverGoesBack

(* The pages of a reader together are the table, each row once, and a      *)
(* hierarchy is taken if and only if it has no cycle.                      *)
PagesAreTheTable ==
  /\ TablesOf!IInv
  /\ TablesOf!HierarchyTakenIffForest
  /\ TablesOf!NoRowTwice
  /\ TablesOf!PagesAreComplete

(* No sample has another unit than its metric shows, and a declaration can *)
(* be repeated at any time.                                                *)
SamplesFitTheirMetric ==
  /\ SourcesOf!IInv
  /\ SourcesOf!SamplesFitTheirMetric
  /\ SourcesOf!RetriesAreAccepted

(* The catalog never changes the unit of a metric. *)
MeaningIsStable == SourcesOf!MeaningIsStable

(* No two widgets of a resolved template share a cell, and a compatible    *)
(* result has every widget with its sources.                               *)
ResolvedIsWhole ==
  /\ Resolving!TypeOK
  /\ Resolving!LayoutIsLegal
  /\ Resolving!CompatibleMeansWhole

(* No source is chosen over another that fits as well. *)
NothingSilentlyChosen == Resolving!NothingSilentlyChosen

(* A job that ever had a dashboard has one, exactly one of them is the     *)
(* default, the active one is among them, and no two have the same place.  *)
DashboardsAreConsistent ==
  /\ Boards!IInv
  /\ Boards!OneDefault
  /\ Boards!ActiveIsThere
  /\ Boards!OneIsKept
  /\ Boards!OrderIsTotal

======================================================================================================================================================
