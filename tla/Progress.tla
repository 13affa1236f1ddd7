------------------------------ MODULE Progress ------------------------------
(***************************************************************************)
(* The progress a job reports through the SDK: sdkMilestones, sdkProgress  *)
(* and sdkMilestoneReached in internal/httpapi/rich_observations.go over   *)
(* DefineMilestones, AppendProgress and ProgressState in                   *)
(* internal/store/observations.go.  Every handler reads the state, decides *)
(* and then writes in a transaction of its own; threads of a job report at *)
(* once, with stamps of their own.                                         *)
(***************************************************************************)
EXTENDS Integers, Sequences, FiniteSets, FiniteSetsExt

CONSTANTS
  Names,      \* milestones
  Weights,    \* of a milestone, 0 for none
  Threads,    \* threads of the job that report
  MaxTime,    \* bound: stamps of a report
  MaxReports, \* bound: rows of job_progress_observations
  Half        \* segments are reported in steps of 1/Half

VARIABLES
  milestones, \* job_milestone_definitions: the weight by name, 0 for none
  reports,    \* job_progress_observations, in the order of their ids
  thread,     \* the request of a thread, from its check to its write
  raced       \* history: a report was stored or on its way when milestones were replaced
vars == <<milestones, reports, thread, raced>>

Kinds == {"simple", "segment", "milestone"}
NoName == "-"
Report == [kind : Kinds, name : Names \cup {NoName}, value : 0 .. Half, at : 1 .. MaxTime]
Definitions == UNION {[some -> Weights] : some \in SUBSET Names}

Idle == [at |-> "idle"]
TypeOK ==
  /\ milestones \in Definitions
  /\ reports \in Seq(Report) /\ Len(reports) <= MaxReports
  /\ thread \in [Threads -> {Idle} \cup [at : {"define"}, items : Definitions, clean : BOOLEAN]
                                   \cup [at : {"report"}, report : Report]]
  /\ raced \in BOOLEAN

NoMilestones == [n \in {} |-> 0]
Init ==
  /\ milestones = NoMilestones /\ reports = <<>> /\ raced = FALSE
  /\ thread = [t \in Threads |-> Idle]

-----------------------------------------------------------------------------
(* ProgressState: the reports in the order of their stamps. *)

Later_ByArrival(i, j) == i > j
Later(i, j) == reports[i].at > reports[j].at \/ (reports[i].at = reports[j].at /\ i > j)
Of(kind) == {i \in DOMAIN reports : reports[i].kind = kind}
Newest(kind) == CHOOSE i \in Of(kind) : \A j \in Of(kind) \ {i} : Later(i, j)
Reached == {reports[i].name : i \in Of("milestone")}

(* calculateGlobalProgress, as a fraction: what is done times Half, and    *)
(* all of it times Half.                                                   *)
Weight(some) == MapThenSumSet(LAMBDA n : milestones[n], some)
OfCurrent_Always ==
  IF Of("segment") = {} \/ reports[Newest("segment")].name \notin DOMAIN milestones THEN 0
  ELSE milestones[reports[Newest("segment")].name] * reports[Newest("segment")].value
OfCurrent ==
  IF Of("segment") = {} THEN 0
  ELSE LET current == reports[Newest("segment")] IN
       IF current.name \in Reached \/ current.name \notin DOMAIN milestones THEN 0
       ELSE milestones[current.name] * current.value
HasGlobal == milestones # NoMilestones /\ \A n \in DOMAIN milestones : milestones[n] > 0
All == Half * Weight(DOMAIN milestones)
Done == Min({All, Half * Weight(Reached \cap DOMAIN milestones) + OfCurrent})

-----------------------------------------------------------------------------
(* sdkMilestones: refused once there is progress, then all are replaced.   *)
NothingReported_Unasked == TRUE
NothingReported == reports = <<>>
CheckMilestones(t, items) ==
  /\ thread[t] = Idle /\ items # NoMilestones
  /\ NothingReported
  /\ thread' = [thread EXCEPT ![t] = [at |-> "define", items |-> items, clean |-> reports = <<>>]]
  /\ UNCHANGED <<milestones, reports, raced>>
DefineMilestones(t) ==
  /\ thread[t].at = "define"
  /\ milestones' = thread[t].items
  /\ raced' = (raced \/ (thread[t].clean /\ (reports # <<>> \/ \E u \in Threads : thread[u].at = "report")))
  /\ thread' = [thread EXCEPT ![t] = Idle]
  /\ UNCHANGED reports

(* sdkProgress and sdkMilestoneReached: only of a milestone that is known. *)
CheckReport(t, r) ==
  /\ thread[t] = Idle /\ Len(reports) < MaxReports
  /\ r.kind = "simple" <=> r.name = NoName
  /\ r.kind = "milestone" => r.value = 0
  /\ r.kind = "simple" \/ r.name \in DOMAIN milestones
  /\ thread' = [thread EXCEPT ![t] = [at |-> "report", report |-> r]]
  /\ UNCHANGED <<milestones, reports, raced>>
AppendProgress(t) ==
  /\ thread[t].at = "report" /\ Len(reports) < MaxReports
  /\ reports' = Append(reports, thread[t].report)
  /\ thread' = [thread EXCEPT ![t] = Idle]
  /\ UNCHANGED <<milestones, raced>>

(* The transaction fails, or the caller gives up. *)
Fails(t) ==
  /\ thread[t] # Idle
  /\ thread' = [thread EXCEPT ![t] = Idle] /\ UNCHANGED <<milestones, reports, raced>>

Next == \E t \in Threads :
  \/ \E items \in Definitions : CheckMilestones(t, items)
  \/ \E r \in Report : CheckReport(t, r)
  \/ DefineMilestones(t) \/ AppendProgress(t) \/ Fails(t)
Spec == Init /\ [][Next]_vars

-----------------------------------------------------------------------------
(* Properties. *)

(* A page that shows 100% has every milestone reached, but for one whose   *)
(* newest segment is complete: no weight is counted twice, though a        *)
(* milestone is reported in parts, as a whole, again and late.             *)
CompleteMeansReached ==
  HasGlobal /\ Done = All =>
    LET missing == DOMAIN milestones \ Reached IN
    \/ missing = {}
    \/ /\ Of("segment") # {} /\ missing = {reports[Newest("segment")].name}
       /\ reports[Newest("segment")].value = Half

(* Reports arrive in any order: one with an older stamp does not take the  *)
(* place of a newer one.                                                   *)
ProgressNeverGoesBack ==
  [][\A kind \in {"simple", "segment"} : Of(kind) # {} =>
       reports'[Newest(kind)'].at >= reports[Newest(kind)].at]_vars

(* A report is of a milestone there is, unless a thread replaced the       *)
(* milestones after another's had been checked: "Milestones cannot be      *)
(* redefined after progress has been reported".                            *)
ReportedIsDefinedUnlessRaced ==
  \A i \in DOMAIN reports :
    reports[i].kind # "simple" => reports[i].name \in DOMAIN milestones \/ raced

(* What makes it hold from step to step: the threads on their way.         *)
IInv ==
  /\ TypeOK /\ ReportedIsDefinedUnlessRaced
  /\ \A t \in Threads :
       /\ thread[t].at = "define" => thread[t].clean
       /\ thread[t].at = "report" /\ thread[t].report.kind # "simple" =>
            thread[t].report.name \in DOMAIN milestones \/ raced

=============================================================================
