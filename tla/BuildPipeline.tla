---------------------------- MODULE BuildPipeline ---------------------------
(***************************************************************************)
(* Source builds from the upload to the image a job runs: the build's      *)
(* lifecycle and Railpack analysis (internal/httpapi/builds.go,            *)
(* internal/store/builds.go), the assignment a builder claims with a lease *)
(* (build_assignments.go), the builder process (internal/builder), the     *)
(* publication of the image archive (putBuildArtifact, StoreBuildArtifact, *)
(* SaveManagedArtifact), the jobs that reference it and the collector.     *)
(*                                                                         *)
(* A database transaction is one step.  What a handler does between two    *)
(* transactions or file operations is a step of its own, so that handlers  *)
(* interleave: an upload goes through authorisation, a look at the file,   *)
(* the rename, the row, and the removal of the file when the row is        *)
(* refused.  The bytes of an archive are named by the digest of the image  *)
(* they hold.                                                              *)
(***************************************************************************)
EXTENDS Integers, FiniteSets

CONSTANTS
  Builds, Builders, Digests, Jobs,
  None,
  MaxCancels,  \* bound: cancellation requests
  MaxFaults    \* bound: deaths of the server or a builder, lost replies,
               \* expired leases, logs at their limit

ASSUME NamesAssumption == None \notin Builds \cup Builders \cup Digests
ASSUME BoundsAssumption == MaxCancels \in Nat /\ MaxFaults \in Nat

VARIABLES
  build,      \* rows of builds: mode, status and oci_digest
  analysis,   \* builds whose creation request is analysing the source
  plans,      \* builds with a row in build_plans
  asg,        \* rows of build_assignments
  row,        \* rows of managed_build_artifacts: digest and archive hash
  file,       \* artifact/image.tar of each build
  doomed,     \* builds whose files a collector or a deletion will remove
  job,        \* jobs that reference a managed image
  cancelling, \* cancellation requests and the build status they have read
  uploads,    \* putBuildArtifact requests in flight
  builder,    \* the builder processes
  full,       \* builds whose log has reached its limit
  cancels, faults,
  raced       \* history: builds of which two uploads were in flight at once,
              \* or one ended between the rename and the row, or whose image
              \* was collected before they had a result

server == <<build, analysis, plans, asg, row, file, doomed, job, full>>
vars == <<server, cancelling, uploads, builder, cancels, faults, raced>>

BuildStatus == {"CREATED", "ANALYZING", "BUILDING", "SUCCEEDED", "FAILED", "CANCELLED"}
Results == {"SUCCEEDED", "FAILED", "CANCELLED"}
Allowed == [s \in BuildStatus |->
  CASE s = "CREATED"   -> {"ANALYZING", "BUILDING", "FAILED", "CANCELLED"}
    [] s = "ANALYZING" -> {"BUILDING", "FAILED", "CANCELLED"}
    [] s = "BUILDING"  -> Results
    [] OTHER           -> {}]
CanBuildTransition_CancelAny(from, to) == from = to \/ to \in Allowed[from] \cup {"CANCELLED"}
CanBuildTransition(from, to) == from = to \/ to \in Allowed[from]

ASSUME StatusAssumption == None \notin BuildStatus \cup {"PENDING", "RUNNING"}

NoAssignment == [status |-> None, cancel |-> FALSE, builder |-> None, lease |-> FALSE]
NoRow == [digest |-> None, sha |-> None]
Free == [at |-> "idle", build |-> None, digest |-> None, status |-> None, told |-> FALSE]
Exists(b) == build[b].status \in BuildStatus
Railpack(b) == build[b].mode = "RAILPACK"

BuildRow == [mode : {"RAILPACK", "DOCKERFILE"},
             status : BuildStatus \cup {"absent", "deleted"}, oci : Digests \cup {None}]
Assignment == [status : {None, "PENDING", "RUNNING"} \cup Results, cancel : BOOLEAN,
               builder : Builders \cup {None}, lease : BOOLEAN]
ArtifactRow == [digest : Digests \cup {None}, sha : Digests \cup {None}]
Upload == [build : Builds, by : Builders, digest : Digests,
           at : {"look", "write", "save", "undo"},
           sha : Digests \cup {None}, created : BOOLEAN]
Builder == [at : {"idle", "solve", "publish", "wait", "flush", "finish"},
            build : Builds \cup {None}, digest : Digests \cup {None},
            status : Results \cup {None}, told : BOOLEAN]

TypeOK ==
  /\ build \in [Builds -> BuildRow]
  /\ analysis \in [Builds -> {"no", "created", "analyzing"}]
  /\ plans \subseteq Builds /\ doomed \subseteq Builds /\ full \subseteq Builds
  /\ asg \in [Builds -> Assignment]
  /\ row \in [Builds -> ArtifactRow]
  /\ file \in [Builds -> Digests \cup {None}]
  /\ job \in [Jobs -> [status : {"absent", "live", "DELETED"}, build : Builds \cup {None}]]
  /\ cancelling \in [Builds -> BuildStatus \cup {None}]
  /\ uploads \subseteq Upload
  /\ builder \in [Builders -> Builder]
  /\ cancels \in 0 .. MaxCancels /\ faults \in 0 .. MaxFaults
  /\ raced \subseteq Builds

Init ==
  /\ build = [b \in Builds |->
                [mode |-> "DOCKERFILE", status |-> "absent", oci |-> None]]
  /\ analysis = [b \in Builds |-> "no"]
  /\ plans = {} /\ doomed = {} /\ full = {} /\ raced = {}
  /\ asg = [b \in Builds |-> NoAssignment]
  /\ row = [b \in Builds |-> NoRow]
  /\ file = [b \in Builds |-> None]
  /\ job = [j \in Jobs |-> [status |-> "absent", build |-> None]]
  /\ cancelling = [b \in Builds |-> None]
  /\ uploads = {}
  /\ builder = [d \in Builders |-> Free]
  /\ cancels = 0 /\ faults = 0

Fault == faults < MaxFaults /\ faults' = faults + 1

-----------------------------------------------------------------------------
(* Creation and analysis, in one request that outlives its client.         *)

(* UpdateBuildStatus: refused where the transition is not allowed. *)
CanUpdate(b, s) == Exists(b) /\ CanBuildTransition(build[b].status, s)

(* The source is stored first, then the row. *)
CreateBuild(b) ==
  /\ build[b].status = "absent"
  /\ \E m \in {"RAILPACK", "DOCKERFILE"} :
       build' = [build EXCEPT ![b].status = "CREATED", ![b].mode = m]
  /\ analysis' = [analysis EXCEPT ![b] = IF Railpack(b)' THEN "created" ELSE "no"]
  /\ UNCHANGED <<plans, asg, row, file, doomed, job, full,
                 cancelling, uploads, builder, cancels, faults, raced>>

AnalysisStarts(b) ==
  /\ analysis[b] = "created"
  /\ \/ /\ CanUpdate(b, "ANALYZING")
        /\ build' = [build EXCEPT ![b].status = "ANALYZING"]
        /\ analysis' = [analysis EXCEPT ![b] = "analyzing"]
     \/ /\ ~CanUpdate(b, "ANALYZING")
        /\ analysis' = [analysis EXCEPT ![b] = "no"]
        /\ UNCHANGED build
  /\ UNCHANGED <<plans, asg, row, file, doomed, job, full,
                 cancelling, uploads, builder, cancels, faults, raced>>

(* Railpack, or the expansion of the source, fails; also where the plan    *)
(* is refused, which leaves a build that is no longer ANALYZING as it is.  *)
AnalysisFails(b) ==
  /\ analysis[b] = "analyzing"
  /\ build' = IF CanUpdate(b, "FAILED") THEN [build EXCEPT ![b].status = "FAILED"] ELSE build
  /\ analysis' = [analysis EXCEPT ![b] = "no"]
  /\ UNCHANGED <<plans, asg, row, file, doomed, job, full,
                 cancelling, uploads, builder, cancels, faults, raced>>

SaveBuildPlan(b) == build[b].status = "ANALYZING"

AnalysisSucceeds(b) ==
  /\ analysis[b] = "analyzing" /\ SaveBuildPlan(b)
  /\ plans' = plans \cup {b}
  /\ analysis' = [analysis EXCEPT ![b] = "no"]
  /\ UNCHANGED <<build, asg, row, file, doomed, job, full,
                 cancelling, uploads, builder, cancels, faults, raced>>

-----------------------------------------------------------------------------
(* The user confirms, cancels and deletes. *)

(* QueueBuild: a Railpack build needs its plan.  One assignment per build; *)
(* confirming again finds it and changes nothing.                          *)
QueueBuild_WithoutPlan(b) ==
  build[b].status = IF Railpack(b) THEN "ANALYZING" ELSE "CREATED"
QueueBuild(b) ==
  /\ build[b].status = IF Railpack(b) THEN "ANALYZING" ELSE "CREATED"
  /\ Railpack(b) => b \in plans

ConfirmBuild(b) ==
  /\ asg[b] = NoAssignment /\ QueueBuild(b)
  /\ build' = [build EXCEPT ![b].status = "BUILDING"]
  /\ asg' = [asg EXCEPT ![b].status = "PENDING"]
  /\ UNCHANGED <<analysis, plans, row, file, doomed, job, full,
                 cancelling, uploads, builder, cancels, faults, raced>>

(* cancelBuild reads the build and chooses by its status. *)
BeginCancel(b) ==
  /\ Exists(b) /\ cancelling[b] = None /\ cancels < MaxCancels
  /\ cancelling' = [cancelling EXCEPT ![b] = build[b].status]
  /\ cancels' = cancels + 1
  /\ UNCHANGED <<server, uploads, builder, faults, raced>>

(* RequestBuildCancellation. *)
RequestBuildCancellation(b) ==
  /\ build' = [build EXCEPT ![b].status = "CANCELLED"]
  /\ asg' = [asg EXCEPT ![b].cancel = TRUE,
                        ![b].status = IF @ = "PENDING" THEN "CANCELLED" ELSE @]

CancelBuilding(b) ==
  /\ cancelling[b] = "BUILDING"
  /\ cancelling' = [cancelling EXCEPT ![b] = None]
  /\ IF build[b].status = "BUILDING" /\ asg[b].status \in {"PENDING", "RUNNING"}
     THEN RequestBuildCancellation(b) ELSE UNCHANGED <<build, asg>>
  /\ UNCHANGED <<analysis, plans, row, file, doomed, job, full,
                 uploads, builder, cancels, faults, raced>>

(* Any other status: UpdateBuildStatus, which also takes a build that has  *)
(* been confirmed since, and leaves its assignment as it is.               *)
CancelOther(b) ==
  /\ cancelling[b] \notin {None, "BUILDING"}
  /\ cancelling' = [cancelling EXCEPT ![b] = None]
  /\ build' = IF CanUpdate(b, "CANCELLED")
              THEN [build EXCEPT ![b].status = "CANCELLED"] ELSE build
  /\ UNCHANGED <<analysis, plans, asg, row, file, doomed, job, full,
                 uploads, builder, cancels, faults, raced>>

Refers(j, b) == job[j].status = "live" /\ job[j].build = b
Referenced(b) == \E j \in Jobs : Refers(j, b)

(* DeleteBuild: the row and, by cascade, all that belongs to it; then the  *)
(* directory.                                                              *)
DeleteBuild_Referenced(b) == build[b].status \notin {"ANALYZING", "BUILDING"}
DeleteBuild(b) ==
  /\ build[b].status \notin {"ANALYZING", "BUILDING"}
  /\ build[b].oci # None => ~Referenced(b)

DeleteBuildRows(b) ==
  /\ Exists(b) /\ DeleteBuild(b)
  /\ build' = [build EXCEPT ![b].status = "deleted", ![b].oci = None]
  /\ plans' = plans \ {b}
  /\ asg' = [asg EXCEPT ![b] = NoAssignment]
  /\ row' = [row EXCEPT ![b] = NoRow]
  /\ doomed' = doomed \cup {b}
  /\ UNCHANGED <<analysis, file, job, full,
                 cancelling, uploads, builder, cancels, faults, raced>>

RemoveFiles(b) ==
  /\ b \in doomed
  /\ file' = [file EXCEPT ![b] = None]
  /\ doomed' = doomed \ {b}
  /\ UNCHANGED <<build, analysis, plans, asg, row, job, full,
                 cancelling, uploads, builder, cancels, faults, raced>>

-----------------------------------------------------------------------------
(* The jobs that run the image, and the collector.                         *)

CreateJobWithManagedArtifact(j, b) ==
  /\ job[j].status = "absent"
  /\ build[b].status = "SUCCEEDED" /\ row[b].digest # None
  /\ job' = [job EXCEPT ![j] = [status |-> "live", build |-> b]]
  /\ UNCHANGED <<build, analysis, plans, asg, row, file, doomed, full,
                 cancelling, uploads, builder, cancels, faults, raced>>

(* A job that is DELETED can be neither inspected nor run again. *)
DeleteJob(j) ==
  /\ job[j].status = "live"
  /\ job' = [job EXCEPT ![j].status = "DELETED"]
  /\ UNCHANGED <<build, analysis, plans, asg, row, file, doomed, full,
                 cancelling, uploads, builder, cancels, faults, raced>>

(* GarbageCollectManagedArtifacts: rows not referenced within the          *)
(* retention, in one transaction; their archives afterwards.  The build    *)
(* need not have ended: its builder may have been away for that long.      *)
Collectable(b) == row[b] # NoRow /\ ~Referenced(b)

Collect(b) ==
  /\ Collectable(b)
  /\ row' = [row EXCEPT ![b] = NoRow]
  /\ doomed' = doomed \cup {b}
  /\ raced' = IF build[b].status = "BUILDING" THEN raced \cup {b} ELSE raced
  /\ UNCHANGED <<build, analysis, plans, asg, file, job, full,
                 cancelling, uploads, builder, cancels, faults>>

-----------------------------------------------------------------------------
(* The builder: one build at a time, and one goroutine each for the build, *)
(* the lease and the log.                                                  *)

(* NextBuildWork: its own work first, then any that is pending or whose    *)
(* lease has run out.                                                      *)
Claimable(d, b) ==
  /\ ~asg[b].cancel
  /\ \/ asg[b].status = "PENDING"
     \/ asg[b].status = "RUNNING" /\ (asg[b].builder = d \/ ~asg[b].lease)
Own(d, b) == Claimable(d, b) /\ asg[b].builder = d

Poll(d, b) ==
  /\ builder[d].at = "idle"
  /\ Claimable(d, b) /\ ((\E c \in Builds : Own(d, c)) => Own(d, b))
  /\ asg' = [asg EXCEPT ![b] =
       [status |-> "RUNNING", cancel |-> FALSE, builder |-> d, lease |-> TRUE]]
  /\ builder' = [builder EXCEPT ![d] = [Free EXCEPT !.at = "solve", !.build = b]]
  /\ UNCHANGED <<build, analysis, plans, row, file, doomed, job, full,
                 cancelling, uploads, cancels, faults, raced>>

(* The server's answer does not arrive: the lease is held by a builder     *)
(* that will ask again.                                                    *)
PollLost(d, b) ==
  /\ builder[d].at = "idle" /\ Fault
  /\ Claimable(d, b) /\ ((\E c \in Builds : Own(d, c)) => Own(d, b))
  /\ asg' = [asg EXCEPT ![b] =
       [status |-> "RUNNING", cancel |-> FALSE, builder |-> d, lease |-> TRUE]]
  /\ UNCHANGED <<build, analysis, plans, row, file, doomed, job, full,
                 cancelling, uploads, builder, cancels, raced>>

Works(d) == builder[d].at \in {"solve", "publish", "wait"}
Holds(d) == asg[builder[d].build].builder = d

(* heartbeatLoop, while the build runs: renewed only while it is RUNNING;  *)
(* the answer carries the cancellation, which ends buildctl.  A publication *)
(* that has begun is not interrupted.                                      *)
Heartbeat(d) ==
  LET b == builder[d].build IN
  /\ Works(d) /\ ~builder[d].told /\ Holds(d) /\ asg[b].status = "RUNNING"
  /\ asg' = [asg EXCEPT ![b].lease = TRUE]
  /\ builder' = IF ~asg[b].cancel THEN builder
                ELSE [builder EXCEPT ![d].told = TRUE,
                        ![d].at = IF @ = "solve" THEN "flush" ELSE @,
                        ![d].status = IF builder[d].at = "solve" THEN "CANCELLED" ELSE @]
  /\ UNCHANGED <<build, analysis, plans, row, file, doomed, job, full,
                 cancelling, uploads, cancels, faults, raced>>

LeaseExpires(b) ==
  /\ asg[b].status = "RUNNING" /\ asg[b].lease /\ Fault
  /\ asg' = [asg EXCEPT ![b].lease = FALSE]
  /\ UNCHANGED <<build, analysis, plans, row, file, doomed, job, full,
                 cancelling, uploads, builder, cancels, raced>>

Goes(d, at, status) == builder' = [builder EXCEPT ![d].at = at, ![d].status = status]
Failure_Unset(d) == builder[d].status
Failure(d) == IF builder[d].told THEN "CANCELLED" ELSE "FAILED"

(* The source, its verification and buildctl, within the build timeout.    *)
Solved(d) ==
  /\ builder[d].at = "solve"
  /\ \/ \E g \in Digests :
          builder' = [builder EXCEPT ![d].at = "publish", ![d].digest = g]
     \/ Goes(d, "flush", "FAILED")
  /\ UNCHANGED <<server, cancelling, uploads, cancels, faults, raced>>

(* uploadLogs drains the log before the result is reported, and repeats a  *)
(* chunk the server refuses.                                               *)
FlushLog(d) ==
  LET b == builder[d].build IN
  /\ builder[d].at = "flush" /\ Holds(d) /\ b \notin full
  /\ Goes(d, "finish", builder[d].status)
  /\ UNCHANGED <<server, cancelling, uploads, cancels, faults, raced>>

LogLimit(b) ==
  /\ b \notin full /\ asg[b].status = "RUNNING" /\ Fault
  /\ full' = full \cup {b}
  /\ UNCHANGED <<build, analysis, plans, asg, row, file, doomed, job,
                 cancelling, uploads, builder, cancels, raced>>

(* CompleteBuildAssignment, repeated by finish until it is accepted.       *)
Result_Reported(b, s) == s
Result(b, s) == IF asg[b].cancel \/ build[b].status = "CANCELLED" THEN "CANCELLED" ELSE s

Complete(b, s, g) == s = "SUCCEEDED" => row[b] # NoRow /\ row[b].digest = g

Finish(d) ==
  LET b == builder[d].build
      s == Result(b, builder[d].status) IN
  /\ builder[d].at = "finish" /\ Holds(d)
  /\ asg[b].status \in {"RUNNING", builder[d].status}
  /\ Complete(b, s, builder[d].digest)
  /\ build' = IF build[b].status # "BUILDING" THEN build
              ELSE [build EXCEPT ![b].status = s,
                     ![b].oci = IF s = "SUCCEEDED" THEN builder[d].digest ELSE None]
  /\ asg' = [asg EXCEPT ![b].status = s, ![b].lease = FALSE]
  /\ \/ builder' = [builder EXCEPT ![d] = Free] /\ UNCHANGED faults
     \/ Fault /\ UNCHANGED builder
  /\ UNCHANGED <<analysis, plans, row, file, doomed, job, full,
                 cancelling, uploads, cancels, raced>>

-----------------------------------------------------------------------------
(* putBuildArtifact. *)

Leave(u) == uploads' = uploads \ {u}
Becomes(u, v) == uploads' = (uploads \ {u}) \cup {v}
Others(u) == {v \in uploads : v.build = u.build /\ v # u}

(* authorizeBuildAssignment; refused, the build has failed. *)
Publish(d) ==
  LET b == builder[d].build
      u == [build |-> b, by |-> d, digest |-> builder[d].digest, at |-> "look",
            sha |-> None, created |-> FALSE] IN
  /\ builder[d].at = "publish"
  /\ \/ /\ Holds(d) /\ u \notin uploads
        /\ uploads' = uploads \cup {u}
        /\ raced' = IF Others(u) = {} THEN raced ELSE raced \cup {b}
        /\ Goes(d, "wait", None)
     \/ ~Holds(d) /\ Goes(d, "flush", Failure(d)) /\ UNCHANGED <<uploads, raced>>
  /\ UNCHANGED <<server, cancelling, cancels, faults>>

(* StoreBuildArtifact: an archive that is there already is kept, and its   *)
(* hash taken for the one received.                                        *)
Look(u) ==
  /\ u.at = "look"
  /\ Becomes(u, IF file[u.build] = None THEN [u EXCEPT !.at = "write"]
                ELSE [u EXCEPT !.at = "save", !.sha = file[u.build]])
  /\ UNCHANGED <<server, cancelling, builder, cancels, faults, raced>>

(* The archive is renamed into place, whatever is there by now. *)
Write(u) ==
  /\ u.at = "write"
  /\ file' = [file EXCEPT ![u.build] = u.digest]
  /\ Becomes(u, [u EXCEPT !.at = "save", !.sha = u.digest, !.created = TRUE])
  /\ UNCHANGED <<build, analysis, plans, asg, row, doomed, job, full,
                 cancelling, builder, cancels, faults, raced>>

(* The builder that is still waiting for this request gets the answer. *)
Answer(u, at, status) ==
  builder' = IF builder[u.by].at = "wait" /\ builder[u.by].build = u.build
                /\ builder[u.by].digest = u.digest
             THEN [builder EXCEPT ![u.by].at = at, ![u.by].status = status]
             ELSE builder
Fails(u) == Answer(u, "flush", Failure(u.by))

(* SaveManagedArtifact: a row for a build that is BUILDING, or the same    *)
(* row again.                                                              *)
SaveManagedArtifact(u) ==
  /\ build[u.build].status = "BUILDING"
  /\ row[u.build] \in {NoRow, [digest |-> u.digest, sha |-> u.sha]}

Save(u) ==
  /\ u.at = "save"
  /\ \/ /\ SaveManagedArtifact(u)
        /\ row' = [row EXCEPT ![u.build] = [digest |-> u.digest, sha |-> u.sha]]
        /\ Leave(u) /\ Answer(u, "flush", "SUCCEEDED")
     \/ /\ ~SaveManagedArtifact(u)
        /\ IF u.created THEN Becomes(u, [u EXCEPT !.at = "undo"]) /\ UNCHANGED builder
                        ELSE Leave(u) /\ Fails(u)
        /\ UNCHANGED row
  /\ UNCHANGED <<build, analysis, plans, asg, file, doomed, job, full,
                 cancelling, cancels, faults, raced>>

(* DeleteBuildArtifact, of an archive this request has written. *)
Undo(u) ==
  /\ u.at = "undo"
  /\ file' = [file EXCEPT ![u.build] = None]
  /\ Leave(u) /\ Fails(u)
  /\ UNCHANGED <<build, analysis, plans, asg, row, doomed, job, full,
                 cancelling, cancels, faults, raced>>

(* Too large, a broken connection, a full disk; and once the archive is in *)
(* place, a request whose client has gone: its row is not written.         *)
UploadFails(u) ==
  /\ u.at # "undo" /\ Fault
  /\ IF u.created THEN Becomes(u, [u EXCEPT !.at = "undo"]) /\ UNCHANGED builder
                  ELSE Leave(u) /\ Fails(u)
  /\ UNCHANGED <<server, cancelling, cancels, raced>>

-----------------------------------------------------------------------------
(* Deaths.  A builder that starts again asks for its own work.  With the   *)
(* server end its requests, wherever they are.                             *)

BuilderDies(d) ==
  /\ builder[d].at # "idle" /\ Fault
  /\ builder' = [builder EXCEPT ![d] = Free]
  /\ UNCHANGED <<server, cancelling, uploads, cancels, raced>>

ServerDies ==
  /\ Fault
  /\ analysis' = [b \in Builds |-> "no"]
  /\ cancelling' = [b \in Builds |-> None]
  /\ uploads' = {} /\ doomed' = {}
  /\ raced' = raced \cup {b \in Builds : \E u \in uploads : u.build = b /\ u.created}
  /\ builder' = [d \in Builders |->
       IF builder[d].at = "wait"
       THEN [builder[d] EXCEPT !.at = "flush", !.status = Failure(d)] ELSE builder[d]]
  /\ UNCHANGED <<build, plans, asg, row, file, job, full, cancels>>

-----------------------------------------------------------------------------

Creation(b) == CreateBuild(b) \/ AnalysisStarts(b) \/ AnalysisFails(b) \/ AnalysisSucceeds(b)
Request(b) == ConfirmBuild(b) \/ BeginCancel(b) \/ DeleteBuildRows(b) \/ Collect(b)
CancelEnds(b) == CancelBuilding(b) \/ CancelOther(b)
Build(d) == Heartbeat(d) \/ Solved(d) \/ Publish(d) \/ FlushLog(d) \/ Finish(d)
Serve(u) == Look(u) \/ Write(u) \/ Save(u) \/ Undo(u)

Next ==
  \/ \E b \in Builds :
       Creation(b) \/ Request(b) \/ CancelEnds(b) \/ RemoveFiles(b)
       \/ LeaseExpires(b) \/ LogLimit(b)
  \/ \E b \in Builds, j \in Jobs : CreateJobWithManagedArtifact(j, b)
  \/ \E j \in Jobs : DeleteJob(j)
  \/ \E d \in Builders, b \in Builds : Poll(d, b) \/ PollLost(d, b)
  \/ \E d \in Builders : Build(d) \/ BuilderDies(d)
  \/ \E u \in uploads : Serve(u) \/ UploadFails(u)
  \/ ServerDies

Spec == Init /\ [][Next]_vars

(* The builder's goroutines and the server's handlers go on while they can; *)
(* nobody is obliged to confirm, cancel or delete.  The heartbeat comes     *)
(* three times in a lease, so a build that is cancelled hears of it.        *)
Fairness ==
  /\ \A b \in Builds : WF_vars(Creation(b)) /\ WF_vars(CancelEnds(b))
  /\ \A d \in Builders :
       /\ \A b \in Builds : WF_vars(Poll(d, b))
       /\ WF_vars(Heartbeat(d) /\ builder' # builder)
       /\ WF_vars(Solved(d)) /\ WF_vars(Publish(d))
       /\ WF_vars(FlushLog(d)) /\ WF_vars(Finish(d))
  /\ WF_vars(\E u \in uploads : Serve(u))

FairSpec == Spec /\ Fairness

-----------------------------------------------------------------------------
(* Properties. *)

(* A build is worked on exactly while its assignment is open, and ends as  *)
(* its assignment does, however confirmations, cancellations, takeovers    *)
(* and repeated reports are ordered: the tables are written by different   *)
(* transactions.  A cancelled build may still hold its builder.            *)
BuildAgreesWithAssignment ==
  \A b \in Builds :
    /\ build[b].status = "BUILDING"
         => asg[b].status \in {"PENDING", "RUNNING"} /\ ~asg[b].cancel
    /\ asg[b].status \in {"PENDING", "RUNNING"} => build[b].status \in {"BUILDING", "CANCELLED"}
    /\ build[b].status = "SUCCEEDED" <=> asg[b].status = "SUCCEEDED"

(* "a late success is discarded in favor of the persisted cancellation     *)
(* request": no report, of whichever builder and however often repeated,   *)
(* changes a result once it is stored.                                     *)
ResultIsFinal ==
  [][\A b \in Builds : build[b].status \in Results
       => build'[b] = build[b] \/ build'[b].status = "deleted"]_vars

(* Railpack builds are solved from a plan that was there when they were    *)
(* confirmed: neither a confirmation during the analysis nor an analysis   *)
(* that ends after a cancellation leaves one without.                      *)
RailpackHasPlan ==
  \A b \in Builds : Railpack(b) =>
    /\ build[b].status \in {"BUILDING", "SUCCEEDED"} => b \in plans
    /\ \A d \in Builders : builder[d].at = "solve" /\ builder[d].build = b
         /\ Holds(d) => b \in plans

(* A live job's image can be pulled: its row is there, under the digest of *)
(* the build's result, and so are the bytes it was stored with, whatever   *)
(* the collector, deletions and other builders' publications do; as long   *)
(* as two publications of the build did not overlap, none was cut off      *)
(* after its archive was in place, and none was so old when the build      *)
(* ended that the collector had been there first.                          *)
JobImageIsThere ==
  \A j \in Jobs, b \in Builds : Refers(j, b) =>
    /\ row[b].digest = build[b].oci /\ build[b].oci # None
    /\ b \notin raced => file[b] = row[b].sha /\ row[b].sha = row[b].digest

(* store/builds.go: "Successful managed images remain protected while a    *)
(* non-deleted job can still reference them".                              *)
ReferencedImageKept ==
  \A j \in Jobs, b \in Builds : Refers(j, b) => file[b] # None

(* operations.md: "the next lease heartbeat cancels buildctl".  A builder  *)
(* whose build was cancelled gets out of it.                               *)
CancelledBuildLetsGo ==
  \A d \in Builders, b \in Builds :
    builder[d].build = b /\ build[b].status = "CANCELLED" ~> builder[d].build # b

-----------------------------------------------------------------------------
(* Why they hold. *)

(* An analysis that is under way has not left a plan yet. *)
AnalysisOK(b) ==
  /\ analysis[b] # "no" => Railpack(b) /\ b \notin plans
  /\ build[b].status = "absent" => b \notin plans

(* Before it is confirmed and after it is deleted a build has no           *)
(* assignment; a cancellation is never left to the assignment alone; and   *)
(* the plan is there before the assignment is.                             *)
Unconfirmed == {"absent", "CREATED", "ANALYZING"}
AssignmentOK(b) ==
  /\ build[b].status \in Unconfirmed \cup {"deleted"} => asg[b] = NoAssignment
  /\ asg[b].cancel => build[b].status = "CANCELLED"
  /\ Railpack(b) /\ asg[b] # NoAssignment => b \in plans

BuilderOK(d) ==
  /\ builder[d].at # "idle" => builder[d].build \in Builds
  /\ builder[d].at \in {"publish", "wait"} => builder[d].digest \in Digests
  /\ builder[d].at \in {"flush", "finish"} => builder[d].status \in Results

(* A row is written while the build is BUILDING, under the digest it will  *)
(* report, and removed before the archive is, as a rule after the build.   *)
RowOK(b) ==
  /\ row[b] # NoRow => /\ row[b].digest \in Digests /\ row[b].sha \in Digests
                       /\ build[b].status \in {"BUILDING"} \cup Results
  /\ b \in doomed => \/ row[b] = NoRow /\ build[b].status \in Results \cup {"deleted"}
                     \/ b \in raced
  /\ build[b].status = "SUCCEEDED" =>
       build[b].oci \in Digests /\ (row[b] # NoRow => row[b].digest = build[b].oci)
  /\ Referenced(b) => build[b].status = "SUCCEEDED" /\ row[b] # NoRow

UploadOK(u) ==
  /\ build[u.build].status \notin Unconfirmed
  /\ u.at \in {"look", "write"} => ~u.created
  /\ u.at = "save" => u.sha \in Digests
  /\ u.at = "undo" => u.created

(* Where publications of a build do not overlap, its archive is there      *)
(* while its row is, and before that only for the upload that wrote it.    *)
Alone(b) == \A u, v \in uploads : u.build = b /\ v.build = b => u = v
Published(b) ==
  row[b] # NoRow =>
    /\ file[b] = row[b].sha /\ row[b].sha = row[b].digest
    /\ \A u \in uploads : u.build = b => u.at \in {"look", "save"} /\ ~u.created
Publishing(b) ==
  \A u \in uploads :
    u.build = b /\ u.at = "save" /\ build[b].status = "BUILDING" =>
      file[b] = u.sha /\ (row[b] = NoRow => u.sha = u.digest)
Unpublished(b) ==
  build[b].status \in Unconfirmed \cup {"BUILDING"} /\ row[b] = NoRow /\ file[b] # None
    => \E u \in uploads : u.build = b /\ u.created
ArchiveOK(b) ==
  b \notin raced => Alone(b) /\ Published(b) /\ Publishing(b) /\ Unpublished(b)

IInv ==
  /\ TypeOK /\ BuildAgreesWithAssignment
  /\ \A b \in Builds : AnalysisOK(b) /\ AssignmentOK(b) /\ RowOK(b) /\ ArchiveOK(b)
  /\ \A d \in Builders : BuilderOK(d)
  /\ \A u \in uploads : UploadOK(u)

=============================================================================
