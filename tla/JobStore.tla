------------------------------ MODULE JobStore ------------------------------
(***************************************************************************)
(* The lifecycle of jobs and of their attempts in the server's database:   *)
(* the tables jobs, job_attempts and assignments (internal/store/store.go) *)
(* under the HTTP handlers (internal/httpapi), the scheduler and the node  *)
(* monitor, all of which run concurrently.  One action is one database     *)
(* statement or one transaction: what a handler read in an earlier step    *)
(* may be stale when a later step uses it.                                 *)
(*                                                                         *)
(* An agent is seen only through the requests it makes.  Events may be     *)
(* sent for any attempt that was ever delivered, in any order, any number  *)
(* of times and arbitrarily late: an HTTP client that times out repeats    *)
(* its request while the server may still be working on the first one.     *)
(***************************************************************************)
EXTENDS JobTypes, Integers, FiniteSets

CONSTANTS
  Jobs,         \* job identifiers
  Nodes,        \* execution nodes
  NoNode,       \* assigned_node_id is NULL
  NoJob,        \* a handler that serves no job
  Handlers,     \* HTTP requests the server works on at the same time
  Events,       \* bound: the statuses that agents report in events
  MaxAttempts,  \* bound: rows of job_attempts per job
  MaxReruns     \* bound: reruns a user asks for, per job

ASSUME BoundsAssumption == MaxAttempts \in Nat \ {0} /\ MaxReruns \in Nat
ASSUME EventsAssumption == Events \subseteq Reported
ASSUME NamesAssumption == NoNode \notin Nodes /\ NoJob \notin Jobs

VARIABLES
  job,       \* job[j]: the row of table jobs
  attempt,   \* attempt[j][n]: row of job_attempts with attempt_number n,
             \*   together with its row of table assignments
  made,      \* made[j]: MAX(attempt_number) of the job's rows
  reruns,    \* history: reruns[j] reruns of j were accepted
  request,   \* request[h]: the request handler h works on
  queue,     \* the queued jobs the scheduler's current pass still has to try
  sweep      \* the node monitor's current pass over stale nodes

vars == <<job, attempt, made, reruns, request, queue, sweep>>
database == <<job, attempt, made, reruns>>

AttemptNumber == 1 .. MaxAttempts
NoAttempt == 0

-----------------------------------------------------------------------------
(* Rows *)

Desired == {"RUNNING", "CANCELLED", "DELETING", "DELETED"}

JobRow == [status: JobStatus \cup {"ABSENT"},   \* ABSENT: no row yet
           desired: Desired,
           observed: JobStatus,
           attempt: {NoAttempt} \cup AttemptNumber,
           node: Nodes \cup {NoNode}]

AttemptRow == [status: JobStatus \cup {"ABSENT"},
               node: Nodes \cup {NoNode},
               delivered: BOOLEAN,   \* assignments.delivered_at is set
               accepted: BOOLEAN,    \* assignments.accepted_at is set
               revoked: BOOLEAN,     \* job_token_hash is 'revoked:'||id
               outputs: BOOLEAN]     \* outputs_json was stored

AbsentJob == [status |-> "ABSENT", desired |-> "RUNNING",
              observed |-> "QUEUED", attempt |-> NoAttempt, node |-> NoNode]

AbsentAttempt == [status |-> "ABSENT", node |-> NoNode, delivered |-> FALSE,
                  accepted |-> FALSE, revoked |-> FALSE, outputs |-> FALSE]

NewAttempt(node) == [AbsentAttempt EXCEPT !.status = "ASSIGNED",
                                          !.node = node]

(* Handlers *)

Step == {"idle",
         "event.read", "event.write", "event.outputs",    \* agentEvent
         "stop.cancel", "stop.write", "stop.attempt",     \* stopJob
         "delete.write", "delete.files", "delete.mark"}   \* deleteJob

MaxTries == 3   \* the retry loop of UpdateJobStatus

Snapshot == [status: JobStatus \cup {"ABSENT"},
             attempt: {NoAttempt} \cup AttemptNumber]

Request == [at: Step,
            job: Jobs \cup {NoJob},
            attempt: {NoAttempt} \cup AttemptNumber,    \* body.AttemptID
            status: Reported \cup {"NONE"},             \* body.Status
            seen: Snapshot,                             \* the row last read
            tries: 0 .. MaxTries]

Unseen == [status |-> "ABSENT", attempt |-> NoAttempt]

Idle == [at |-> "idle", job |-> NoJob, attempt |-> NoAttempt,
         status |-> "NONE", seen |-> Unseen, tries |-> 0]

Seen(j) == [status |-> job[j].status, attempt |-> job[j].attempt]

(* Handler h, now serving job j, goes to the given step with the row read. *)
Enter(h, j, step, seen) ==
  request' = [request EXCEPT ![h] = [Idle EXCEPT !.at = step, !.job = j,
                                                 !.seen = seen]]

Finish(h) == request' = [request EXCEPT ![h] = Idle]

(* The monitor's pass: the jobs still to be marked, and the job whose       *)
(* attempt row is to be updated next.                                      *)
Sweep == [jobs: SUBSET Jobs, marked: Jobs \cup {NoJob}]
NoSweep == [jobs |-> {}, marked |-> NoJob]

TypeOK ==
  /\ job \in [Jobs -> JobRow]
  /\ attempt \in [Jobs -> [AttemptNumber -> AttemptRow]]
  /\ made \in [Jobs -> 0 .. MaxAttempts]
  /\ reruns \in [Jobs -> 0 .. MaxReruns]
  /\ request \in [Handlers -> Request]
  /\ queue \subseteq Jobs
  /\ sweep \in Sweep

Init ==
  /\ job = [j \in Jobs |-> AbsentJob]
  /\ attempt = [j \in Jobs |-> [n \in AttemptNumber |-> AbsentAttempt]]
  /\ made = [j \in Jobs |-> 0]
  /\ reruns = [j \in Jobs |-> 0]
  /\ request = [h \in Handlers |-> Idle]
  /\ queue = {}
  /\ sweep = NoSweep

-----------------------------------------------------------------------------
(* Users: create and rerun, one transaction each *)

CreateJob(j) ==
  /\ job[j].status = "ABSENT"
  /\ job' = [job EXCEPT ![j] = [@ EXCEPT !.status = "QUEUED"]]
  /\ UNCHANGED <<attempt, made, reruns, request, queue, sweep>>

(* Mutant: the attempt and the node of the last execution stay. *)
RerunJob_KeepsAttempt(j) ==
  /\ job[j].status \in Terminal
  /\ reruns[j] < MaxReruns
  /\ job' = [job EXCEPT ![j] = [@ EXCEPT !.status = "QUEUED",
                                         !.desired = "RUNNING",
                                         !.observed = "QUEUED"]]
  /\ reruns' = [reruns EXCEPT ![j] = @ + 1]
  /\ UNCHANGED <<attempt, made, request, queue, sweep>>

RerunJob(j) ==
  /\ job[j].status \in Terminal
  /\ reruns[j] < MaxReruns
  /\ job' = [job EXCEPT ![j] = [status |-> "QUEUED", desired |-> "RUNNING",
                                observed |-> "QUEUED", attempt |-> NoAttempt,
                                node |-> NoNode]]
  /\ reruns' = [reruns EXCEPT ![j] = @ + 1]
  /\ UNCHANGED <<attempt, made, request, queue, sweep>>

-----------------------------------------------------------------------------
(* Users: stop.  RequestStop reads the row, then writes by job id alone *)

BeginStop(h, j) ==
  /\ request[h] = Idle
  /\ \/ /\ job[j].status = "QUEUED"
        /\ Enter(h, j, "stop.cancel", Seen(j))
     \/ /\ job[j].status \in Active \ {"STOPPING"}
        /\ Enter(h, j, "stop.write", Seen(j))
  /\ UNCHANGED <<database, queue, sweep>>

StopCancel(h) ==
  LET j == request[h].job IN
  /\ request[h].at = "stop.cancel"
  /\ job' = IF job[j].status = "QUEUED"
            THEN [job EXCEPT ![j] = [@ EXCEPT !.status = "CANCELLED",
                                              !.desired = "CANCELLED",
                                              !.observed = "CANCELLED"]]
            ELSE job
  /\ Finish(h)
  /\ UNCHANGED <<attempt, made, reruns, queue, sweep>>

StopWrite(h) ==
  LET j == request[h].job IN
  /\ request[h].at = "stop.write"
  /\ job' = [job EXCEPT ![j] = [@ EXCEPT !.status = "STOPPING",
                                         !.desired = "CANCELLED"]]
  /\ IF request[h].seen.attempt = NoAttempt
     THEN Finish(h)
     ELSE Enter(h, j, "stop.attempt", request[h].seen)
  /\ UNCHANGED <<attempt, made, reruns, queue, sweep>>

StopAttempt(h) ==
  LET j == request[h].job
      n == request[h].seen.attempt
  IN  /\ request[h].at = "stop.attempt"
      /\ attempt' = [attempt EXCEPT ![j][n] = [@ EXCEPT !.status = "STOPPING"]]
      /\ Finish(h)
      /\ UNCHANGED <<job, made, reruns, queue, sweep>>

-----------------------------------------------------------------------------
(* Users: delete.  MarkDeleting reads, then writes by job id; the files are *)
(* removed by a goroutine that outlives the request                        *)

BeginDelete(h, j) ==
  /\ request[h] = Idle
  /\ job[j].status # "ABSENT"
  /\ ~IsActive(job[j].status)
  /\ Enter(h, j, IF job[j].status \in {"DELETING", "DELETED"}
                 THEN "delete.files" ELSE "delete.write", Seen(j))
  /\ UNCHANGED <<database, queue, sweep>>

DeleteWrite(h) ==
  LET j == request[h].job IN
  /\ request[h].at = "delete.write"
  /\ job' = [job EXCEPT ![j] = [@ EXCEPT !.status = "DELETING",
                                         !.desired = "DELETING"]]
  /\ Enter(h, j, "delete.files", request[h].seen)
  /\ UNCHANGED <<attempt, made, reruns, queue, sweep>>

(* Removing the files succeeds, or fails and leaves the job DELETING. *)
DeleteFiles(h) ==
  /\ request[h].at = "delete.files"
  /\ \/ Enter(h, request[h].job, "delete.mark", request[h].seen)
     \/ Finish(h)
  /\ UNCHANGED <<database, queue, sweep>>

DeleteMark(h) ==
  LET j == request[h].job IN
  /\ request[h].at = "delete.mark"
  /\ job' = [job EXCEPT ![j] = [@ EXCEPT !.status = "DELETED",
                                         !.desired = "DELETED",
                                         !.observed = "DELETED"]]
  /\ Finish(h)
  /\ UNCHANGED <<attempt, made, reruns, queue, sweep>>

-----------------------------------------------------------------------------
(* Agents: an event of attempt n with a status.  agentEvent compares the    *)
(* node and the attempt with the row it reads first; UpdateJobStatus reads *)
(* the row again and compares-and-swaps against that second read           *)

BeginEvent(h, j, n, status) ==
  /\ request[h] = Idle
  /\ attempt[j][n].delivered
  /\ job[j].node = attempt[j][n].node
  /\ job[j].attempt = n
  /\ request' = [request EXCEPT ![h] =
                   [Idle EXCEPT !.at = "event.read", !.job = j,
                                !.attempt = n, !.status = status]]
  /\ UNCHANGED <<database, queue, sweep>>

(* What follows a successful UpdateJobStatus. *)
AfterUpdate(h) ==
  IF request[h].status \in Terminal
  THEN request' = [request EXCEPT ![h] = [@ EXCEPT !.at = "event.outputs",
                                                   !.seen = Unseen,
                                                   !.tries = 0]]
  ELSE Finish(h)

(* Mutant: the transition table is not consulted. *)
EventRead_AnyTransition(h) ==
  /\ request[h].at = "event.read"
  /\ request' = [request EXCEPT ![h] = [@ EXCEPT !.at = "event.write",
                                                 !.seen = Seen(request[h].job)]]
  /\ UNCHANGED <<database, queue, sweep>>

EventRead(h) ==
  LET j == request[h].job
      status == request[h].status
  IN  /\ request[h].at = "event.read"
      /\ IF job[j].status = status /\ job[j].observed = status
         THEN AfterUpdate(h)
         ELSE IF job[j].status \in JobStatus
                 /\ CanTransition(job[j].status, status)
              THEN request' = [request EXCEPT ![h] =
                                 [@ EXCEPT !.at = "event.write",
                                           !.seen = Seen(j)]]
              ELSE Finish(h)
      /\ UNCHANGED <<database, queue, sweep>>

(* Mutant: only a success ends the life of the SDK token. *)
UpdateRows_RevokesSuccess(j, seen, status) ==
  /\ job' = [job EXCEPT ![j] = [@ EXCEPT !.status = status,
                                         !.observed = status]]
  /\ attempt' = [attempt EXCEPT ![j][seen.attempt] =
                   [@ EXCEPT !.status = status,
                             !.revoked = IF status = "SUCCEEDED" THEN TRUE
                                         ELSE attempt[j][seen.attempt].revoked]]

(* The job row and the row of the attempt that was read change together.  *)
UpdateRows(j, seen, status) ==
  /\ job' = [job EXCEPT ![j] = [@ EXCEPT !.status = status,
                                         !.observed = status]]
  /\ attempt' = [attempt EXCEPT ![j][seen.attempt] =
                   [@ EXCEPT !.status = status,
                             !.revoked = IF status \in Terminal THEN TRUE
                                         ELSE attempt[j][seen.attempt].revoked]]

(* Mutant: WHERE id=? AND attempt_id=?, the status read is not compared. *)
EventWrite_NoCompare(h) ==
  LET j == request[h].job
      seen == request[h].seen
  IN  /\ request[h].at = "event.write"
      /\ IF job[j].attempt = seen.attempt /\ seen.attempt # NoAttempt
         THEN /\ UpdateRows(j, seen, request[h].status)
              /\ AfterUpdate(h)
         ELSE /\ UNCHANGED <<job, attempt>>
              /\ Finish(h)
      /\ UNCHANGED <<made, reruns, queue, sweep>>

EventWrite(h) ==
  LET j == request[h].job
      seen == request[h].seen
  IN  /\ request[h].at = "event.write"
      /\ IF Seen(j) = seen /\ seen.attempt # NoAttempt
         THEN /\ UpdateRows(j, seen, request[h].status)
              /\ AfterUpdate(h)
         ELSE /\ UNCHANGED <<job, attempt>>
              /\ IF request[h].tries + 1 < MaxTries
                 THEN request' = [request EXCEPT ![h] =
                                    [@ EXCEPT !.at = "event.read",
                                              !.seen = Unseen,
                                              !.tries = request[h].tries + 1]]
                 ELSE Finish(h)
      /\ UNCHANGED <<made, reruns, queue, sweep>>

EventOutputs(h) ==
  LET j == request[h].job
      n == request[h].attempt
  IN  /\ request[h].at = "event.outputs"
      /\ attempt' = [attempt EXCEPT ![j][n] = [@ EXCEPT !.outputs = TRUE]]
      /\ Finish(h)
      /\ UNCHANGED <<job, made, reruns, queue, sweep>>

-----------------------------------------------------------------------------
(* Agents: delivery and acceptance of an assignment *)

DeliverAssignment(j) ==
  LET n == job[j].attempt IN
  /\ n # NoAttempt
  /\ job[j].status \in {"ASSIGNED", "PULLING_IMAGE", "STARTING"}
  /\ ~attempt[j][n].accepted
  /\ attempt' = [attempt EXCEPT ![j][n] = [@ EXCEPT !.delivered = TRUE]]
  /\ UNCHANGED <<job, made, reruns, request, queue, sweep>>

(* AcceptAssignment looks at nothing but the assignment's id and node. *)
AcceptAssignment(j, n) ==
  /\ attempt[j][n].delivered
  /\ attempt' = [attempt EXCEPT ![j][n] = [@ EXCEPT !.accepted = TRUE,
                                                    !.status = "STARTING"]]
  /\ UNCHANGED <<job, made, reruns, request, queue, sweep>>

-----------------------------------------------------------------------------
(* The scheduler: one goroutine, a pass reads the queue and then reserves  *)

SchedulerRead ==
  /\ queue = {}
  /\ queue' = {j \in Jobs : job[j].status = "QUEUED"}
  /\ queue' # {}
  /\ UNCHANGED <<database, request, sweep>>

(* Mutant: the job is reserved as the scheduler's pass has read it.        *)
Reserve_Unchecked(j, node) ==
  /\ j \in queue
  /\ made[j] < MaxAttempts
  /\ queue' = queue \ {j}
  /\ made' = [made EXCEPT ![j] = @ + 1]
  /\ job' = [job EXCEPT ![j] = [@ EXCEPT !.status = "ASSIGNED", !.desired = "RUNNING",
                                         !.attempt = made[j] + 1, !.node = node]]
  /\ attempt' = [attempt EXCEPT ![j][made[j] + 1] = NewAttempt(node)]
  /\ UNCHANGED <<reruns, request, sweep>>

(* ReserveJobWithAffinity: one serializable transaction. *)
Reserve(j, node) ==
  /\ j \in queue
  /\ job[j].status = "QUEUED"
  /\ made[j] < MaxAttempts
  /\ queue' = queue \ {j}
  /\ made' = [made EXCEPT ![j] = @ + 1]
  /\ job' = [job EXCEPT ![j] = [@ EXCEPT !.status = "ASSIGNED",
                                         !.desired = "RUNNING",
                                         !.attempt = made[j] + 1,
                                         !.node = node]]
  /\ attempt' = [attempt EXCEPT ![j][made[j] + 1] = NewAttempt(node)]
  /\ UNCHANGED <<reruns, request, sweep>>

(* No node fits, or the job is no longer queued when its turn comes. *)
SchedulerSkip(j) ==
  /\ j \in queue
  /\ queue' = queue \ {j}
  /\ UNCHANGED <<database, request, sweep>>

-----------------------------------------------------------------------------
(* The node monitor: MarkStaleNodes selects, then updates job by job       *)

Executing == Active \ {"LOST"}

SweepSelect(nodes) ==
  /\ sweep = NoSweep
  /\ sweep' = [NoSweep EXCEPT !.jobs =
                 {j \in Jobs : /\ job[j].status \in Executing
                               /\ job[j].node \in nodes}]
  /\ sweep' # NoSweep
  /\ UNCHANGED <<database, request, queue>>

(* Mutant: a stale job goes back to the queue. *)
SweepJob_Requeues(j) ==
  /\ sweep.marked = NoJob
  /\ j \in sweep.jobs
  /\ job' = IF job[j].status \in Executing
            THEN [job EXCEPT ![j] = [@ EXCEPT !.status = "QUEUED",
                                              !.observed = "LOST",
                                              !.attempt = NoAttempt,
                                              !.node = NoNode]]
            ELSE job
  /\ sweep' = [jobs |-> sweep.jobs \ {j}, marked |-> j]
  /\ UNCHANGED <<attempt, made, reruns, request, queue>>

SweepJob(j) ==
  /\ sweep.marked = NoJob
  /\ j \in sweep.jobs
  /\ job' = IF job[j].status \in Executing
            THEN [job EXCEPT ![j] = [@ EXCEPT !.status = "LOST",
                                              !.observed = "LOST"]]
            ELSE job
  /\ sweep' = [jobs |-> sweep.jobs \ {j}, marked |-> j]
  /\ UNCHANGED <<attempt, made, reruns, request, queue>>

SweepAttempt ==
  LET j == sweep.marked IN
  /\ j # NoJob
  /\ attempt' = IF job[j].attempt = NoAttempt
                THEN attempt
                ELSE [attempt EXCEPT ![j][job[j].attempt] =
                                        [@ EXCEPT !.status = "LOST"]]
  /\ sweep' = [sweep EXCEPT !.marked = NoJob]
  /\ UNCHANGED <<job, made, reruns, request, queue>>

-----------------------------------------------------------------------------
(* Failures of the server side *)

(* The client goes away: the request's context is cancelled and the        *)
(* handler's next statement fails.  The goroutine that removes a job's     *)
(* files has a context of its own.                                         *)
RequestAborted(h) ==
  /\ request[h].at \notin {"idle", "delete.files", "delete.mark"}
  /\ Finish(h)
  /\ UNCHANGED <<database, queue, sweep>>

(* Only the database survives a restart of the server. *)
ServerRestart ==
  /\ request' = [h \in Handlers |-> Idle]
  /\ queue' = {}
  /\ sweep' = NoSweep
  /\ UNCHANGED database

-----------------------------------------------------------------------------
UserStep ==
  \/ \E j \in Jobs : CreateJob(j) \/ RerunJob(j)
  \/ \E h \in Handlers :
       \/ \E j \in Jobs : BeginStop(h, j) \/ BeginDelete(h, j)
       \/ StopCancel(h) \/ StopWrite(h) \/ StopAttempt(h)
       \/ DeleteWrite(h) \/ DeleteFiles(h) \/ DeleteMark(h)

AgentStep ==
  \/ \E h \in Handlers :
       \/ \E j \in Jobs, n \in AttemptNumber, s \in Events :
            BeginEvent(h, j, n, s)
       \/ EventRead(h) \/ EventWrite(h) \/ EventOutputs(h)
  \/ \E j \in Jobs : DeliverAssignment(j)
  \/ \E j \in Jobs, n \in AttemptNumber : AcceptAssignment(j, n)

SchedulerStep ==
  \/ SchedulerRead
  \/ \E j \in Jobs : SchedulerSkip(j) \/ \E n \in Nodes : Reserve(j, n)

MonitorStep ==
  \/ \E nodes \in SUBSET Nodes : SweepSelect(nodes)
  \/ \E j \in Jobs : SweepJob(j)
  \/ SweepAttempt

FailureStep ==
  \/ \E h \in Handlers : RequestAborted(h)
  \/ ServerRestart

Next == UserStep \/ AgentStep \/ SchedulerStep \/ MonitorStep \/ FailureStep

Spec == Init /\ [][Next]_vars

-----------------------------------------------------------------------------
(* Properties *)

(* The current attempt of a job is always the newest row of its history,   *)
(* on the node the job is assigned to, and a queued job has none: the      *)
(* reservation sets the three columns together, a rerun clears them.       *)
CurrentAttempt ==
  \A j \in Jobs :
    /\ job[j].attempt \in {NoAttempt, made[j]}
    /\ job[j].attempt = NoAttempt <=> job[j].node = NoNode
    /\ job[j].attempt # NoAttempt =>
         /\ attempt[j][job[j].attempt].status # "ABSENT"
         /\ attempt[j][job[j].attempt].node = job[j].node
    /\ job[j].status \in {"ABSENT", "QUEUED"} => job[j].attempt = NoAttempt
    /\ job[j].status = "ABSENT" => made[j] = 0

(* A busy handler serves a job of the table, and carries what its next     *)
(* statement needs.                                                        *)
HandlerOK(r) ==
  /\ r.at # "idle" => r.job \in Jobs
  /\ r.at \in {"event.read", "event.write", "event.outputs"}
       => r.attempt # NoAttempt /\ r.status # "NONE"
  /\ r.at = "event.write" => /\ r.seen.status \in JobStatus
                             /\ CanTransition(r.seen.status, r.status)
  /\ r.at = "stop.attempt" => r.seen.attempt # NoAttempt

RequestOK == \A h \in Handlers : HandlerOK(request[h])

(* An SDK credential outlives neither its attempt nor its result: the      *)
(* token of every attempt but the current one is revoked, and so is the    *)
(* current one's when the job carries a result, although stop and delete   *)
(* write their statuses from stale reads (UpdateJobStatus revokes in the   *)
(* transaction that records the result).                                   *)
CredentialSafety ==
  \A j \in Jobs :
    /\ \A n \in 1 .. made[j] : n # job[j].attempt => attempt[j][n].revoked
    /\ job[j].status \in Terminal /\ job[j].attempt # NoAttempt
         => attempt[j][job[j].attempt].revoked

(* "JobDock never starts another attempt automatically": every attempt     *)
(* after the first was asked for by a rerun, whatever the monitor marked   *)
(* LOST, however often the scheduler's pass met a stale queue, and across  *)
(* restarts of the server.                                                 *)
NoAutomaticRetry ==
  \A j \in Jobs : made[j] <= reruns[j] + (IF job[j].status = "QUEUED"
                                          THEN 0 ELSE 1)

(* No late agent event, sweep of stale nodes or scheduler pass changes a   *)
(* job that has its result: what happens to it is a user's rerun, delete   *)
(* or, from a stale read, stop.                                            *)
ResultKept ==
  \A j \in Jobs :
    job[j].status \in Terminal /\ job'[j].status # job[j].status =>
      job'[j].status \in {"QUEUED", "DELETING", "DELETED", "STOPPING"}

ResultLeftOnlyByUser == [][ResultKept]_vars

(* The conjunction is inductive: no conjunct but RequestOK and TypeOK is     *)
(* inductive by itself.                                                    *)
IInv ==
  TypeOK /\ RequestOK /\ CurrentAttempt /\ CredentialSafety /\ NoAutomaticRetry

(* JobStore implements JobLifecycle: no interleaving of handlers, retries, *)
(* sweeps and scheduler passes begins an execution nobody asked for, moves *)
(* a job to another node while it is placed, or moves it on except by its  *)
(* end, a user's stop or its deletion.                                     *)
PhaseOf(status) ==
  CASE status = "ABSENT"      -> "absent"
    [] status = "QUEUED"      -> "waiting"
    [] status \in Active      -> "placed"
    [] status \in Terminal    -> "ended"
    [] OTHER                  -> "removed"
Lifecycle ==
  INSTANCE JobLifecycle WITH
    phase <- [j \in Jobs |-> PhaseOf(job[j].status)],
    on <- [j \in Jobs |-> job[j].node],
    asked <- [j \in Jobs |-> reruns[j] + IF job[j].status = "ABSENT" THEN 0 ELSE 1],
    executions <- made
IsLifecycle == Lifecycle!Spec

(* What the documentation promises and the code does not keep: TLC refutes *)
(* each of these, see "Disagreements" in the README.                       *)

(* An event is applied only while its attempt is the current one           *)
(* (agentEvent compares the attempt, UpdateJobStatus reads the job again). *)
StaleAttemptNeverWrites ==
  [][\A h \in Handlers :
       EventWrite(h) /\ job' # job =>
         request[h].attempt = job[request[h].job].attempt]_vars

(* An attempt keeps the result it ended with (RequestStop, MarkStaleNodes  *)
(* and AcceptAssignment write the attempt row without looking at it).      *)
AttemptsRetainResult ==
  [][\A j \in Jobs : \A n \in AttemptNumber :
       attempt[j][n].status \in Terminal =>
         attempt'[j][n].status = attempt[j][n].status]_vars

(* A stop that is answered "202 Stop accepted" leaves no job that is still  *)
(* wanted to run (RequestStop ignores that its conditional update of a     *)
(* queued job matched no row).                                             *)
AcceptedStopTakesEffect ==
  [][\A h \in Handlers :
       StopCancel(h) => job'[request[h].job].desired # "RUNNING"]_vars

(* A job that is being deleted has no credential left (MarkDeleting does   *)
(* not compare the status it has read, and revokes nothing).               *)
DeletedJobIsDisarmed ==
  \A j \in Jobs : job[j].status \in {"DELETING", "DELETED"} /\ job[j].attempt # NoAttempt
    => attempt[j][job[j].attempt].revoked

=============================================================================
