--------------------------- MODULE JobStore_proofs ---------------------------
(***************************************************************************)
(* Theorems of JobStore, for every set of jobs, nodes and handlers and for *)
(* every bound.  The inductive invariant is IInv of JobStore.              *)
(***************************************************************************)
EXTENDS JobStore, TLAPS

(* The literals the actions write are statuses. *)
LEMMA Statuses ==
  /\ {"QUEUED", "ASSIGNED", "STARTING", "STOPPING", "LOST", "CANCELLED",
      "DELETING", "DELETED"} \subseteq JobStatus
  /\ Reported \subseteq JobStatus
  /\ Terminal \subseteq JobStatus
  /\ "ABSENT" \notin JobStatus
BY DEF JobStatus, Reported, Terminal

(* Writing columns of a row yields a row. *)
LEMMA JobStatusColumns ==
  ASSUME NEW row \in JobRow, NEW s \in JobStatus
  PROVE  /\ [row EXCEPT !.status = s] \in JobRow
         /\ [row EXCEPT !.status = s, !.observed = s] \in JobRow
BY DEF JobRow

LEMMA JobColumns ==
  ASSUME NEW row \in JobRow, NEW s \in JobStatus, NEW d \in Desired,
         NEW o \in JobStatus
  PROVE  /\ [row EXCEPT !.status = s, !.desired = d] \in JobRow
         /\ [row EXCEPT !.status = s, !.desired = d, !.observed = o] \in JobRow
BY DEF JobRow

LEMMA AttemptColumns ==
  ASSUME NEW row \in AttemptRow, NEW s \in JobStatus, NEW b \in BOOLEAN
  PROVE  /\ [row EXCEPT !.status = s] \in AttemptRow
         /\ [row EXCEPT !.status = s,
                         !.revoked = IF b THEN TRUE ELSE row.revoked]
              \in AttemptRow
         /\ [row EXCEPT !.accepted = TRUE, !.status = s] \in AttemptRow
BY DEF AttemptRow

LEMMA AttemptFlags ==
  ASSUME NEW row \in AttemptRow
  PROVE  /\ [row EXCEPT !.delivered = TRUE] \in AttemptRow
         /\ [row EXCEPT !.outputs = TRUE] \in AttemptRow
BY DEF AttemptRow

LEMMA JobWrite ==
  ASSUME TypeOK, NEW j \in Jobs, NEW row \in JobRow,
         job' = [job EXCEPT ![j] = row]
  PROVE  job' \in [Jobs -> JobRow]
BY DEF TypeOK

LEMMA AttemptWrite ==
  ASSUME TypeOK, NEW j \in Jobs, NEW n \in AttemptNumber,
         NEW row \in AttemptRow, attempt' = [attempt EXCEPT ![j][n] = row]
  PROVE  attempt' \in [Jobs -> [AttemptNumber -> AttemptRow]]
BY DEF TypeOK

LEMMA AttemptType ==
  ASSUME TypeOK, NEW j \in Jobs, NEW n \in AttemptNumber
  PROVE  attempt[j][n] \in AttemptRow
BY DEF TypeOK

LEMMA RequestWrite ==
  ASSUME TypeOK, NEW h \in Handlers, NEW r \in Request,
         request' = [request EXCEPT ![h] = r]
  PROVE  request' \in [Handlers -> Request]
BY DEF TypeOK

LEMMA IdleType == Idle \in Request
BY DEF Request, Idle, Unseen, MaxTries, Step, Snapshot

LEMMA EnterType ==
  ASSUME TypeOK, NEW h \in Handlers, NEW j \in Jobs, NEW step \in Step,
         NEW seen \in Snapshot, Enter(h, j, step, seen)
  PROVE  request' \in [Handlers -> Request]
<1>1. [Idle EXCEPT !.at = step, !.job = j, !.seen = seen] \in Request
  BY IdleType DEF Request
<1>. QED BY <1>1, RequestWrite DEF Enter

LEMMA FinishType ==
  ASSUME TypeOK, NEW h \in Handlers, Finish(h)
  PROVE  request' \in [Handlers -> Request]
BY IdleType, RequestWrite DEF Finish

LEMMA SeenType == ASSUME TypeOK, NEW j \in Jobs PROVE Seen(j) \in Snapshot
BY DEF TypeOK, Seen, JobRow, Snapshot

-----------------------------------------------------------------------------
(* Type correctness, action by action *)

LEMMA InitType == Init => TypeOK
<1>1. AbsentJob \in JobRow
  BY Statuses DEF AbsentJob, JobRow, Desired
<1>2. AbsentAttempt \in AttemptRow
  BY DEF AbsentAttempt, AttemptRow
<1>. QED BY <1>1, <1>2, IdleType, BoundsAssumption
         DEF Init, TypeOK, NoSweep, Sweep

LEMMA CreateType == ASSUME TypeOK, NEW j \in Jobs, CreateJob(j) PROVE TypeOK'
<1>1. [job[j] EXCEPT !.status = "QUEUED"] \in JobRow
  BY Statuses DEF TypeOK, JobRow
<1>. QED BY <1>1 DEF TypeOK, CreateJob

LEMMA RerunType == ASSUME TypeOK, NEW j \in Jobs, RerunJob(j) PROVE TypeOK'
<1>1. [status |-> "QUEUED", desired |-> "RUNNING", observed |-> "QUEUED",
       attempt |-> NoAttempt, node |-> NoNode] \in JobRow
  BY Statuses DEF JobRow, Desired
<1>2. job' \in [Jobs -> JobRow]
  BY <1>1 DEF TypeOK, RerunJob
<1>3. reruns' \in [Jobs -> 0 .. MaxReruns]
  BY BoundsAssumption DEF TypeOK, RerunJob
<1>. QED BY <1>2, <1>3 DEF TypeOK, RerunJob

LEMMA StopType ==
  ASSUME TypeOK, RequestOK, NEW h \in Handlers,
         (\E j \in Jobs : BeginStop(h, j))
           \/ StopCancel(h) \/ StopWrite(h) \/ StopAttempt(h)
  PROVE  TypeOK'
<1>0. request[h] \in Request /\ request[h].seen \in Snapshot
  BY DEF TypeOK, Request
<1>1. ASSUME NEW j \in Jobs, BeginStop(h, j) PROVE TypeOK'
  <2>1. request' \in [Handlers -> Request]
    BY <1>1, EnterType, SeenType DEF BeginStop, Step
  <2>. QED BY <1>1, <2>1 DEF BeginStop, TypeOK, database
<1>2. ASSUME StopCancel(h) PROVE TypeOK'
  <2>0. request[h].job \in Jobs
    BY <1>2 DEF StopCancel, RequestOK, HandlerOK
  <2>1. request' \in [Handlers -> Request]
    BY <1>2, FinishType DEF StopCancel
  <2>2. job' \in [Jobs -> JobRow]
    BY <1>2, <2>0, Statuses, JobColumns DEF StopCancel, TypeOK, Desired
  <2>. QED BY <1>2, <2>1, <2>2 DEF StopCancel, TypeOK
<1>3. ASSUME StopWrite(h) PROVE TypeOK'
  <2>0. request[h].job \in Jobs
    BY <1>3 DEF StopWrite, RequestOK, HandlerOK
  <2>1. request' \in [Handlers -> Request]
    BY <1>0, <1>3, <2>0, FinishType, EnterType DEF StopWrite, Step
  <2>2. job' \in [Jobs -> JobRow]
    <3>. DEFINE row == [job[request[h].job] EXCEPT !.status = "STOPPING",
                                                  !.desired = "CANCELLED"]
    <3>1. row \in JobRow
      BY <2>0, Statuses, JobColumns DEF TypeOK, Desired
    <3>. QED BY <1>3, <2>0, <3>1, JobWrite DEF StopWrite
  <2>. QED BY <1>3, <2>1, <2>2 DEF StopWrite, TypeOK
<1>4. ASSUME StopAttempt(h) PROVE TypeOK'
  <2>0. request[h].job \in Jobs /\ request[h].seen.attempt \in AttemptNumber
    BY <1>0, <1>4 DEF StopAttempt, RequestOK, HandlerOK, Snapshot
  <2>1. request' \in [Handlers -> Request]
    BY <1>4, FinishType DEF StopAttempt
  <2>2. attempt' \in [Jobs -> [AttemptNumber -> AttemptRow]]
    <3>1. [attempt[request[h].job][request[h].seen.attempt]
             EXCEPT !.status = "STOPPING"] \in AttemptRow
      BY <2>0, Statuses, AttemptType, AttemptColumns
    <3>. QED BY <1>4, <2>0, <3>1 DEF TypeOK, StopAttempt
  <2>. QED BY <1>4, <2>1, <2>2 DEF StopAttempt, TypeOK
<1>. QED BY <1>1, <1>2, <1>3, <1>4

LEMMA DeleteType ==
  ASSUME TypeOK, RequestOK, NEW h \in Handlers,
         (\E j \in Jobs : BeginDelete(h, j))
           \/ DeleteWrite(h) \/ DeleteFiles(h) \/ DeleteMark(h)
  PROVE  TypeOK'
<1>0. request[h] \in Request /\ request[h].seen \in Snapshot
  BY DEF TypeOK, Request
<1>1. ASSUME NEW j \in Jobs, BeginDelete(h, j) PROVE TypeOK'
  <2>1. request' \in [Handlers -> Request]
    BY <1>1, EnterType, SeenType DEF BeginDelete, Step
  <2>. QED BY <1>1, <2>1 DEF BeginDelete, TypeOK, database
<1>2. ASSUME DeleteWrite(h) PROVE TypeOK'
  <2>0. request[h].job \in Jobs
    BY <1>2 DEF DeleteWrite, RequestOK, HandlerOK
  <2>1. request' \in [Handlers -> Request]
    BY <1>0, <1>2, <2>0, EnterType DEF DeleteWrite, Step
  <2>2. [job[request[h].job] EXCEPT !.status = "DELETING",
                                    !.desired = "DELETING"] \in JobRow
    BY <2>0, Statuses, JobColumns DEF TypeOK, Desired
  <2>3. job' \in [Jobs -> JobRow]
    BY <1>2, <2>0, <2>2, JobWrite DEF DeleteWrite
  <2>. QED BY <1>2, <2>1, <2>3 DEF DeleteWrite, TypeOK
<1>3. ASSUME DeleteFiles(h) PROVE TypeOK'
  <2>0. request[h].job \in Jobs
    BY <1>3 DEF DeleteFiles, RequestOK, HandlerOK
  <2>1. request' \in [Handlers -> Request]
    BY <1>0, <1>3, <2>0, EnterType, FinishType DEF DeleteFiles, Step
  <2>. QED BY <1>3, <2>1 DEF DeleteFiles, TypeOK, database
<1>4. ASSUME DeleteMark(h) PROVE TypeOK'
  <2>0. request[h].job \in Jobs
    BY <1>4 DEF DeleteMark, RequestOK, HandlerOK
  <2>1. request' \in [Handlers -> Request]
    BY <1>4, FinishType DEF DeleteMark
  <2>2. [job[request[h].job] EXCEPT !.status = "DELETED",
                                    !.desired = "DELETED",
                                    !.observed = "DELETED"] \in JobRow
    BY <2>0, Statuses, JobColumns DEF TypeOK, Desired
  <2>3. job' \in [Jobs -> JobRow]
    BY <1>4, <2>0, <2>2, JobWrite DEF DeleteMark
  <2>. QED BY <1>4, <2>1, <2>3 DEF DeleteMark, TypeOK
<1>. QED BY <1>1, <1>2, <1>3, <1>4

LEMMA AfterUpdateType ==
  ASSUME TypeOK, NEW h \in Handlers, AfterUpdate(h)
  PROVE  request' \in [Handlers -> Request]
<1>1. Unseen \in Snapshot /\ 0 \in 0 .. MaxTries /\ "event.outputs" \in Step
  BY DEF Unseen, Snapshot, MaxTries, Step
<1>2. request[h] \in Request
  BY DEF TypeOK
<1>3. [request[h] EXCEPT !.at = "event.outputs", !.seen = Unseen, !.tries = 0]
        \in Request
  BY <1>1, <1>2 DEF Request
<1>. QED BY <1>3, RequestWrite, FinishType DEF AfterUpdate

LEMMA EventType ==
  ASSUME TypeOK, RequestOK, NEW h \in Handlers,
         (\E j \in Jobs, n \in AttemptNumber, s \in Events :
            BeginEvent(h, j, n, s))
           \/ EventRead(h) \/ EventWrite(h) \/ EventOutputs(h)
  PROVE  TypeOK'
<1>0. request[h] \in Request /\ request[h].seen \in Snapshot
  BY DEF TypeOK, Request
<1>1. ASSUME NEW j \in Jobs, NEW n \in AttemptNumber, NEW s \in Events,
             BeginEvent(h, j, n, s)
      PROVE  TypeOK'
  <2>1. [Idle EXCEPT !.at = "event.read", !.job = j, !.attempt = n,
                     !.status = s] \in Request
    BY IdleType, EventsAssumption DEF Request, Step
  <2>2. request' \in [Handlers -> Request]
    BY <1>1, <2>1, RequestWrite DEF BeginEvent
  <2>. QED BY <1>1, <2>2 DEF BeginEvent, TypeOK, database
<1>2. ASSUME EventRead(h) PROVE TypeOK'
  <2>0. request[h].job \in Jobs
    BY <1>2 DEF EventRead, RequestOK, HandlerOK
  <2>1. [request[h] EXCEPT !.at = "event.write", !.seen = Seen(request[h].job)]
          \in Request
    BY <1>0, <2>0, SeenType DEF Request, Step
  <2>2. request' \in [Handlers -> Request]
    BY <1>2, <2>1, AfterUpdateType, FinishType, RequestWrite DEF EventRead
  <2>. QED BY <1>2, <2>2 DEF EventRead, TypeOK, database
<1>3. ASSUME EventWrite(h) PROVE TypeOK'
  <2>. DEFINE j == request[h].job
              n == request[h].seen.attempt
              s == request[h].status
  <2>0. j \in Jobs /\ s \in Reported /\ s \in JobStatus
    BY <1>0, <1>3, Statuses DEF EventWrite, RequestOK, HandlerOK, Request
  <2>9. job[j] \in JobRow
    BY <2>0 DEF TypeOK
  <2>1. request' \in [Handlers -> Request]
    <3>1. Unseen \in Snapshot /\ "event.read" \in Step
      BY DEF Unseen, Snapshot, Step
    <3>2. ASSUME request[h].tries + 1 < MaxTries
          PROVE  [request[h] EXCEPT !.at = "event.read", !.seen = Unseen,
                                    !.tries = request[h].tries + 1] \in Request
      <4>1. request[h].tries \in 0 .. MaxTries
        BY <1>0 DEF Request
      <4>2. request[h].tries + 1 \in 0 .. MaxTries
        BY <3>2, <4>1 DEF MaxTries
      <4>. QED BY <1>0, <3>1, <4>2 DEF Request
    <3>. QED BY <1>3, <3>2, AfterUpdateType, FinishType, RequestWrite
             DEF EventWrite
  <2>2. CASE UNCHANGED <<job, attempt>>
    BY <1>3, <2>1, <2>2 DEF EventWrite, TypeOK
  <2>3. CASE n # NoAttempt /\ UpdateRows(j, request[h].seen, s)
    <3>0. n \in AttemptNumber
      BY <1>0, <2>3 DEF Snapshot
    <3>1. [job[j] EXCEPT !.status = s, !.observed = s] \in JobRow
      BY <2>0, <2>9, JobStatusColumns
    <3>2. job' \in [Jobs -> JobRow]
      BY <2>0, <2>3, <3>1, JobWrite DEF UpdateRows
    <3>3. attempt[j][n] \in AttemptRow
      BY <2>0, <3>0, AttemptType
    <3>4. [attempt[j][n] EXCEPT !.status = s,
                                !.revoked = IF s \in Terminal THEN TRUE
                                            ELSE attempt[j][n].revoked]
            \in AttemptRow
      BY <2>0, <3>3, AttemptColumns
    <3>5. attempt' \in [Jobs -> [AttemptNumber -> AttemptRow]]
      BY <2>0, <2>3, <3>0, <3>4 DEF UpdateRows, TypeOK
    <3>. QED BY <1>3, <2>1, <3>2, <3>5 DEF EventWrite, TypeOK
  <2>. QED BY <1>3, <2>2, <2>3 DEF EventWrite
<1>4. ASSUME EventOutputs(h) PROVE TypeOK'
  <2>0. request[h].job \in Jobs /\ request[h].attempt \in AttemptNumber
    BY <1>0, <1>4 DEF EventOutputs, RequestOK, HandlerOK, Request
  <2>1. request' \in [Handlers -> Request]
    BY <1>4, FinishType DEF EventOutputs
  <2>2. [attempt[request[h].job][request[h].attempt] EXCEPT !.outputs = TRUE]
          \in AttemptRow
    BY <2>0, AttemptType, AttemptFlags
  <2>3. attempt' \in [Jobs -> [AttemptNumber -> AttemptRow]]
    BY <1>4, <2>0, <2>2 DEF EventOutputs, TypeOK
  <2>. QED BY <1>4, <2>1, <2>3 DEF EventOutputs, TypeOK
<1>. QED BY <1>1, <1>2, <1>3, <1>4

LEMMA AssignmentType ==
  ASSUME TypeOK, NEW j \in Jobs,
         DeliverAssignment(j)
           \/ \E n \in AttemptNumber : AcceptAssignment(j, n)
  PROVE  TypeOK'
<1>1. ASSUME DeliverAssignment(j) PROVE TypeOK'
  <2>1. job[j].attempt \in AttemptNumber
    BY <1>1 DEF DeliverAssignment, TypeOK, JobRow
  <2>2. [attempt[j][job[j].attempt] EXCEPT !.delivered = TRUE] \in AttemptRow
    BY <2>1, AttemptType, AttemptFlags
  <2>3. attempt' \in [Jobs -> [AttemptNumber -> AttemptRow]]
    BY <1>1, <2>1, <2>2 DEF DeliverAssignment, TypeOK
  <2>. QED BY <1>1, <2>3 DEF DeliverAssignment, TypeOK
<1>2. ASSUME NEW n \in AttemptNumber, AcceptAssignment(j, n) PROVE TypeOK'
  <2>1. [attempt[j][n] EXCEPT !.accepted = TRUE, !.status = "STARTING"]
          \in AttemptRow
    BY Statuses, AttemptType, AttemptColumns
  <2>2. attempt' \in [Jobs -> [AttemptNumber -> AttemptRow]]
    BY <1>2, <2>1 DEF AcceptAssignment, TypeOK
  <2>. QED BY <1>2, <2>2 DEF AcceptAssignment, TypeOK
<1>. QED BY <1>1, <1>2

LEMMA SchedulerType ==
  ASSUME TypeOK, SchedulerStep
  PROVE  TypeOK'
<1>1. ASSUME SchedulerRead PROVE TypeOK'
  BY <1>1 DEF SchedulerRead, TypeOK, database
<1>2. ASSUME NEW j \in Jobs, SchedulerSkip(j) PROVE TypeOK'
  BY <1>2 DEF SchedulerSkip, TypeOK, database
<1>3. ASSUME NEW j \in Jobs, NEW n \in Nodes, Reserve(j, n) PROVE TypeOK'
  <2>. DEFINE k == made[j] + 1
  <2>1. k \in AttemptNumber /\ k \in 0 .. MaxAttempts
    BY <1>3, BoundsAssumption DEF Reserve, TypeOK, AttemptNumber
  <2>2. made' \in [Jobs -> 0 .. MaxAttempts]
    BY <1>3, <2>1 DEF Reserve, TypeOK
  <2>3. job[j] \in JobRow
    BY DEF TypeOK
  <2>4. [job[j] EXCEPT !.status = "ASSIGNED", !.desired = "RUNNING",
                       !.attempt = k, !.node = n] \in JobRow
    BY <2>1, <2>3, Statuses DEF JobRow, Desired
  <2>5. job' \in [Jobs -> JobRow]
    BY <1>3, <2>4, JobWrite DEF Reserve
  <2>6. NewAttempt(n) \in AttemptRow
    BY Statuses DEF NewAttempt, AbsentAttempt, AttemptRow
  <2>7. attempt' \in [Jobs -> [AttemptNumber -> AttemptRow]]
    BY <1>3, <2>1, <2>6, AttemptWrite DEF Reserve
  <2>. QED BY <1>3, <2>2, <2>5, <2>7 DEF Reserve, TypeOK
<1>. QED BY <1>1, <1>2, <1>3 DEF SchedulerStep

LEMMA MonitorType ==
  ASSUME TypeOK, MonitorStep
  PROVE  TypeOK'
<1>1. ASSUME NEW nodes \in SUBSET Nodes, SweepSelect(nodes) PROVE TypeOK'
  BY <1>1 DEF SweepSelect, TypeOK, database, NoSweep, Sweep
<1>2. ASSUME NEW j \in Jobs, SweepJob(j) PROVE TypeOK'
  <2>1. job[j] \in JobRow
    BY DEF TypeOK
  <2>2. [job[j] EXCEPT !.status = "LOST", !.observed = "LOST"] \in JobRow
    BY <2>1, Statuses, JobStatusColumns
  <2>3. job' \in [Jobs -> JobRow]
    BY <1>2, <2>2, JobWrite DEF SweepJob, TypeOK
  <2>. QED BY <1>2, <2>3 DEF SweepJob, TypeOK, Sweep
<1>3. ASSUME SweepAttempt PROVE TypeOK'
  <2>. DEFINE j == sweep.marked
              n == job[j].attempt
  <2>1. j \in Jobs /\ sweep' \in Sweep
    BY <1>3 DEF SweepAttempt, TypeOK, Sweep
  <2>2. CASE n = NoAttempt
    BY <1>3, <2>1, <2>2 DEF SweepAttempt, TypeOK
  <2>3. CASE n # NoAttempt
    <3>1. n \in AttemptNumber
      BY <2>1, <2>3 DEF TypeOK, JobRow
    <3>2. [attempt[j][n] EXCEPT !.status = "LOST"] \in AttemptRow
      BY <2>1, <3>1, Statuses, AttemptType, AttemptColumns
    <3>3. attempt' \in [Jobs -> [AttemptNumber -> AttemptRow]]
      BY <1>3, <2>1, <2>3, <3>1, <3>2 DEF SweepAttempt, TypeOK
    <3>. QED BY <1>3, <2>1, <3>3 DEF SweepAttempt, TypeOK
  <2>. QED BY <2>2, <2>3
<1>. QED BY <1>1, <1>2, <1>3 DEF MonitorStep

LEMMA FailureType ==
  ASSUME TypeOK, FailureStep
  PROVE  TypeOK'
<1>1. ASSUME NEW h \in Handlers, RequestAborted(h) PROVE TypeOK'
  BY <1>1, FinishType DEF RequestAborted, TypeOK, database
<1>2. ASSUME ServerRestart PROVE TypeOK'
  BY <1>2, IdleType DEF ServerRestart, TypeOK, database, NoSweep, Sweep
<1>. QED BY <1>1, <1>2 DEF FailureStep

(* Type correctness rests on RequestOK: a handler that is not idle names a *)
(* job of the table.                                                       *)
LEMMA NextType == TypeOK /\ RequestOK /\ [Next]_vars => TypeOK'
<1>. SUFFICES ASSUME TypeOK, RequestOK, [Next]_vars PROVE TypeOK'
  OBVIOUS
<1>1. CASE UserStep
  BY <1>1, CreateType, RerunType, StopType, DeleteType DEF UserStep
<1>2. CASE AgentStep
  BY <1>2, EventType, AssignmentType DEF AgentStep
<1>3. CASE SchedulerStep
  BY <1>3, SchedulerType
<1>4. CASE MonitorStep
  BY <1>4, MonitorType
<1>5. CASE FailureStep
  BY <1>5, FailureType
<1>6. CASE UNCHANGED vars
  BY <1>6 DEF vars, TypeOK
<1>. QED BY <1>1, <1>2, <1>3, <1>4, <1>5, <1>6 DEF Next

-----------------------------------------------------------------------------
(* What a busy handler carries *)

LEMMA RequestStep ==
  ASSUME TypeOK, RequestOK, NEW h \in Handlers, NEW r, HandlerOK(r),
         request' = [request EXCEPT ![h] = r]
  PROVE  RequestOK'
BY DEF TypeOK, RequestOK

LEMMA FinishOK ==
  ASSUME TypeOK, RequestOK, NEW h \in Handlers, Finish(h)
  PROVE  RequestOK'
<1>1. HandlerOK(Idle)
  BY DEF HandlerOK, Idle
<1>. QED BY <1>1, RequestStep DEF Finish

LEMMA EnterOK ==
  ASSUME TypeOK, RequestOK, NEW h \in Handlers, NEW j \in Jobs,
         NEW step \in {"stop.cancel", "stop.write", "stop.attempt",
                       "delete.write", "delete.files", "delete.mark"},
         NEW seen, step = "stop.attempt" => seen.attempt # NoAttempt,
         Enter(h, j, step, seen)
  PROVE  RequestOK'
<1>1. HandlerOK([Idle EXCEPT !.at = step, !.job = j, !.seen = seen])
  BY DEF HandlerOK, Idle
<1>. QED BY <1>1, RequestStep DEF Enter

LEMMA UserRequest ==
  ASSUME TypeOK, RequestOK, UserStep
  PROVE  RequestOK'
<1>1. ASSUME NEW j \in Jobs, CreateJob(j) \/ RerunJob(j) PROVE RequestOK'
  BY <1>1 DEF CreateJob, RerunJob, RequestOK
<1>2. ASSUME NEW h \in Handlers, NEW j \in Jobs,
             BeginStop(h, j) \/ BeginDelete(h, j)
      PROVE  RequestOK'
  BY <1>2, EnterOK DEF BeginStop, BeginDelete
<1>3. ASSUME NEW h \in Handlers,
             StopCancel(h) \/ StopAttempt(h) \/ DeleteMark(h)
      PROVE  RequestOK'
  BY <1>3, FinishOK DEF StopCancel, StopAttempt, DeleteMark
<1>4. ASSUME NEW h \in Handlers,
             StopWrite(h) \/ DeleteWrite(h) \/ DeleteFiles(h)
      PROVE  RequestOK'
  <2>1. request[h].job \in Jobs
    BY <1>4 DEF StopWrite, DeleteWrite, DeleteFiles, RequestOK, HandlerOK
  <2>. QED BY <1>4, <2>1, EnterOK, FinishOK
           DEF StopWrite, DeleteWrite, DeleteFiles
<1>. QED BY <1>1, <1>2, <1>3, <1>4 DEF UserStep

LEMMA AgentRequest ==
  ASSUME TypeOK, RequestOK, AgentStep
  PROVE  RequestOK'
<1>1. ASSUME NEW j \in Jobs,
             DeliverAssignment(j)
               \/ \E n \in AttemptNumber : AcceptAssignment(j, n)
      PROVE  RequestOK'
  BY <1>1 DEF DeliverAssignment, AcceptAssignment, RequestOK
<1>2. ASSUME NEW h \in Handlers, NEW j \in Jobs, NEW n \in AttemptNumber,
             NEW s \in Events, BeginEvent(h, j, n, s)
      PROVE  RequestOK'
  <2>1. n # NoAttempt /\ s # "NONE"
    BY EventsAssumption, BoundsAssumption
       DEF AttemptNumber, NoAttempt, Reported, Terminal
  <2>2. HandlerOK([Idle EXCEPT !.at = "event.read", !.job = j,
                               !.attempt = n, !.status = s])
    BY <2>1 DEF HandlerOK, Idle
  <2>. QED BY <1>2, <2>2, RequestStep DEF BeginEvent
<1>3. ASSUME NEW h \in Handlers, AfterUpdate(h), request[h].job \in Jobs,
             request[h].attempt # NoAttempt, request[h].status # "NONE"
      PROVE  RequestOK'
  <2>1. request[h] \in Request
    BY DEF TypeOK
  <2>2. HandlerOK([request[h] EXCEPT !.at = "event.outputs",
                                     !.seen = Unseen, !.tries = 0])
    BY <1>3, <2>1 DEF HandlerOK, Request
  <2>. QED BY <1>3, <2>2, FinishOK, RequestStep DEF AfterUpdate
<1>4. ASSUME NEW h \in Handlers, EventRead(h) PROVE RequestOK'
  <2>. DEFINE j == request[h].job
  <2>1. /\ request[h] \in Request /\ j \in Jobs
        /\ request[h].attempt # NoAttempt /\ request[h].status # "NONE"
    BY <1>4 DEF EventRead, RequestOK, HandlerOK, TypeOK
  <2>2. ASSUME job[j].status \in JobStatus,
               CanTransition(job[j].status, request[h].status)
        PROVE  HandlerOK([request[h] EXCEPT !.at = "event.write",
                                            !.seen = Seen(j)])
    BY <2>1, <2>2 DEF HandlerOK, Request, Seen
  <2>. QED BY <1>3, <1>4, <2>1, <2>2, FinishOK, RequestStep DEF EventRead
<1>5. ASSUME NEW h \in Handlers, EventWrite(h) PROVE RequestOK'
  <2>1. /\ request[h] \in Request /\ request[h].job \in Jobs
        /\ request[h].attempt # NoAttempt /\ request[h].status # "NONE"
    BY <1>5 DEF EventWrite, RequestOK, HandlerOK, TypeOK
  <2>2. HandlerOK([request[h] EXCEPT !.at = "event.read", !.seen = Unseen,
                                     !.tries = request[h].tries + 1])
    BY <2>1 DEF HandlerOK, Request
  <2>3. CASE AfterUpdate(h)
    BY <1>3, <2>1, <2>3
  <2>4. CASE Finish(h)
    BY <2>4, FinishOK
  <2>5. CASE request' = [request EXCEPT ![h] =
                           [@ EXCEPT !.at = "event.read", !.seen = Unseen,
                                     !.tries = request[h].tries + 1]]
    BY <2>2, <2>5, RequestStep
  <2>. QED BY <1>5, <2>3, <2>4, <2>5 DEF EventWrite
<1>6. ASSUME NEW h \in Handlers, EventOutputs(h) PROVE RequestOK'
  BY <1>6, FinishOK DEF EventOutputs
<1>. QED BY <1>1, <1>2, <1>4, <1>5, <1>6 DEF AgentStep

LEMMA NextRequest == TypeOK /\ RequestOK /\ [Next]_vars => RequestOK'
<1>. SUFFICES ASSUME TypeOK, RequestOK, [Next]_vars PROVE RequestOK'
  OBVIOUS
<1>1. CASE SchedulerStep
  BY <1>1 DEF SchedulerStep, SchedulerRead, SchedulerSkip, Reserve, RequestOK
<1>2. CASE MonitorStep
  BY <1>2 DEF MonitorStep, SweepSelect, SweepJob, SweepAttempt, RequestOK
<1>3. ASSUME NEW h \in Handlers, RequestAborted(h) PROVE RequestOK'
  BY <1>3, FinishOK DEF RequestAborted
<1>4. CASE ServerRestart
  BY <1>4 DEF ServerRestart, RequestOK, HandlerOK, Idle
<1>5. CASE UNCHANGED vars
  BY <1>5 DEF vars, RequestOK
<1>. QED BY <1>1, <1>2, <1>3, <1>4, <1>5, UserRequest, AgentRequest
         DEF Next, FailureStep

-----------------------------------------------------------------------------
(* The database.  All actions but create, rerun and reserve keep a job's    *)
(* attempt and node, and write a status that is a result only when the     *)
(* current attempt is revoked                                              *)

Keeps ==
  /\ UNCHANGED <<made, reruns>>
  /\ \A j \in Jobs :
       /\ job'[j].attempt = job[j].attempt /\ job'[j].node = job[j].node
       /\ \/ job'[j].status = job[j].status
          \/ /\ job'[j].status \notin {"ABSENT", "QUEUED"}
             /\ job'[j].status \in Terminal /\ job[j].attempt # NoAttempt
                  => attempt'[j][job[j].attempt].revoked
  /\ \A j \in Jobs : \A n \in AttemptNumber :
       /\ attempt'[j][n].node = attempt[j][n].node
       /\ attempt[j][n].status # "ABSENT" => attempt'[j][n].status # "ABSENT"
       /\ attempt[j][n].revoked => attempt'[j][n].revoked

(* The attempts of a job are rows of the table. *)
LEMMA MadeAttempts ==
  ASSUME TypeOK, NEW j \in Jobs
  PROVE  /\ made[j] \in Nat
         /\ 1 .. made[j] \subseteq AttemptNumber
         /\ job[j].attempt # NoAttempt => job[j].attempt \in AttemptNumber
<1>1. made[j] \in 0 .. MaxAttempts
  BY DEF TypeOK
<1>2. job[j].attempt \in {NoAttempt} \cup AttemptNumber
  BY DEF TypeOK, JobRow
<1>. QED BY <1>1, <1>2, BoundsAssumption DEF AttemptNumber

LEMMA KeepsDatabase ==
  ASSUME IInv, Keeps
  PROVE  CurrentAttempt' /\ CredentialSafety' /\ NoAutomaticRetry'
<1>. USE DEF Keeps
<1>1. CurrentAttempt'
  BY MadeAttempts DEF IInv, CurrentAttempt
<1>2. CredentialSafety'
  BY MadeAttempts DEF IInv, CredentialSafety
<1>3. NoAutomaticRetry'
  <2>. SUFFICES ASSUME NEW j \in Jobs
                PROVE  made[j] <= reruns[j] + (IF job'[j].status = "QUEUED"
                                               THEN 0 ELSE 1)
    BY DEF NoAutomaticRetry
  <2>1. made[j] \in Nat /\ reruns[j] \in Nat
    BY MadeAttempts, BoundsAssumption DEF IInv, TypeOK
  <2>. QED BY <2>1 DEF IInv, NoAutomaticRetry
<1>. QED BY <1>1, <1>2, <1>3

(* A step that leaves the tables alone. *)
LEMMA ReadOnly ==
  ASSUME UNCHANGED database
  PROVE  Keeps
BY DEF database, Keeps

(* One row of job_attempts is written. *)
LEMMA AttemptPoint ==
  ASSUME TypeOK, NEW j \in Jobs, NEW n \in AttemptNumber, NEW row,
         attempt' = [attempt EXCEPT ![j][n] = row]
  PROVE  \A i \in Jobs : \A m \in AttemptNumber :
           attempt'[i][m] = IF i = j /\ m = n THEN row ELSE attempt[i][m]
BY DEF TypeOK

LEMMA AttemptStep ==
  ASSUME TypeOK, NEW j \in Jobs, NEW n \in AttemptNumber, NEW row,
         row.node = attempt[j][n].node, row.revoked = attempt[j][n].revoked,
         row.status # "ABSENT" \/ row.status = attempt[j][n].status,
         attempt' = [attempt EXCEPT ![j][n] = row],
         UNCHANGED <<job, made, reruns>>
  PROVE  Keeps
BY AttemptPoint DEF Keeps

(* The writes of an attempt's row other than the reservation's.             *)
LEMMA AttemptWrites ==
  ASSUME TypeOK, NEW j \in Jobs, NEW n \in AttemptNumber,
         UNCHANGED <<job, made, reruns>>,
         NEW s, s # "ABSENT",
         LET old == attempt[j][n] IN
         \/ attempt' = [attempt EXCEPT ![j][n] = [old EXCEPT !.status = s]]
         \/ attempt' = [attempt EXCEPT ![j][n] = [old EXCEPT !.accepted = TRUE,
                                                            !.status = s]]
         \/ attempt' = [attempt EXCEPT ![j][n] = [old EXCEPT !.delivered = TRUE]]
         \/ attempt' = [attempt EXCEPT ![j][n] = [old EXCEPT !.outputs = TRUE]]
  PROVE  Keeps
<1>. DEFINE old == attempt[j][n]
            row(k) == CASE k = 1 -> [old EXCEPT !.status = s]
                        [] k = 2 -> [old EXCEPT !.accepted = TRUE, !.status = s]
                        [] k = 3 -> [old EXCEPT !.delivered = TRUE]
                        [] k = 4 -> [old EXCEPT !.outputs = TRUE]
<1>1. old \in AttemptRow
  BY AttemptType
<1>2. PICK k \in 1 .. 4 : attempt' = [attempt EXCEPT ![j][n] = row(k)]
  OBVIOUS
<1>3. /\ row(k).node = old.node
      /\ row(k).revoked = old.revoked
      /\ row(k).status = s \/ row(k).status = old.status
  BY <1>1 DEF AttemptRow
<1>. HIDE DEF row
<1>. QED BY <1>2, <1>3, AttemptStep

(* The writes of a job's row other than create, rerun and reserve.          *)
LEMMA StatusWrites ==
  ASSUME TypeOK, NEW j \in Jobs,
         UNCHANGED <<attempt, made, reruns>>,
         NEW s, NEW t,
         s \notin {"ABSENT", "QUEUED"},
         s \in Terminal => job[j].attempt = NoAttempt,
         LET old == job[j] IN
         \/ job' = [job EXCEPT ![j] = [old EXCEPT !.status = s,
                                                  !.desired = t]]
         \/ job' = [job EXCEPT ![j] = [old EXCEPT !.status = s,
                                                  !.observed = s]]
         \/ job' = [job EXCEPT ![j] = [old EXCEPT !.status = s,
                                                  !.desired = t,
                                                  !.observed = t]]
  PROVE  Keeps
<1>. DEFINE old == job[j]
            row(k) == CASE k = 1 -> [old EXCEPT !.status = s, !.desired = t]
                        [] k = 2 -> [old EXCEPT !.status = s, !.observed = s]
                        [] k = 3 -> [old EXCEPT !.status = s, !.desired = t,
                                                !.observed = t]
<1>1. old \in JobRow /\ job \in [Jobs -> JobRow]
  BY DEF TypeOK
<1>2. PICK k \in 1 .. 3 : job' = [job EXCEPT ![j] = row(k)]
  OBVIOUS
<1>3. /\ row(k).status = s
      /\ row(k).attempt = old.attempt
      /\ row(k).node = old.node
  BY <1>1 DEF JobRow
<1>. HIDE DEF row
<1>4. \A i \in Jobs : job'[i] = IF i = j THEN row(k) ELSE job[i]
  BY <1>1, <1>2
<1>. QED BY <1>3, <1>4 DEF Keeps

(* The transaction of UpdateJobStatus revokes with the result it records.   *)
LEMMA ResultWrite ==
  ASSUME TypeOK, NEW j \in Jobs, NEW seen, NEW s \in Reported,
         seen.attempt = job[j].attempt, seen.attempt \in AttemptNumber,
         UpdateRows(j, seen, s), UNCHANGED <<made, reruns>>
  PROVE  Keeps
<1>. DEFINE n == job[j].attempt
            old == attempt[j][n]
            row == [old EXCEPT !.status = s,
                               !.revoked = IF s \in Terminal THEN TRUE
                                           ELSE attempt[j][n].revoked]
            jobrow == [job[j] EXCEPT !.status = s, !.observed = s]
<1>1. s \notin {"ABSENT", "QUEUED"}
  BY DEF Reported, Terminal
<1>2. old \in AttemptRow /\ job[j] \in JobRow /\ job \in [Jobs -> JobRow]
  BY AttemptType DEF TypeOK
<1>3. /\ row.node = old.node /\ row.status = s
      /\ row.revoked = IF s \in Terminal THEN TRUE ELSE old.revoked
  BY <1>2 DEF AttemptRow
<1>4. /\ jobrow.status = s /\ jobrow.attempt = job[j].attempt
      /\ jobrow.node = job[j].node
  BY <1>2 DEF JobRow
<1>5. attempt' = [attempt EXCEPT ![j][n] = row] /\ job' = [job EXCEPT ![j] = jobrow]
  BY DEF UpdateRows
<1>. HIDE DEF row, jobrow
<1>6. \A i \in Jobs : \A m \in AttemptNumber :
        attempt'[i][m] = IF i = j /\ m = n THEN row ELSE attempt[i][m]
  BY <1>5 DEF TypeOK
<1>7. \A i \in Jobs : job'[i] = IF i = j THEN jobrow ELSE job[i]
  BY <1>2, <1>5
<1>. QED BY <1>1, <1>3, <1>4, <1>6, <1>7 DEF Keeps

LEMMA StatusDesired ==
  ASSUME TypeOK, NEW j \in Jobs,
         UNCHANGED <<attempt, made, reruns>>,
         NEW s, NEW t, s \notin {"ABSENT", "QUEUED"}, s \notin Terminal,
         job' = [job EXCEPT ![j] = [@ EXCEPT !.status = s, !.desired = t]]
  PROVE  Keeps
BY StatusWrites

LEMMA KeepsUser ==
  ASSUME IInv, NEW h \in Handlers,
         \/ \E j \in Jobs : BeginStop(h, j) \/ BeginDelete(h, j)
         \/ StopCancel(h) \/ StopWrite(h) \/ StopAttempt(h)
         \/ DeleteWrite(h) \/ DeleteFiles(h) \/ DeleteMark(h)
  PROVE  Keeps
<1>. USE DEF IInv
<1>1. CASE \/ \E j \in Jobs : BeginStop(h, j) \/ BeginDelete(h, j)
           \/ DeleteFiles(h)
  BY <1>1, ReadOnly DEF BeginStop, BeginDelete, DeleteFiles
<1>2. CASE StopCancel(h) \/ StopWrite(h) \/ DeleteWrite(h) \/ DeleteMark(h)
  <2>1. request[h].job \in Jobs /\ UNCHANGED <<attempt, made, reruns>>
    BY <1>2 DEF StopCancel, StopWrite, DeleteWrite, DeleteMark, RequestOK,
                HandlerOK
  <2>2. job[request[h].job].status = "QUEUED"
          => job[request[h].job].attempt = NoAttempt
    BY <2>1 DEF CurrentAttempt
  <2>3. CASE StopCancel(h) /\ job[request[h].job].status = "QUEUED"
    BY <2>1, <2>2, <2>3, StatusWrites DEF StopCancel
  <2>4. CASE UNCHANGED job
    BY <2>1, <2>4, ReadOnly DEF database
  <2>5. CASE StopWrite(h)
    <3>1. job' = [job EXCEPT ![request[h].job] =
                    [@ EXCEPT !.status = "STOPPING", !.desired = "CANCELLED"]]
      BY <2>5 DEF StopWrite
    <3>2. "STOPPING" \notin {"ABSENT", "QUEUED"} /\ "STOPPING" \notin Terminal
      BY DEF Terminal
    <3>. QED BY <2>1, <3>1, <3>2, StatusDesired, Zenon
  <2>6. CASE DeleteWrite(h)
    <3>1. job' = [job EXCEPT ![request[h].job] =
                    [@ EXCEPT !.status = "DELETING", !.desired = "DELETING"]]
      BY <2>6 DEF DeleteWrite
    <3>2. "DELETING" \notin {"ABSENT", "QUEUED"} /\ "DELETING" \notin Terminal
      BY DEF Terminal
    <3>. QED BY <2>1, <3>1, <3>2, StatusDesired, Zenon
  <2>7. CASE DeleteMark(h)
    BY <2>1, <2>7, StatusWrites DEF DeleteMark, Terminal
  <2>. QED BY <1>2, <2>3, <2>4, <2>5, <2>6, <2>7 DEF StopCancel
<1>3. CASE StopAttempt(h)
  <2>. DEFINE j == request[h].job
              n == request[h].seen.attempt
  <2>1. j \in Jobs /\ n \in AttemptNumber
    BY <1>3 DEF StopAttempt, RequestOK, HandlerOK, TypeOK, Request, Snapshot
  <2>. QED BY <1>3, <2>1, AttemptWrites DEF StopAttempt
<1>. QED BY <1>1, <1>2, <1>3

LEMMA KeepsAgent ==
  ASSUME IInv, AgentStep
  PROVE  Keeps
<1>. USE DEF IInv
<1>0. /\ job \in [Jobs -> JobRow]
      /\ attempt \in [Jobs -> [AttemptNumber -> AttemptRow]]
  BY DEF TypeOK
<1>1. ASSUME NEW h \in Handlers,
             \/ \E j \in Jobs, n \in AttemptNumber, s \in Events :
                  BeginEvent(h, j, n, s)
             \/ EventRead(h)
      PROVE  Keeps
  BY <1>1, ReadOnly DEF BeginEvent, EventRead
<1>2. ASSUME NEW h \in Handlers, EventWrite(h) PROVE Keeps
  <2>. DEFINE j == request[h].job
              n == request[h].seen.attempt
              s == request[h].status
  <2>1. /\ j \in Jobs /\ s \in Reported /\ n \in {NoAttempt} \cup AttemptNumber
        /\ UNCHANGED <<made, reruns>>
    BY <1>2 DEF EventWrite, RequestOK, HandlerOK, TypeOK, Request, Snapshot
  <2>2. CASE UNCHANGED <<job, attempt>>
    BY <2>1, <2>2, ReadOnly DEF database
  <2>3. CASE /\ Seen(j) = request[h].seen /\ n # NoAttempt
             /\ UpdateRows(j, request[h].seen, s)
    <3>1. job[j].attempt = n /\ n \in AttemptNumber
      BY <2>1, <2>3 DEF Seen
    <3>. QED BY <2>1, <2>3, <3>1, ResultWrite
  <2>. QED BY <1>2, <2>2, <2>3 DEF EventWrite
<1>3. ASSUME NEW h \in Handlers, EventOutputs(h) PROVE Keeps
  <2>. DEFINE j == request[h].job
              n == request[h].attempt
  <2>1. j \in Jobs /\ n \in AttemptNumber
    BY <1>3 DEF EventOutputs, RequestOK, HandlerOK, TypeOK, Request
  <2>. QED BY <1>3, <2>1, AttemptWrites DEF EventOutputs
<1>4. ASSUME NEW j \in Jobs, DeliverAssignment(j) PROVE Keeps
  <2>. DEFINE n == job[j].attempt
  <2>1. n \in AttemptNumber
    BY <1>0, <1>4 DEF DeliverAssignment, JobRow
  <2>. QED BY <1>4, <2>1, AttemptWrites DEF DeliverAssignment
<1>5. ASSUME NEW j \in Jobs, NEW n \in AttemptNumber, AcceptAssignment(j, n)
      PROVE  Keeps
  BY <1>5, AttemptWrites DEF AcceptAssignment
<1>. QED BY <1>1, <1>2, <1>3, <1>4, <1>5 DEF AgentStep

LEMMA KeepsMonitor ==
  ASSUME IInv, MonitorStep
  PROVE  Keeps
<1>. USE DEF IInv
<1>1. ASSUME NEW nodes \in SUBSET Nodes, SweepSelect(nodes) PROVE Keeps
  BY <1>1, ReadOnly DEF SweepSelect
<1>2. ASSUME NEW j \in Jobs, SweepJob(j) PROVE Keeps
  <2>1. CASE UNCHANGED job
    BY <1>2, <2>1, ReadOnly DEF SweepJob, database
  <2>2. CASE job' = [job EXCEPT ![j] = [@ EXCEPT !.status = "LOST",
                                                 !.observed = "LOST"]]
    BY <1>2, <2>2, StatusWrites DEF SweepJob, Terminal
  <2>. QED BY <1>2, <2>1, <2>2 DEF SweepJob
<1>3. ASSUME SweepAttempt PROVE Keeps
  <2>1. /\ sweep.marked \in Jobs
        /\ job[sweep.marked].attempt \in {NoAttempt} \cup AttemptNumber
    BY <1>3 DEF SweepAttempt, TypeOK, Sweep, JobRow
  <2>2. CASE job[sweep.marked].attempt = NoAttempt
    BY <1>3, <2>2, ReadOnly DEF SweepAttempt, database
  <2>3. CASE job[sweep.marked].attempt # NoAttempt
    BY <1>3, <2>1, <2>3, AttemptWrites DEF SweepAttempt
  <2>. QED BY <2>2, <2>3
<1>. QED BY <1>1, <1>2, <1>3 DEF MonitorStep

LEMMA CreateKeepsInv ==
  ASSUME IInv, NEW j \in Jobs, CreateJob(j)
  PROVE  CurrentAttempt' /\ CredentialSafety' /\ NoAutomaticRetry'
<1>. USE DEF IInv
<1>. DEFINE row == [job[j] EXCEPT !.status = "QUEUED"]
<1>1. job[j] \in JobRow /\ job \in [Jobs -> JobRow]
  BY DEF TypeOK
<1>2. /\ row.status = "QUEUED" /\ row.attempt = job[j].attempt
      /\ row.node = job[j].node
  BY <1>1 DEF JobRow
<1>3. /\ \A i \in Jobs : job'[i] = IF i = j THEN row ELSE job[i]
      /\ UNCHANGED <<attempt, made, reruns>>
  BY <1>1 DEF CreateJob
<1>4. job[j].attempt = NoAttempt /\ made[j] = 0 /\ reruns[j] \in Nat
  BY BoundsAssumption DEF CreateJob, CurrentAttempt, TypeOK
<1>. HIDE DEF row
<1>5. CurrentAttempt'
  BY <1>2, <1>3, <1>4 DEF CurrentAttempt
<1>6. CredentialSafety'
  BY <1>2, <1>3, <1>4 DEF CredentialSafety, Terminal
<1>7. NoAutomaticRetry'
  BY <1>2, <1>3, <1>4 DEF NoAutomaticRetry
<1>. QED BY <1>5, <1>6, <1>7

(* A rerun starts from a result: the attempt it leaves behind is revoked.   *)
LEMMA RerunKeepsInv ==
  ASSUME IInv, NEW j \in Jobs, RerunJob(j)
  PROVE  CurrentAttempt' /\ CredentialSafety' /\ NoAutomaticRetry'
<1>. USE DEF IInv
<1>1. /\ \A i \in Jobs : i # j => job'[i] = job[i] /\ reruns'[i] = reruns[i]
      /\ job'[j].status = "QUEUED" /\ job'[j].attempt = NoAttempt
      /\ job'[j].node = NoNode /\ reruns'[j] = reruns[j] + 1
      /\ UNCHANGED <<attempt, made>>
      /\ job[j].status \in Terminal
  BY DEF RerunJob, TypeOK
<1>2. made[j] \in Nat /\ reruns[j] \in Nat
  BY MadeAttempts, BoundsAssumption DEF TypeOK
<1>3. CurrentAttempt'
  BY <1>1 DEF CurrentAttempt
<1>4. CredentialSafety'
  <2>1. \A n \in 1 .. made[j] : attempt[j][n].revoked
    BY <1>1 DEF CredentialSafety, CurrentAttempt, NoAttempt
  <2>. QED BY <1>1, <2>1 DEF CredentialSafety, Terminal
<1>5. NoAutomaticRetry'
  BY <1>1, <1>2 DEF NoAutomaticRetry, Terminal
<1>. QED BY <1>3, <1>4, <1>5

(* A reservation takes a queued job, which has no current attempt.          *)
LEMMA ReserveKeepsInv ==
  ASSUME IInv, NEW j \in Jobs, NEW node \in Nodes, Reserve(j, node)
  PROVE  CurrentAttempt' /\ CredentialSafety' /\ NoAutomaticRetry'
<1>. USE DEF IInv
<1>. DEFINE k == made[j] + 1
            row == [job[j] EXCEPT !.status = "ASSIGNED", !.desired = "RUNNING",
                                  !.attempt = k, !.node = node]
<1>0. job[j].status = "QUEUED" /\ job[j].attempt = NoAttempt
  BY DEF Reserve, CurrentAttempt
<1>1. /\ made[j] \in Nat /\ reruns[j] \in Nat /\ k \in AttemptNumber
      /\ k # NoAttempt /\ node # NoNode
      /\ job[j] \in JobRow /\ job \in [Jobs -> JobRow]
  BY MadeAttempts, BoundsAssumption, NamesAssumption
     DEF TypeOK, Reserve, AttemptNumber, NoAttempt
<1>2. row.status = "ASSIGNED" /\ row.attempt = k /\ row.node = node
  BY <1>1 DEF JobRow
<1>3. NewAttempt(node).node = node /\ NewAttempt(node).status = "ASSIGNED"
  BY DEF NewAttempt, AbsentAttempt
<1>4. /\ \A i \in Jobs : job'[i] = IF i = j THEN row ELSE job[i]
      /\ \A i \in Jobs : made'[i] = IF i = j THEN k ELSE made[i]
      /\ UNCHANGED reruns
  BY <1>1 DEF Reserve, TypeOK
<1>5. \A i \in Jobs : \A m \in AttemptNumber :
        attempt'[i][m] = IF i = j /\ m = k THEN NewAttempt(node)
                         ELSE attempt[i][m]
  BY <1>1 DEF Reserve, TypeOK
<1>. HIDE DEF row
<1>6. CurrentAttempt'
  BY <1>1, <1>2, <1>3, <1>4, <1>5, MadeAttempts DEF CurrentAttempt
<1>7. CredentialSafety'
  <2>1. \A n \in 1 .. made[j] : n \in AttemptNumber /\ n # k /\ attempt[j][n].revoked
    BY <1>0, <1>1, MadeAttempts DEF CredentialSafety, NoAttempt
  <2>2. 1 .. k = (1 .. made[j]) \cup {k}
    BY <1>1
  <2>. QED BY <1>1, <1>2, <1>4, <1>5, <2>1, <2>2, MadeAttempts
           DEF CredentialSafety, Terminal
<1>8. NoAutomaticRetry'
  BY <1>0, <1>1, <1>2, <1>4 DEF NoAutomaticRetry
<1>. QED BY <1>6, <1>7, <1>8

-----------------------------------------------------------------------------
(* The inductive invariant *)

LEMMA InitInv == Init => IInv
<1>. SUFFICES ASSUME Init PROVE IInv
  OBVIOUS
<1>1. TypeOK
  BY InitType
<1>2. RequestOK
  BY DEF Init, RequestOK, HandlerOK, Idle
<1>3. CurrentAttempt
  BY DEF Init, CurrentAttempt, AbsentJob
<1>4. CredentialSafety
  BY DEF Init, CredentialSafety, AbsentJob, Terminal
<1>5. NoAutomaticRetry
  BY DEF Init, NoAutomaticRetry
<1>. QED BY <1>1, <1>2, <1>3, <1>4, <1>5 DEF IInv

LEMMA NextInv == IInv /\ [Next]_vars => IInv'
<1>. SUFFICES ASSUME IInv, [Next]_vars PROVE IInv'
  OBVIOUS
<1>1. TypeOK' /\ RequestOK'
  BY NextType, NextRequest DEF IInv
<1>2. Keeps => CurrentAttempt' /\ CredentialSafety' /\ NoAutomaticRetry'
  BY KeepsDatabase
<1>3. CurrentAttempt' /\ CredentialSafety' /\ NoAutomaticRetry'
  <2>1. CASE UserStep
    BY <1>2, <2>1, CreateKeepsInv, RerunKeepsInv, KeepsUser DEF UserStep
  <2>2. CASE AgentStep
    BY <1>2, <2>2, KeepsAgent
  <2>3. CASE SchedulerStep
    BY <1>2, <2>3, ReserveKeepsInv, ReadOnly
       DEF SchedulerStep, SchedulerRead, SchedulerSkip
  <2>4. CASE MonitorStep
    BY <1>2, <2>4, KeepsMonitor
  <2>5. CASE FailureStep
    BY <1>2, <2>5, ReadOnly DEF FailureStep, RequestAborted, ServerRestart
  <2>6. CASE UNCHANGED vars
    BY <1>2, <2>6, ReadOnly DEF vars, database
  <2>. QED BY <2>1, <2>2, <2>3, <2>4, <2>5, <2>6 DEF Next
<1>. QED BY <1>1, <1>3 DEF IInv

(* Every reachable state satisfies the inductive invariant. *)
THEOREM Invariance == Spec => []IInv
BY InitInv, NextInv, PTL DEF Spec

(* The tables, the handlers, the scheduler's queue and the monitor's pass   *)
(* keep their types under every interleaving of handlers, scheduler and    *)
(* monitor, for any number of each.                                        *)
THEOREM TypeCorrectness == Spec => []TypeOK
<1>1. IInv => TypeOK
  BY DEF IInv
<1>. QED BY <1>1, Invariance, PTL

(* A job's current attempt is its newest row of job_attempts and agrees     *)
(* with it on the node (ReserveJobWithAffinity and RerunJob are the only   *)
(* statements that move current_attempt_id).                               *)
THEOREM CurrentAttemptIsNewest == Spec => []CurrentAttempt
<1>1. IInv => CurrentAttempt
  BY DEF IInv
<1>. QED BY <1>1, Invariance, PTL

(* No SDK credential survives its attempt's result or a rerun: the          *)
(* revocation UpdateJobStatus performs in its transaction suffices, however *)
(* many stale stop, delete and event requests interleave with it.          *)
THEOREM CredentialsAreRevoked == Spec => []CredentialSafety
<1>1. IInv => CredentialSafety
  BY DEF IInv
<1>. QED BY <1>1, Invariance, PTL

(* The server starts at most one execution per request of a user, for any   *)
(* number of nodes, passes of the monitor and restarts.                    *)
THEOREM NeverRetriesByItself == Spec => []NoAutomaticRetry
<1>1. IInv => NoAutomaticRetry
  BY DEF IInv
<1>. QED BY <1>1, Invariance, PTL

-----------------------------------------------------------------------------
(* Results *)

(* The table gives a result one way out, and no agent reports it.           *)
LEMMA NoEventAfterResult ==
  ASSUME NEW s \in Terminal, NEW t \in Reported, CanTransition(s, t)
  PROVE  t = s
<1>1. s \in JobStatus /\ Allowed[s] = {"DELETING"}
  BY DEF Terminal, JobStatus, Allowed
<1>2. t # "DELETING"
  BY DEF Reported, Terminal
<1>. QED BY <1>1, <1>2 DEF CanTransition

LEMMA ResultStep == IInv /\ [Next]_vars => ResultKept
<1>. SUFFICES ASSUME IInv, [Next]_vars, NEW j \in Jobs,
                     job[j].status \in Terminal, job'[j].status # job[j].status
              PROVE  job'[j].status \in
                       {"QUEUED", "DELETING", "DELETED", "STOPPING"}
  BY DEF ResultKept
<1>. USE DEF IInv
<1>0. job \in [Jobs -> JobRow]
  BY DEF TypeOK
<1>1. CASE \E i \in Jobs : CreateJob(i) \/ RerunJob(i)
  BY <1>0, <1>1 DEF CreateJob, RerunJob, JobRow, Terminal
<1>2. ASSUME NEW h \in Handlers, StopCancel(h)
      PROVE  FALSE
  BY <1>0, <1>2 DEF StopCancel, JobRow, Terminal
<1>3. ASSUME NEW h \in Handlers,
             StopWrite(h) \/ DeleteWrite(h) \/ DeleteMark(h)
      PROVE  job'[j].status \in {"DELETING", "DELETED", "STOPPING"}
  <2>1. job[request[h].job] \in JobRow
    BY <1>0, <1>3 DEF StopWrite, DeleteWrite, DeleteMark, RequestOK, HandlerOK
  <2>. QED BY <1>0, <1>3, <2>1 DEF StopWrite, DeleteWrite, DeleteMark, JobRow
<1>4. ASSUME NEW h \in Handlers, EventWrite(h) PROVE FALSE
  <2>. DEFINE s == request[h].status
  <2>1. UpdateRows(request[h].job, request[h].seen, s)
        /\ Seen(request[h].job) = request[h].seen
    BY <1>4 DEF EventWrite
  <2>2. s \in Reported /\ CanTransition(request[h].seen.status, s)
        /\ request[h].job \in Jobs
    BY <1>4 DEF EventWrite, RequestOK, HandlerOK, TypeOK, Request
  <2>3. j = request[h].job /\ job'[j].status = s
    BY <1>0, <2>1, <2>2 DEF UpdateRows, JobRow
  <2>4. request[h].seen.status = job[j].status
    BY <2>1, <2>3 DEF Seen
  <2>. QED BY <2>2, <2>3, <2>4, NoEventAfterResult
<1>5. ASSUME NEW i \in Jobs, NEW n \in Nodes, Reserve(i, n) PROVE FALSE
  BY <1>0, <1>5 DEF Reserve, Terminal
<1>6. ASSUME NEW i \in Jobs, SweepJob(i) PROVE FALSE
  BY <1>0, <1>6 DEF SweepJob, Executing, Active, Terminal
<1>7. job' # job
  OBVIOUS
<1>8. CASE UserStep
  BY <1>1, <1>2, <1>3, <1>7, <1>8
     DEF UserStep, BeginStop, BeginDelete, DeleteFiles, StopAttempt, database
<1>9. CASE AgentStep
  BY <1>4, <1>7, <1>9
     DEF AgentStep, BeginEvent, EventRead, EventOutputs, DeliverAssignment,
         AcceptAssignment, database
<1>10. CASE SchedulerStep
  BY <1>5, <1>7, <1>10
     DEF SchedulerStep, SchedulerRead, SchedulerSkip, database
<1>11. CASE MonitorStep
  BY <1>6, <1>7, <1>11 DEF MonitorStep, SweepSelect, SweepAttempt, database
<1>12. CASE FailureStep
  BY <1>7, <1>12 DEF FailureStep, RequestAborted, ServerRestart, database
<1>13. CASE UNCHANGED vars
  BY <1>7, <1>13 DEF vars
<1>. QED BY <1>8, <1>9, <1>10, <1>11, <1>12, <1>13 DEF Next

(* Only a user's request takes a job away from its result: neither a        *)
(* delayed agent event (UpdateJobStatus compares and swaps against the     *)
(* transition table) nor the node monitor or the scheduler does.           *)
THEOREM ResultsAreLeftByUsersOnly == Spec => ResultLeftOnlyByUser
<1>1. IInv /\ [Next]_vars => [ResultKept]_vars
  BY ResultStep
<1>. QED BY <1>1, Invariance, PTL DEF Spec, ResultLeftOnlyByUser

-----------------------------------------------------------------------------
(* The refinement *)

LEMMA PhaseCases ==
  /\ PhaseOf("ABSENT") = "absent" /\ PhaseOf("QUEUED") = "waiting"
  /\ \A s \in Active : PhaseOf(s) = "placed"
  /\ \A s \in Terminal : PhaseOf(s) = "ended"
  /\ PhaseOf("DELETING") = "removed" /\ PhaseOf("DELETED") = "removed"
  /\ \A s \in JobStatus : PhaseOf(s) \in {"waiting", "placed", "ended", "removed"}
BY DEF PhaseOf, Active, Terminal, JobStatus

(* A write of one job's status that leaves its node and the counters alone. *)
LEMMA StatusMoves ==
  ASSUME NEW j \in Jobs, NEW s \in JobStatus,
         job \in [Jobs -> JobRow], job' \in [Jobs -> JobRow],
         \A i \in Jobs \ {j} : job'[i] = job[i],
         job'[j].status = s, job'[j].node = job[j].node,
         job[j].status \in JobStatus, UNCHANGED <<made, reruns>>,
         \/ PhaseOf(s) = PhaseOf(job[j].status)
         \/ s \in Active \cup {"DELETING", "DELETED"}
         \/ s \in Terminal /\ job[j].status \in Active \cup {"QUEUED"}
  PROVE  [Lifecycle!Next]_(Lifecycle!vars)
<1>. DEFINE phase(f) == [i \in Jobs |-> PhaseOf(f[i].status)]
            on(f) == [i \in Jobs |-> f[i].node]
            asked(f, r) == [i \in Jobs |-> r[i] + IF f[i].status = "ABSENT" THEN 0 ELSE 1]
<1>1. phase(job') = [phase(job) EXCEPT ![j] = PhaseOf(s)]
  OBVIOUS
<1>2. on(job') = on(job)
  OBVIOUS
<1>3. asked(job', reruns') = asked(job, reruns)
  BY DEF JobStatus
<1>4. phase(job)[j] = PhaseOf(job[j].status)
  OBVIOUS
<1>5. CASE PhaseOf(s) = PhaseOf(job[j].status)
  <2>1. phase(job') = phase(job)
    BY <1>1, <1>4, <1>5
  <2>. QED BY <2>1, <1>2, <1>3 DEF Lifecycle!vars
<1>6. CASE s \in Active
  <2>1. Lifecycle!Stop(j)
    BY <1>1, <1>2, <1>3, <1>4, <1>6, PhaseCases
       DEF Lifecycle!Stop, Lifecycle!Moves, Lifecycle!Phases
  <2>. QED BY <2>1 DEF Lifecycle!Next
<1>7. CASE s \in {"DELETING", "DELETED"}
  <2>1. Lifecycle!Remove(j)
    BY <1>1, <1>2, <1>3, <1>4, <1>7, PhaseCases
       DEF Lifecycle!Remove, Lifecycle!Moves, Lifecycle!Phases
  <2>. QED BY <2>1 DEF Lifecycle!Next
<1>8. CASE s \in Terminal /\ job[j].status \in Active
  <2>1. Lifecycle!End(j)
    BY <1>1, <1>2, <1>3, <1>4, <1>8, PhaseCases DEF Lifecycle!End, Lifecycle!Moves
  <2>. QED BY <2>1 DEF Lifecycle!Next
<1>9. CASE s \in Terminal /\ job[j].status = "QUEUED"
  <2>1. Lifecycle!Withdraw(j)
    BY <1>1, <1>2, <1>3, <1>4, <1>9, PhaseCases DEF Lifecycle!Withdraw, Lifecycle!Moves
  <2>. QED BY <2>1 DEF Lifecycle!Next
<1>. QED BY <1>5, <1>6, <1>7, <1>8, <1>9


(* A busy handler serves a job of the table: rows are never removed.        *)
Served ==
  \A h \in Handlers : request[h].at # "idle" => job[request[h].job].status # "ABSENT"

LEMMA RowsStay ==
  ASSUME IInv, [Next]_vars, NEW j \in Jobs, job[j].status # "ABSENT"
  PROVE  job'[j].status # "ABSENT"
<1>1. Keeps => job'[j].status # "ABSENT"
  BY DEF Keeps
<1>2. job \in [Jobs -> JobRow]
  BY DEF IInv, TypeOK
<1>3. CASE UserStep
  BY <1>1, <1>2, <1>3, KeepsUser DEF UserStep, CreateJob, RerunJob, JobRow
<1>4. CASE AgentStep
  BY <1>1, <1>4, KeepsAgent
<1>5. CASE SchedulerStep
  <2>1. ASSUME NEW i \in Jobs, NEW n \in Nodes, Reserve(i, n)
        PROVE  job'[j].status # "ABSENT"
    BY <1>2, <2>1 DEF Reserve, JobRow
  <2>2. ASSUME NEW i \in Jobs, SchedulerRead \/ SchedulerSkip(i)
        PROVE  job'[j].status # "ABSENT"
    BY <1>1, <2>2, ReadOnly DEF SchedulerRead, SchedulerSkip
  <2>. QED BY <1>5, <2>1, <2>2 DEF SchedulerStep
<1>6. CASE MonitorStep
  BY <1>1, <1>6, KeepsMonitor
<1>7. CASE FailureStep
  BY <1>1, <1>7, ReadOnly DEF FailureStep, RequestAborted, ServerRestart
<1>8. CASE UNCHANGED vars
  BY <1>1, <1>8, ReadOnly DEF vars, database
<1>. QED BY <1>3, <1>4, <1>5, <1>6, <1>7, <1>8 DEF Next

(* What becomes of one handler: nothing, it ends, it goes on with its job,  *)
(* or it starts on one that is there.                                      *)
GoesOn(h) ==
  \/ request' = request
  \/ \E r : /\ request' = [request EXCEPT ![h] = r]
            /\ \/ r.at = "idle"
               \/ request[h].at # "idle" /\ r.job = request[h].job
               \/ job[r.job].status # "ABSENT"

LEMMA EndsOrGoesOn ==
  ASSUME TypeOK, NEW h \in Handlers,
         \/ Finish(h)
         \/ request[h].at # "idle" /\ AfterUpdate(h)
         \/ \E j, step, seen :
              /\ Enter(h, j, step, seen)
              /\ \/ request[h].at # "idle" /\ j = request[h].job
                 \/ job[j].status # "ABSENT"
  PROVE  GoesOn(h)
<1>1. request[h] \in Request
  BY DEF TypeOK
<1>2. CASE Finish(h)
  <2>1. Idle.at = "idle"
    BY DEF Idle
  <2>. QED BY <1>2, <2>1 DEF Finish, GoesOn
<1>3. CASE request[h].at # "idle" /\ AfterUpdate(h)
  <2>1. [request[h] EXCEPT !.at = "event.outputs", !.seen = Unseen, !.tries = 0].job
          = request[h].job
    BY <1>1 DEF Request
  <2>. QED BY <1>2, <1>3, <2>1 DEF AfterUpdate, GoesOn
<1>4. ASSUME NEW j, NEW step, NEW seen, Enter(h, j, step, seen),
             \/ request[h].at # "idle" /\ j = request[h].job
             \/ job[j].status # "ABSENT"
      PROVE  GoesOn(h)
  <2>1. [Idle EXCEPT !.at = step, !.job = j, !.seen = seen].job = j
    BY DEF Idle
  <2>. QED BY <1>4, <2>1 DEF Enter, GoesOn
<1>. QED BY <1>2, <1>3, <1>4

LEMMA UserGoesOn ==
  ASSUME IInv, NEW h \in Handlers,
         \/ \E j \in Jobs : BeginStop(h, j) \/ BeginDelete(h, j)
         \/ StopCancel(h) \/ StopWrite(h) \/ StopAttempt(h)
         \/ DeleteWrite(h) \/ DeleteFiles(h) \/ DeleteMark(h)
  PROVE  GoesOn(h)
<1>1. TypeOK
  BY DEF IInv
<1>2. ASSUME NEW j \in Jobs, BeginStop(h, j) \/ BeginDelete(h, j) PROVE GoesOn(h)
  BY <1>1, <1>2, EndsOrGoesOn DEF BeginStop, BeginDelete, Active
<1>3. CASE StopCancel(h) \/ StopAttempt(h) \/ DeleteMark(h)
  BY <1>1, <1>3, EndsOrGoesOn DEF StopCancel, StopAttempt, DeleteMark
<1>4. CASE StopWrite(h) \/ DeleteWrite(h) \/ DeleteFiles(h)
  BY <1>1, <1>4, EndsOrGoesOn DEF StopWrite, DeleteWrite, DeleteFiles
<1>. QED BY <1>2, <1>3, <1>4

LEMMA AgentGoesOn ==
  ASSUME IInv, NEW h \in Handlers,
         \/ \E j \in Jobs, n \in AttemptNumber, s \in Events : BeginEvent(h, j, n, s)
         \/ EventRead(h) \/ EventWrite(h) \/ EventOutputs(h)
  PROVE  GoesOn(h)
<1>1. TypeOK /\ request[h] \in Request
  BY DEF IInv, TypeOK
<1>2. ASSUME NEW j \in Jobs, NEW n \in AttemptNumber, NEW s \in Events,
             BeginEvent(h, j, n, s)
      PROVE  GoesOn(h)
  <2>0. job[j].attempt = n /\ n # NoAttempt
    <3>1. job[j].attempt = n
      BY <1>2 DEF BeginEvent
    <3>2. n # NoAttempt
      BY BoundsAssumption DEF AttemptNumber, NoAttempt
    <3>. QED BY <3>1, <3>2
  <2>1. job[j].status # "ABSENT"
    BY <2>0 DEF IInv, CurrentAttempt
  <2>2. [Idle EXCEPT !.at = "event.read", !.job = j, !.attempt = n, !.status = s].job = j
    BY DEF Idle
  <2>. QED BY <1>2, <2>1, <2>2 DEF BeginEvent, GoesOn
<1>3. CASE EventRead(h)
  <2>1. [request[h] EXCEPT !.at = "event.write", !.seen = Seen(request[h].job)].job
          = request[h].job
    BY <1>1 DEF Request
  <2>. QED BY <1>1, <1>3, <2>1, EndsOrGoesOn DEF EventRead, GoesOn
<1>4. CASE EventWrite(h)
  <2>1. [request[h] EXCEPT !.at = "event.read", !.seen = Unseen,
                           !.tries = request[h].tries + 1].job = request[h].job
    BY <1>1 DEF Request
  <2>. QED BY <1>1, <1>4, <2>1, EndsOrGoesOn DEF EventWrite, GoesOn
<1>5. CASE EventOutputs(h)
  BY <1>1, <1>5, EndsOrGoesOn DEF EventOutputs
<1>. QED BY <1>2, <1>3, <1>4, <1>5

LEMMA NextServed == IInv /\ Served /\ [Next]_vars => Served'
<1>. SUFFICES ASSUME IInv, Served, [Next]_vars PROVE Served'
  OBVIOUS
<1>0. request \in [Handlers -> Request]
  BY DEF IInv, TypeOK
<1>1. RequestOK'
  BY NextInv DEF IInv
<1>2. ASSUME NEW h \in Handlers, GoesOn(h) PROVE Served'
  <2>. SUFFICES ASSUME NEW k \in Handlers, request'[k].at # "idle"
                PROVE  job'[request'[k].job].status # "ABSENT"
    BY DEF Served
  <2>1. request'[k].job \in Jobs
    BY <1>1 DEF RequestOK, HandlerOK
  <2>2. job[request'[k].job].status # "ABSENT"
    BY <1>0, <1>2 DEF GoesOn, Served
  <2>. QED BY <2>1, <2>2, RowsStay
<1>3. ASSUME request' = request PROVE Served'
  <2>. SUFFICES ASSUME NEW k \in Handlers, request[k].at # "idle"
                PROVE  job'[request[k].job].status # "ABSENT"
    BY <1>3 DEF Served
  <2>1. request[k].job \in Jobs /\ job[request[k].job].status # "ABSENT"
    BY <1>1, <1>3 DEF RequestOK, HandlerOK, Served
  <2>. QED BY <2>1, RowsStay
<1>4. CASE UserStep
  BY <1>2, <1>3, <1>4, UserGoesOn DEF UserStep, CreateJob, RerunJob
<1>5. CASE AgentStep
  BY <1>2, <1>3, <1>5, AgentGoesOn DEF AgentStep, DeliverAssignment, AcceptAssignment
<1>6. CASE SchedulerStep
  BY <1>3, <1>6 DEF SchedulerStep, SchedulerRead, SchedulerSkip, Reserve
<1>7. CASE MonitorStep
  BY <1>3, <1>7 DEF MonitorStep, SweepSelect, SweepJob, SweepAttempt
<1>8. ASSUME NEW h \in Handlers, RequestAborted(h) PROVE Served'
  BY <1>2, <1>8, EndsOrGoesOn DEF RequestAborted, IInv
<1>9. CASE ServerRestart
  BY <1>9 DEF ServerRestart, Served, Idle
<1>10. CASE UNCHANGED vars
  BY <1>3, <1>10 DEF vars
<1>. QED BY <1>4, <1>5, <1>6, <1>7, <1>8, <1>9, <1>10 DEF Next, FailureStep


LEMMA CreateSubmits ==
  ASSUME job \in [Jobs -> JobRow], reruns \in [Jobs -> Nat], NEW j \in Jobs, CreateJob(j)
  PROVE  Lifecycle!Submit(j)
<1>1. /\ \A i \in Jobs : job'[i].node = job[i].node
      /\ \A i \in Jobs \ {j} : job'[i] = job[i]
      /\ job[j].status = "ABSENT" /\ job'[j].status = "QUEUED"
      /\ UNCHANGED <<made, reruns>>
  BY DEF CreateJob, JobRow
<1>2. [i \in Jobs |-> PhaseOf(job'[i].status)]
        = [[i \in Jobs |-> PhaseOf(job[i].status)] EXCEPT ![j] = "waiting"]
  BY <1>1, PhaseCases
<1>3. [i \in Jobs |-> PhaseOf(job[i].status)][j] = "absent"
  BY <1>1, PhaseCases
<1>4. [i \in Jobs |-> reruns'[i] + IF job'[i].status = "ABSENT" THEN 0 ELSE 1]
        = [[i \in Jobs |-> reruns[i] + IF job[i].status = "ABSENT" THEN 0 ELSE 1]
             EXCEPT ![j] = @ + 1]
  <2>1. \A i \in Jobs \ {j} : reruns'[i] = reruns[i] /\ job'[i].status = job[i].status
    BY <1>1
  <2>2. reruns'[j] + 1 = (reruns[j] + 0) + 1
    BY <1>1
  <2>. QED BY <1>1, <2>1, <2>2
<1>5. [i \in Jobs |-> job'[i].node] = [i \in Jobs |-> job[i].node]
  BY <1>1
<1>. QED BY <1>1, <1>2, <1>3, <1>4, <1>5
         DEF Lifecycle!Submit, Lifecycle!Moves, Lifecycle!Asks

LEMMA RerunAsksAgain ==
  ASSUME job \in [Jobs -> JobRow], reruns \in [Jobs -> Nat], NEW j \in Jobs, RerunJob(j)
  PROVE  Lifecycle!Again(j)
<1>1. /\ \A i \in Jobs \ {j} : job'[i] = job[i] /\ reruns'[i] = reruns[i]
      /\ job[j].status \in Terminal /\ job'[j].status = "QUEUED"
      /\ job'[j].node = NoNode /\ reruns'[j] = reruns[j] + 1
      /\ UNCHANGED made
  BY DEF RerunJob
<1>2. [i \in Jobs |-> PhaseOf(job'[i].status)]
        = [[i \in Jobs |-> PhaseOf(job[i].status)] EXCEPT ![j] = "waiting"]
  BY <1>1, PhaseCases
<1>3. [i \in Jobs |-> PhaseOf(job[i].status)][j] = "ended" /\ job[j].status # "ABSENT"
  BY <1>1, PhaseCases DEF Terminal
<1>4. [i \in Jobs |-> reruns'[i] + IF job'[i].status = "ABSENT" THEN 0 ELSE 1]
        = [[i \in Jobs |-> reruns[i] + IF job[i].status = "ABSENT" THEN 0 ELSE 1]
             EXCEPT ![j] = @ + 1]
  BY <1>1, <1>3
<1>5. [i \in Jobs |-> job'[i].node] = [[i \in Jobs |-> job[i].node] EXCEPT ![j] = NoNode]
  BY <1>1
<1>. QED BY <1>1, <1>2, <1>3, <1>4, <1>5
         DEF Lifecycle!Again, Lifecycle!Moves, Lifecycle!Asks

LEMMA ReservePlaces ==
  ASSUME job \in [Jobs -> JobRow], NEW j \in Jobs, NEW node \in Nodes, Reserve(j, node)
  PROVE  Lifecycle!Place(j, node)
<1>1. /\ \A i \in Jobs \ {j} : job'[i] = job[i]
      /\ job[j].status = "QUEUED" /\ job'[j].status = "ASSIGNED"
      /\ job'[j].node = node /\ UNCHANGED reruns
      /\ made' = [made EXCEPT ![j] = @ + 1]
  BY DEF Reserve, JobRow
<1>2. [i \in Jobs |-> PhaseOf(job'[i].status)]
        = [[i \in Jobs |-> PhaseOf(job[i].status)] EXCEPT ![j] = "placed"]
  BY <1>1, PhaseCases DEF Active
<1>3. [i \in Jobs |-> PhaseOf(job[i].status)][j] = "waiting"
  BY <1>1, PhaseCases
<1>4. [i \in Jobs |-> reruns'[i] + IF job'[i].status = "ABSENT" THEN 0 ELSE 1]
        = [i \in Jobs |-> reruns[i] + IF job[i].status = "ABSENT" THEN 0 ELSE 1]
  BY <1>1
<1>5. [i \in Jobs |-> job'[i].node] = [[i \in Jobs |-> job[i].node] EXCEPT ![j] = node]
  BY <1>1
<1>. QED BY <1>1, <1>2, <1>3, <1>4, <1>5 DEF Lifecycle!Place, Lifecycle!Moves

LEMMA UserMoves ==
  ASSUME IInv, Served, job' \in [Jobs -> JobRow], NEW h \in Handlers,
         StopCancel(h) \/ StopWrite(h) \/ DeleteWrite(h) \/ DeleteMark(h)
  PROVE  [Lifecycle!Next]_(Lifecycle!vars)
<1>. DEFINE j == request[h].job
<1>1. /\ j \in Jobs /\ job \in [Jobs -> JobRow] /\ job[j] \in JobRow
      /\ job[j].status # "ABSENT"
  BY DEF StopCancel, StopWrite, DeleteWrite, DeleteMark, IInv, TypeOK, RequestOK,
         HandlerOK, Served
<1>2. job[j].status \in JobStatus /\ UNCHANGED <<made, reruns>>
  BY <1>1 DEF JobRow, StopCancel, StopWrite, DeleteWrite, DeleteMark
<1>3. CASE job' = job
  BY <1>2, <1>3 DEF Lifecycle!vars
<1>4. CASE job' # job
  <2>1. /\ \A i \in Jobs \ {j} : job'[i] = job[i]
        /\ job'[j].node = job[j].node
        /\ \/ job'[j].status \in {"STOPPING", "DELETING", "DELETED"}
           \/ job'[j].status = "CANCELLED" /\ job[j].status = "QUEUED"
    <3>1. CASE StopCancel(h)
      BY <1>1, <1>4, <3>1 DEF StopCancel, JobRow
    <3>2. CASE StopWrite(h)
      BY <1>1, <3>2 DEF StopWrite, JobRow
    <3>3. CASE DeleteWrite(h)
      BY <1>1, <3>3 DEF DeleteWrite, JobRow
    <3>4. CASE DeleteMark(h)
      BY <1>1, <3>4 DEF DeleteMark, JobRow
    <3>. QED BY <3>1, <3>2, <3>3, <3>4
  <2>2. job'[j].status \in JobStatus
    BY <2>1 DEF JobStatus
  <2>3. \/ job'[j].status \in Active \cup {"DELETING", "DELETED"}
        \/ job'[j].status \in Terminal /\ job[j].status \in Active \cup {"QUEUED"}
    BY <2>1 DEF Active, Terminal
  <2>. QED BY <1>1, <1>2, <2>1, <2>2, <2>3, StatusMoves
<1>. QED BY <1>3, <1>4


(* The transition table moves a job as the lifecycle allows.                *)
LEMMA TransitionMoves ==
  ASSUME NEW s \in JobStatus, NEW t \in Reported, CanTransition(s, t)
  PROVE  PhaseOf(t) = PhaseOf(s) \/ t \in Active \/ (t \in Terminal /\ s \in Active \cup {"QUEUED"})
BY DEF JobStatus, Reported, Terminal, Active, CanTransition, Allowed, PhaseOf

LEMMA EventMoves ==
  ASSUME IInv, job' \in [Jobs -> JobRow], NEW h \in Handlers, EventWrite(h)
  PROVE  [Lifecycle!Next]_(Lifecycle!vars)
<1>. DEFINE j == request[h].job
            s == request[h].status
<1>1. /\ j \in Jobs /\ s \in Reported /\ job \in [Jobs -> JobRow] /\ job[j] \in JobRow
      /\ request[h].seen.status \in JobStatus
      /\ CanTransition(request[h].seen.status, s)
      /\ UNCHANGED <<made, reruns>>
  <2>1. request[h] \in Request /\ job \in [Jobs -> JobRow]
    BY DEF IInv, TypeOK
  <2>2. request[h].at = "event.write" /\ UNCHANGED <<made, reruns>>
    BY DEF EventWrite
  <2>3. HandlerOK(request[h])
    BY DEF IInv, RequestOK
  <2>4. j \in Jobs /\ s # "NONE" /\ request[h].seen.status \in JobStatus
        /\ CanTransition(request[h].seen.status, s)
    BY <2>2, <2>3 DEF HandlerOK
  <2>5. s \in Reported
    BY <2>1, <2>4 DEF Request
  <2>. QED BY <2>1, <2>2, <2>4, <2>5
<1>2. CASE UNCHANGED job
  BY <1>1, <1>2 DEF Lifecycle!vars
<1>3. CASE Seen(j) = request[h].seen /\ UpdateRows(j, request[h].seen, s)
  <2>1. /\ \A i \in Jobs \ {j} : job'[i] = job[i]
        /\ job'[j].node = job[j].node /\ job'[j].status = s
    BY <1>1, <1>3 DEF UpdateRows, JobRow
  <2>2. job[j].status = request[h].seen.status
    BY <1>3 DEF Seen
  <2>3. s \in JobStatus /\ job[j].status \in JobStatus
    BY <1>1, <2>2, Statuses
  <2>4. \/ PhaseOf(s) = PhaseOf(job[j].status)
        \/ s \in Active
        \/ s \in Terminal /\ job[j].status \in Active \cup {"QUEUED"}
    BY <1>1, <2>2, <2>3, TransitionMoves
  <2>. QED BY <1>1, <2>1, <2>3, <2>4, StatusMoves
<1>. QED BY <1>2, <1>3 DEF EventWrite

LEMMA SweepMoves ==
  ASSUME IInv, job' \in [Jobs -> JobRow], NEW j \in Jobs, SweepJob(j)
  PROVE  [Lifecycle!Next]_(Lifecycle!vars)
<1>1. job \in [Jobs -> JobRow] /\ UNCHANGED <<made, reruns>>
  BY DEF IInv, TypeOK, SweepJob
<1>2. CASE job' = job
  BY <1>1, <1>2 DEF Lifecycle!vars
<1>3. CASE job' # job
  <2>1. /\ \A i \in Jobs \ {j} : job'[i] = job[i]
        /\ job'[j].node = job[j].node /\ job'[j].status = "LOST"
        /\ job[j].status \in Executing
    BY <1>1, <1>3 DEF SweepJob, JobRow
  <2>2. "LOST" \in JobStatus /\ "LOST" \in Active /\ job[j].status \in JobStatus
    BY <2>1 DEF JobStatus, Active, Executing
  <2>. QED BY <1>1, <2>1, <2>2, StatusMoves
<1>. QED BY <1>2, <1>3

(* Every step of the store is one of the lifecycle, or none.                *)
LEMMA LifecycleStep ==
  ASSUME IInv, Served, [Next]_vars
  PROVE  [Lifecycle!Next]_(Lifecycle!vars)
<1>1. /\ job \in [Jobs -> JobRow] /\ job' \in [Jobs -> JobRow]
      /\ reruns \in [Jobs -> Nat]
  BY NextInv, BoundsAssumption DEF IInv, TypeOK
<1>2. CASE UNCHANGED <<job, made, reruns>>
  BY <1>2 DEF Lifecycle!vars
<1>3. ASSUME NEW j \in Jobs, CreateJob(j) \/ RerunJob(j)
      PROVE  [Lifecycle!Next]_(Lifecycle!vars)
  <2>1. Lifecycle!Submit(j) \/ Lifecycle!Again(j)
    BY <1>1, <1>3, CreateSubmits, RerunAsksAgain
  <2>. QED BY <2>1 DEF Lifecycle!Next
<1>4. ASSUME NEW j \in Jobs, NEW node \in Nodes, Reserve(j, node)
      PROVE  [Lifecycle!Next]_(Lifecycle!vars)
  <2>1. Lifecycle!Place(j, node)
    BY <1>1, <1>4, ReservePlaces
  <2>. QED BY <2>1 DEF Lifecycle!Next
<1>5. CASE UserStep
  BY <1>1, <1>2, <1>3, <1>5, UserMoves
     DEF UserStep, BeginStop, BeginDelete, StopAttempt, DeleteFiles, database
<1>6. CASE AgentStep
  BY <1>1, <1>2, <1>6, EventMoves
     DEF AgentStep, BeginEvent, EventRead, EventOutputs, DeliverAssignment,
         AcceptAssignment, database
<1>7. CASE SchedulerStep
  BY <1>2, <1>4, <1>7 DEF SchedulerStep, SchedulerRead, SchedulerSkip, database
<1>8. CASE MonitorStep
  BY <1>1, <1>2, <1>8, SweepMoves DEF MonitorStep, SweepSelect, SweepAttempt, database
<1>9. CASE FailureStep
  BY <1>2, <1>9 DEF FailureStep, RequestAborted, ServerRestart, database
<1>10. CASE UNCHANGED vars
  BY <1>2, <1>10 DEF vars
<1>. QED BY <1>5, <1>6, <1>7, <1>8, <1>9, <1>10 DEF Next

(* The store implements the lifecycle: with any number of handlers, retries *)
(* and stale reads, an execution begins only for a request of a user, on   *)
(* one node, and a job is moved on only by its end, a stop or its deletion *)
(* (ReserveJobWithAffinity, UpdateJobStatus).                              *)
THEOREM StoreIsLifecycle == Spec => IsLifecycle
<1>1. Init => Lifecycle!Init
  BY PhaseCases DEF Init, AbsentJob, Lifecycle!Init
<1>2. Init => Served
  BY DEF Init, Served, Idle
<1>3. IInv /\ Served /\ [Next]_vars => Served'
  BY NextServed
<1>4. IInv /\ Served /\ [Next]_vars => [Lifecycle!Next]_(Lifecycle!vars)
  BY LifecycleStep
<1>. QED BY <1>1, <1>2, <1>3, <1>4, Invariance, PTL DEF Spec, IsLifecycle, Lifecycle!Spec

=============================================================================
