-------------------------- MODULE JobSystem_proofs --------------------------
(***************************************************************************)
(* Theorems of JobSystem, for every set of nodes and for every bound.  The *)
(* inductive invariant is IInv of JobSystem.                               *)
(***************************************************************************)
EXTENDS JobSystem, TLAPS

(* What the transition table lets an agent report. *)
LEMMA Reports ==
  ASSUME NEW s \in JobStatus, NEW t, CanTransition(s, t)
  PROVE  /\ t \in JobStatus
         /\ t = "PULLING_IMAGE" => s \in {"ASSIGNED", "PULLING_IMAGE"}
         /\ t = "STARTING" => s \in {"ASSIGNED", "PULLING_IMAGE", "STARTING"}
         /\ t \in Terminal \cup {"RUNNING"} => t \notin {"ASSIGNED", "PULLING_IMAGE"}
         /\ t = "RUNNING" => s \in Active
BY DEF JobStatus, CanTransition, Allowed, Terminal, Active

LEMMA Statuses ==
  /\ {"QUEUED", "ASSIGNED", "STARTING", "STOPPING", "LOST", "CANCELLED"}
       \subseteq JobStatus
  /\ Terminal \subseteq JobStatus /\ Active \subseteq JobStatus
BY DEF JobStatus, Terminal, Active

(* Writing fields of a record yields a record. *)
LEMMA JobFields ==
  ASSUME NEW r \in Job, NEW s \in JobStatus
  PROVE  /\ [r EXCEPT !.status = s] \in Job
         /\ [r EXCEPT !.status = s, !.wanted = FALSE] \in Job
         /\ NoNode \in Nodes \cup {NoNode} =>
              [r EXCEPT !.status = s, !.wanted = TRUE, !.attempt = NoAttempt,
                        !.node = NoNode] \in Job
BY DEF Job

LEMMA RunFields ==
  ASSUME NEW r \in Run, NEW s \in Step
  PROVE  /\ [r EXCEPT !.at = s] \in Run
         /\ [r EXCEPT !.stop = TRUE] \in Run
         /\ [r EXCEPT !.box = TRUE, !.at = s] \in Run
         /\ \A t \in Terminal : [r EXCEPT !.at = s, !.result = t] \in Run
BY DEF Run

LEMMA JournalFields ==
  ASSUME NEW r \in Journal
  PROVE  /\ [r EXCEPT !.stop = TRUE] \in Journal
         /\ [r EXCEPT !.completed = TRUE] \in Journal
BY DEF Journal

LEMMA ReplyFields ==
  ASSUME NEW r \in Reply
  PROVE  /\ [r EXCEPT !.stop = "no"] \in Reply
         /\ [r EXCEPT !.stop = "docker"] \in Reply
BY DEF Reply

LEMMA ContainerFields ==
  ASSUME NEW r \in Container, NEW s \in {"running", "succeeded", "failed"}
  PROVE  [r EXCEPT !.state = s] \in Container
BY DEF Container

LEMMA SavedFields ==
  ASSUME NEW r \in Run
  PROVE  Saved(r) \in Journal /\ [Saved(r) EXCEPT !.completed = TRUE] \in Journal
BY DEF Run, Journal, Saved

LEMMA Nothing ==
  /\ NoRun \in Run /\ NoJournal \in Journal /\ NoContainer \in Container
  /\ NoReply \in Reply
  /\ \A n \in {NoAttempt} \cup AttemptNumber :
       [NoRun EXCEPT !.at = "inputs", !.attempt = n] \in Run
BY DEF NoRun, NoJournal, NoContainer, NoReply, Run, Journal, Container, Reply,
       NoAttempt, Step

LEMMA Spending ==
  ASSUME TypeOK, Fails \/ Works
  PROVE  spent' \in Spent
BY BoundsAssumption DEF TypeOK, Fails, Works, Spent

LEMMA GotoType ==
  ASSUME TypeOK, NEW a \in Nodes, NEW s \in Step, Goto(a, s)
  PROVE  run' \in [Nodes -> Run]
BY RunFields DEF TypeOK, Goto

LEMMA SavedType ==
  ASSUME TypeOK, NEW a \in Nodes
  PROVE  Saved(run[a]) \in Journal
BY SavedFields DEF TypeOK

LEMMA SendEventType ==
  ASSUME TypeOK, NEW a \in Nodes, NEW status, NEW sent \in Step,
         NEW unsent \in Step, SendEvent(a, status, sent, unsent)
  PROVE  TypeOK'
<1>1. Fails \/ Works
  BY DEF SendEvent
<1>2. run' \in [Nodes -> Run]
  BY GotoType DEF SendEvent
<1>3. journal' \in [Nodes -> Journal]
  BY SavedType DEF SendEvent, TypeOK
<1>4. job' \in Job
  <2>1. job \in Job /\ job.status \in JobStatus
    BY DEF TypeOK, Job
  <2>2. job' = job \/ (CanTransition(job.status, status)
                        /\ job' = [job EXCEPT !.status = status])
    BY DEF SendEvent, Takes, Take
  <2>3. CanTransition(job.status, status) => status \in JobStatus
    BY <2>1, Reports
  <2>. QED BY <2>1, <2>2, <2>3, JobFields
<1>. QED BY <1>1, <1>2, <1>3, <1>4, Spending DEF SendEvent, TypeOK

LEMMA ServerStepType ==
  ASSUME TypeOK, ServerStep
  PROVE  TypeOK'
<1>1. CASE RerunJob
  BY <1>1, JobFields, Statuses DEF RerunJob, TypeOK, agents
<1>2. CASE RequestStop
  <2>1. spent' \in Spent
    BY <1>2, BoundsAssumption DEF RequestStop, TypeOK, Spent
  <2>2. job' \in Job
    BY <1>2, JobFields, Statuses DEF RequestStop, TypeOK
  <2>. QED BY <1>2, <2>1, <2>2 DEF RequestStop, TypeOK, agents
<1>3. CASE MarkLost
  <2>1. spent' \in Spent
    BY <1>3, BoundsAssumption DEF MarkLost, TypeOK, Spent
  <2>2. job' \in Job
    BY <1>3, JobFields, Statuses DEF MarkLost, TypeOK
  <2>. QED BY <1>3, <2>1, <2>2 DEF MarkLost, TypeOK, agents
<1>4. ASSUME NEW a \in Nodes, Reserve(a) PROVE TypeOK'
  <2>1. job' \in Job
    BY <1>4, BoundsAssumption, Statuses DEF Reserve, TypeOK, Job, AttemptNumber
  <2>. QED BY <1>4, <2>1 DEF Reserve, TypeOK, agents
<1>. QED BY <1>1, <1>2, <1>3, <1>4 DEF ServerStep

LEMMA PollStepType ==
  ASSUME TypeOK, NEW a \in Nodes, PollStep(a)
  PROVE  TypeOK'
<1>1. CASE Poll(a)
  <2>1. Offer(a) \in Reply
    BY DEF Offer, Reply, TypeOK, Job
  <2>. QED BY <1>1, <2>1 DEF Poll, TypeOK, server
<1>2. CASE StopRunning(a)
  <2>1. [run[a] EXCEPT !.stop = TRUE] \in Run
    BY RunFields, <1>2 DEF TypeOK, Step
  <2>2. Saved([run[a] EXCEPT !.stop = TRUE]) \in Journal
    BY SavedFields, <2>1
  <2>3. reply' \in [Nodes -> Reply]
    BY <1>2 DEF StopRunning, TypeOK, Reply
  <2>. QED BY <1>2, <2>1, <2>2, <2>3 DEF StopRunning, TypeOK, server
<1>3. CASE StopJournaled(a)
  <2>1. reply' \in [Nodes -> Reply]
    BY <1>3 DEF StopJournaled, TypeOK, Reply
  <2>2. journal' = [journal EXCEPT ![a] = [@ EXCEPT !.stop = TRUE]]
    BY <1>3 DEF StopJournaled
  <2>3. journal' \in [Nodes -> Journal]
    BY <2>2, JournalFields DEF TypeOK
  <2>. QED BY <1>3, <2>1, <2>3 DEF StopJournaled, TypeOK, server
<1>4. CASE CancelJournaled(a)
  <2>. DEFINE stopped == [journal[a] EXCEPT !.stop = TRUE]
  <2>1. reply' \in [Nodes -> Reply]
    <3>1. reply' = [reply EXCEPT ![a] = [@ EXCEPT !.stop = "no"]]
      BY <1>4 DEF CancelJournaled
    <3>. QED BY <3>1, ReplyFields DEF TypeOK
  <2>2. /\ \/ /\ job' = [job EXCEPT !.status = "CANCELLED"]
              /\ journal' = [journal EXCEPT ![a] = [stopped EXCEPT !.completed = TRUE]]
           \/ /\ job' \in {job, [job EXCEPT !.status = "CANCELLED"]}
              /\ journal' = [journal EXCEPT ![a] = stopped]
    BY <1>4 DEF CancelJournaled, Take
  <2>4. journal[a] \in Journal /\ job \in Job
    BY DEF TypeOK
  <2>5. stopped \in Journal
    BY <2>4, JournalFields
  <2>6. [stopped EXCEPT !.completed = TRUE] \in Journal
    <3>. HIDE DEF stopped
    <3>. QED BY <2>5, JournalFields
  <2>7. job' \in Job
    BY <2>2, <2>4, JobFields, Statuses
  <2>8. journal' \in [Nodes -> Journal]
    <3>. HIDE DEF stopped
    <3>. QED BY <2>2, <2>5, <2>6 DEF TypeOK
  <2>3. spent' \in Spent
    BY <1>4, Spending DEF CancelJournaled
  <2>. QED BY <1>4, <2>1, <2>3, <2>7, <2>8 DEF CancelJournaled, TypeOK
<1>5. CASE StopIgnored(a)
  <2>1. reply' \in [Nodes -> Reply]
    BY <1>5 DEF StopIgnored, TypeOK, Reply
  <2>. QED BY <1>5, <2>1 DEF StopIgnored, TypeOK, server
<1>6. CASE DockerStop(a)
  <2>1. reply' \in [Nodes -> Reply]
    BY <1>6 DEF DockerStop, TypeOK, Reply
  <2>3. container' \in [Nodes -> Container]
    <3>1. \/ container' = container
          \/ \E s \in {"succeeded", "failed"} :
               container' = [container EXCEPT ![a] = [@ EXCEPT !.state = s]]
      BY <1>6 DEF DockerStop
    <3>2. container[a] \in Container
      BY DEF TypeOK
    <3>3. /\ [container[a] EXCEPT !.state = "succeeded"] \in Container
          /\ [container[a] EXCEPT !.state = "failed"] \in Container
      BY <3>2, ContainerFields
    <3>. QED BY <3>1, <3>3 DEF TypeOK
  <2>2. spent' \in Spent
    BY <1>6, Spending DEF DockerStop
  <2>. QED BY <1>6, <2>1, <2>2, <2>3 DEF DockerStop, TypeOK, server
<1>7. CASE StartAssignment(a)
  <2>1. reply' \in [Nodes -> Reply]
    BY <1>7, Nothing DEF StartAssignment, TypeOK
  <2>. DEFINE n == reply[a].attempt
              r == [NoRun EXCEPT !.at = "inputs", !.attempt = n]
  <2>2. r \in Run /\ Saved(r) \in Journal
    <3>1. n \in {NoAttempt} \cup AttemptNumber
      BY DEF TypeOK, Reply
    <3>2. r \in Run
      BY <3>1, Nothing
    <3>. QED BY <3>2, SavedFields
  <2>3. run' \in [Nodes -> Run] /\ journal' \in [Nodes -> Journal]
    <3>. HIDE DEF r
    <3>1. \/ run' = [run EXCEPT ![a] = r] /\ journal' = [journal EXCEPT ![a] = Saved(r)]
          \/ UNCHANGED <<run, journal>>
      BY <1>7 DEF StartAssignment, r
    <3>. QED BY <3>1, <2>2 DEF TypeOK
  <2>. QED BY <1>7, <2>1, <2>3 DEF StartAssignment, TypeOK, server
<1>. QED BY <1>1, <1>2, <1>3, <1>4, <1>5, <1>6, <1>7 DEF PollStep

LEMMA ExecuteStepType ==
  ASSUME TypeOK, NEW a \in Nodes, ExecuteStep(a)
  PROVE  TypeOK'
<1>. USE DEF Step
<1>0. /\ run[a] \in Run /\ Saved(run[a]) \in Journal
      /\ [Saved(run[a]) EXCEPT !.completed = TRUE] \in Journal
      /\ run[a].attempt \in {NoAttempt} \cup AttemptNumber
      /\ container[a] \in Container
  BY SavedFields DEF TypeOK, Run
<1>1. CASE MaterializeInputs(a)
  <2>1. run' \in [Nodes -> Run]
    BY <1>1, GotoType DEF MaterializeInputs, IfStopped
  <2>2. spent' \in Spent
    BY <1>1, Spending DEF MaterializeInputs, Disturbed
  <2>. QED BY <1>1, <2>1, <2>2 DEF MaterializeInputs, TypeOK, server
<1>2. CASE ReportPulling(a)
  BY <1>2, SendEventType DEF ReportPulling, IfStopped
<1>3. CASE Pull(a)
  <2>1. run' \in [Nodes -> Run]
    BY <1>3, GotoType DEF Pull, IfStopped
  <2>2. spent' \in Spent
    BY <1>3, Spending DEF Pull, Disturbed
  <2>. QED BY <1>3, <2>1, <2>2 DEF Pull, TypeOK, server
<1>4. CASE ReportStarting(a)
  BY <1>4, SendEventType DEF ReportStarting, IfStopped
<1>5. CASE Create(a)
  <2>1. run' \in [Nodes -> Run]
    BY <1>5, GotoType DEF Create, IfStopped
  <2>2. spent' \in Spent
    BY <1>5, Spending DEF Create, Disturbed
  <2>3. [attempt |-> run[a].attempt, state |-> "created"] \in Container
    BY <1>0 DEF Container
  <2>4. container' \in [Nodes -> Container]
    BY <1>5, <2>3 DEF Create, TypeOK
  <2>. QED BY <1>5, <2>1, <2>2, <2>4 DEF Create, TypeOK, server
<1>6. CASE Save(a)
  <2>. DEFINE r == [run[a] EXCEPT !.box = TRUE,
                                  !.at = IfStopped(a, "discard", "accept")]
  <2>1. r \in Run
    BY <1>0, RunFields DEF IfStopped
  <2>2. run' = [run EXCEPT ![a] = r] /\ journal' = [journal EXCEPT ![a] = Saved(r)]
    BY <1>6 DEF Save
  <2>3. run' \in [Nodes -> Run] /\ journal' \in [Nodes -> Journal]
    <3>. HIDE DEF r
    <3>. QED BY <2>1, <2>2, SavedFields DEF TypeOK
  <2>. QED BY <1>6, <2>3 DEF Save, TypeOK, server
<1>7. CASE Discard(a)
  <2>1. run' \in [Nodes -> Run]
    BY <1>7, GotoType DEF Discard
  <2>2. spent' \in Spent
    BY <1>7, Spending DEF Discard
  <2>3. container' \in [Nodes -> Container]
    BY <1>7, Nothing DEF Discard, TypeOK
  <2>. QED BY <1>7, <2>1, <2>2, <2>3 DEF Discard, TypeOK, server
<1>8. CASE Accept(a)
  <2>1. run' \in [Nodes -> Run]
    BY <1>8, GotoType DEF Accept
  <2>2. spent' \in Spent
    BY <1>8, Spending DEF Accept, Disturbed
  <2>3. accepted' \in [AttemptNumber -> BOOLEAN]
    BY <1>8 DEF Accept, TypeOK
  <2>. QED BY <1>8, <2>1, <2>2, <2>3 DEF Accept, TypeOK
<1>9. CASE Start(a)
  <2>1. run' \in [Nodes -> Run]
    BY <1>9, GotoType DEF Start
  <2>2. spent' \in Spent
    BY <1>9, Spending DEF Start, Disturbed
  <2>3. [container[a] EXCEPT !.state = "running"] \in Container
    BY <1>0, ContainerFields
  <2>4. container' \in [Nodes -> Container]
    BY <1>9, <2>3 DEF Start, TypeOK
  <2>5. starts' \in [AttemptNumber -> Nat]
    <3>1. \/ starts' = starts
          \/ starts' = [starts EXCEPT ![run[a].attempt] = @ + 1]
      BY <1>9 DEF Start
    <3>. QED BY <3>1 DEF TypeOK
  <2>. QED BY <1>9, <2>1, <2>2, <2>4, <2>5 DEF Start, TypeOK, server
<1>10. CASE ReportRunning(a)
  BY <1>10, SendEventType DEF ReportRunning
<1>11. CASE Wait(a)
  <2>1. spent' \in Spent
    BY <1>11, Spending DEF Wait, Disturbed
  <2>2. \/ Goto(a, "failed")
        \/ run' = [run EXCEPT ![a] = [@ EXCEPT !.at = "result", !.result = Outcome(a)]]
    BY <1>11 DEF Wait
  <2>3. Outcome(a) \in Terminal
    BY DEF Outcome, Terminal
  <2>4. [run[a] EXCEPT !.at = "result", !.result = Outcome(a)] \in Run
    BY <1>0, <2>3, RunFields
  <2>5. run' \in [Nodes -> Run]
    BY <2>2, <2>4, GotoType DEF TypeOK
  <2>. QED BY <1>11, <2>1, <2>5 DEF Wait, TypeOK, server
<1>12. CASE ReportResult(a)
  BY <1>12, SendEventType DEF ReportResult
<1>13. CASE Complete(a)
  <2>1. run' \in [Nodes -> Run]
    BY <1>13, GotoType DEF Complete
  <2>. QED BY <1>0, <1>13, <2>1 DEF Complete, TypeOK, server
<1>14. CASE Remove(a)
  <2>1. run' \in [Nodes -> Run]
    BY <1>14, Nothing DEF Remove, TypeOK
  <2>2. spent' \in Spent
    BY <1>14, Spending DEF Remove
  <2>3. container' \in [Nodes -> Container]
    BY <1>14, Nothing DEF Remove, TypeOK
  <2>. QED BY <1>14, <2>1, <2>2, <2>3 DEF Remove, TypeOK, server
<1>15. CASE ReportFailed(a)
  BY <1>15, SendEventType DEF ReportFailed
<1>16. CASE ReportCancelled(a)
  BY <1>16, SendEventType DEF ReportCancelled
<1>17. CASE Close(a)
  BY <1>0, <1>17, Nothing DEF Close, TypeOK, server
<1>. QED
  BY <1>1, <1>2, <1>3, <1>4, <1>5, <1>6, <1>7, <1>8, <1>9, <1>10, <1>11,
     <1>12, <1>13, <1>14, <1>15, <1>16, <1>17 DEF ExecuteStep

LEMMA ProcessStepType ==
  ASSUME TypeOK, NEW a \in Nodes, ProcessStep(a)
  PROVE  TypeOK'
<1>1. CASE Ends(a)
  <2>1. \E s \in {"succeeded", "failed"} :
          container' = [container EXCEPT ![a] = [@ EXCEPT !.state = s]]
    BY <1>1 DEF Ends
  <2>3. container[a] \in Container
    BY DEF TypeOK
  <2>4. /\ [container[a] EXCEPT !.state = "succeeded"] \in Container
        /\ [container[a] EXCEPT !.state = "failed"] \in Container
    BY <2>3, ContainerFields
  <2>2. container' \in [Nodes -> Container]
    BY <2>1, <2>4 DEF TypeOK
  <2>. QED BY <1>1, <2>2 DEF Ends, TypeOK, server
<1>2. CASE Exit(a) /\ spent' \in Spent
  BY <1>2, Nothing DEF Exit, TypeOK, server
<1>3. CASE Crash(a)
  <2>1. spent' \in Spent
    BY <1>3, BoundsAssumption DEF Crash, TypeOK, Spent
  <2>. QED BY <1>2, <1>3, <2>1 DEF Crash
<1>4. CASE Terminate(a)
  <2>1. spent' \in Spent
    BY <1>4, BoundsAssumption DEF Terminate, TypeOK, Spent
  <2>. QED BY <1>4, <2>1 DEF Terminate, TypeOK, server
<1>5. CASE Terminated(a)
  BY <1>2, <1>5, Spending DEF Terminated
<1>6. CASE Restart(a)
  <2>. DEFINE found == [at |-> "running", attempt |-> journal[a].attempt,
                        box |-> TRUE, stop |-> journal[a].stop,
                        result |-> "NONE"]
  <2>1. found \in Run
    BY DEF TypeOK, Journal, Run, Step
  <2>2. run' = [run EXCEPT ![a] = found] \/ run' = run
    BY <1>6 DEF Restart
  <2>3. run' \in [Nodes -> Run]
    <3>. HIDE DEF found
    <3>. QED BY <2>1, <2>2 DEF TypeOK
  <2>4. spent' \in Spent
    BY <1>6, Spending DEF Restart
  <2>. QED BY <1>6, <2>3, <2>4 DEF Restart, TypeOK, server
<1>. QED BY <1>1, <1>3, <1>4, <1>5, <1>6 DEF ProcessStep

LEMMA TypePreserved ==
  ASSUME TypeOK, [Next]_vars
  PROVE  TypeOK'
<1>1. CASE UNCHANGED vars
  BY <1>1 DEF vars, TypeOK
<1>. QED BY <1>1, ServerStepType, PollStepType, ExecuteStepType,
            ProcessStepType DEF Next

-----------------------------------------------------------------------------
(* What the steps of the agents have in common *)

AgentStep(a) == PollStep(a) \/ ExecuteStep(a) \/ ProcessStep(a)

(* A step of an agent concerns its own node. *)
OthersKeep(a) ==
  \A b \in Nodes \ {a} :
    /\ reply'[b] = reply[b] /\ process'[b] = process[b] /\ run'[b] = run[b]
    /\ journal'[b] = journal[b] /\ container'[b] = container[b]

LEMMA StepIsLocal ==
  ASSUME TypeOK, NEW a \in Nodes, AgentStep(a)
  PROVE  OthersKeep(a)
<1>. USE DEF OthersKeep, TypeOK, server
<1>1. CASE PollStep(a)
  BY <1>1 DEF PollStep, Poll, StopRunning, StopJournaled, CancelJournaled,
              StopIgnored, DockerStop, StartAssignment
<1>2. CASE ExecuteStep(a)
  <2>1. CASE MaterializeInputs(a) \/ Pull(a)
    BY <2>1 DEF MaterializeInputs, Pull, Goto
  <2>2. CASE Create(a) \/ Save(a) \/ Discard(a) \/ Accept(a) \/ Start(a)
    BY <2>2 DEF Create, Save, Discard, Accept, Start, Goto
  <2>3. CASE Wait(a) \/ Complete(a) \/ Remove(a) \/ Close(a)
    BY <2>3 DEF Wait, Complete, Remove, Close, Goto
  <2>4. CASE \/ ReportPulling(a) \/ ReportStarting(a) \/ ReportRunning(a)
             \/ ReportResult(a) \/ ReportFailed(a) \/ ReportCancelled(a)
    BY <2>4 DEF ReportPulling, ReportStarting, ReportRunning, ReportResult,
                ReportFailed, ReportCancelled, SendEvent, Goto
  <2>. QED BY <1>2, <2>1, <2>2, <2>3, <2>4 DEF ExecuteStep
<1>3. CASE ProcessStep(a)
  BY <1>3 DEF ProcessStep, Ends, Crash, Terminate, Terminated, Restart, Exit
<1>. QED BY <1>1, <1>2, <1>3 DEF AgentStep

(* An agent reports a status of the attempt in its entry, or in its journal *)
(* when it has no entry.                                                    *)
JobMoves(a) ==
  \/ job' = job
  \/ /\ job.node = a
     /\ \/ job.attempt = run[a].attempt /\ run[a].at # "none"
        \/ /\ run[a].at = "none" /\ Alive(a)
           /\ job.attempt = journal[a].attempt /\ ~journal[a].completed
           /\ journal[a].attempt # NoAttempt
     /\ \E s \in Reported : /\ CanTransition(job.status, s)
                            /\ job' = [job EXCEPT !.status = s]

LEMMA EventMovesJob ==
  ASSUME TypeOK, NEW a \in Nodes, NEW status, NEW sent, NEW unsent,
         SendEvent(a, status, sent, unsent)
  PROVE  \/ job' = job
         \/ /\ job.node = a /\ job.attempt = run[a].attempt
            /\ CanTransition(job.status, status) /\ status \in JobStatus
            /\ job' = [job EXCEPT !.status = status]
BY Reports DEF SendEvent, Takes, Take, TypeOK, Job

LEMMA StepMovesJob ==
  ASSUME TypeOK, NEW a \in Nodes, AgentStep(a)
  PROVE  JobMoves(a)
<1>. USE DEF JobMoves, server
<1>1. CASE PollStep(a)
  <2>1. CASE CancelJournaled(a)
    BY <2>1 DEF CancelJournaled, Takes, Take, Reported, Terminal
  <2>2. CASE ~CancelJournaled(a)
    BY <1>1, <2>2 DEF PollStep, Poll, StopRunning, StopJournaled, StopIgnored,
                      DockerStop, StartAssignment
  <2>. QED BY <2>1, <2>2
<1>2. CASE ExecuteStep(a)
  <2>1. CASE \/ ReportPulling(a) \/ ReportStarting(a) \/ ReportRunning(a)
             \/ ReportResult(a) \/ ReportFailed(a) \/ ReportCancelled(a)
    <3>1. run[a].result \in Reported \/ run[a].result \notin JobStatus
      BY DEF TypeOK, Run, Reported, JobStatus
    <3>2. {"PULLING_IMAGE", "STARTING", "RUNNING", "FAILED", "CANCELLED"}
            \subseteq Reported
      BY DEF Reported, Terminal
    <3>. QED
      BY <2>1, <3>1, <3>2, EventMovesJob DEF ReportPulling, ReportStarting, ReportRunning,
             
                ReportResult, ReportFailed, ReportCancelled, At
  <2>2. CASE ~(\/ ReportPulling(a) \/ ReportStarting(a) \/ ReportRunning(a)
               \/ ReportResult(a) \/ ReportFailed(a) \/ ReportCancelled(a))
    BY <1>2, <2>2 DEF ExecuteStep, MaterializeInputs, Pull, Create, Save,
                Discard, Accept, Start, Wait, Complete, Remove, Close
  <2>. QED BY <2>1, <2>2
<1>3. CASE ProcessStep(a)
  BY <1>3 DEF ProcessStep, Ends, Crash, Terminate, Terminated, Restart, Exit
<1>. QED BY <1>1, <1>2, <1>3 DEF AgentStep

(* The fields of the job that no report changes. *)
LEMMA ReportKeepsAttempt ==
  ASSUME TypeOK, NEW a \in Nodes, JobMoves(a)
  PROVE  /\ job'.attempt = job.attempt /\ job'.made = job.made
         /\ job'.node = job.node
BY DEF JobMoves, TypeOK, Job

(* The entry of a step that only moves on. *)
LEMMA GotoEffect ==
  ASSUME TypeOK, NEW a \in Nodes, NEW s, Goto(a, s)
  PROVE  /\ run'[a].at = s /\ run'[a].attempt = run[a].attempt
         /\ run'[a].box = run[a].box /\ run'[a].stop = run[a].stop
BY DEF Goto, TypeOK, Run

LEMMA WaitEffect ==
  ASSUME TypeOK, NEW a \in Nodes, Wait(a)
  PROVE  /\ run[a].at = "wait" /\ run'[a].at \in {"result", "failed"}
         /\ run'[a].at = "result" => container[a].state # "running"
         /\ run'[a].attempt = run[a].attempt
         /\ run'[a].box = run[a].box /\ run'[a].stop = run[a].stop
<1>1. run[a] \in Run
  BY DEF TypeOK
<1>2. \/ run' = [run EXCEPT ![a] = [run[a] EXCEPT !.at = "failed"]]
      \/ /\ run' = [run EXCEPT ![a] = [run[a] EXCEPT !.at = "result",
                                                   !.result = Outcome(a)]]
         /\ container[a].state # "running"
  BY DEF Wait, Goto
<1>3. /\ \/ run'[a] = [run[a] EXCEPT !.at = "failed"]
         \/ /\ run'[a] = [run[a] EXCEPT !.at = "result", !.result = Outcome(a)]
            /\ container[a].state # "running"
      /\ run[a].at = "wait"
  BY <1>2 DEF Wait, At, TypeOK
<1>. QED BY <1>1, <1>3 DEF Run

LEMMA StartAssignmentEffect ==
  ASSUME TypeOK, NEW a \in Nodes, StartAssignment(a)
  PROVE  \/ run' = run /\ journal' = journal
         \/ /\ run[a].at = "none"
            /\ reply[a].attempt # NoAttempt
            /\ run'[a].at = "inputs" /\ run'[a].attempt = reply[a].attempt
            /\ journal'[a].attempt = reply[a].attempt /\ ~journal'[a].completed
<1>. DEFINE r == [NoRun EXCEPT !.at = "inputs", !.attempt = reply[a].attempt]
<1>1. /\ r.at = "inputs" /\ r.attempt = reply[a].attempt
      /\ Saved(r).attempt = reply[a].attempt /\ ~Saved(r).completed
  BY DEF Saved, NoRun
<1>2. \/ run' = run /\ journal' = journal
      \/ /\ run[a].at = "none"
         /\ reply[a].attempt # NoAttempt
         /\ run' = [run EXCEPT ![a] = r]
         /\ journal' = [journal EXCEPT ![a] = Saved(r)]
  BY DEF StartAssignment
<1>. HIDE DEF r
<1>. QED BY <1>1, <1>2 DEF TypeOK

(* An agent learns of an attempt from the reply to its poll only. *)
LEMMA StepKnows ==
  ASSUME TypeOK, NEW a \in Nodes, AgentStep(a)
  PROVE  \A n \in Known(a)' : n \in Known(a) \/ (n = job.attempt /\ job.node = a)
<1>. USE DEF Known, TypeOK, server
<1>1. CASE PollStep(a)
  <2>1. CASE Poll(a)
    BY <2>1 DEF Poll, Offer
  <2>2. CASE StopRunning(a) \/ StopJournaled(a)
    BY <2>2 DEF StopRunning, StopJournaled, Saved, Run, Journal, Reply
  <2>3. CASE CancelJournaled(a)
    BY <2>3 DEF CancelJournaled, Journal, Reply
  <2>4. CASE StopIgnored(a) \/ DockerStop(a)
    BY <2>4 DEF StopIgnored, DockerStop, Reply
  <2>5. CASE StartAssignment(a)
    <3>1. reply'[a].attempt = NoAttempt
      BY <2>5 DEF StartAssignment, NoReply
    <3>. QED BY <2>5, <3>1, StartAssignmentEffect
  <2>. QED BY <1>1, <2>1, <2>2, <2>3, <2>4, <2>5 DEF PollStep
<1>2. CASE ExecuteStep(a)
  <2>1. CASE MaterializeInputs(a) \/ Pull(a)
    BY <2>1 DEF MaterializeInputs, Pull, Goto, Run
  <2>2. CASE Create(a) \/ Discard(a) \/ Accept(a) \/ Start(a)
    BY <2>2 DEF Create, Discard, Accept, Start, Goto, Run
  <2>3. CASE Save(a)
    BY <2>3 DEF Save, Saved, Run
  <2>5. CASE Wait(a)
    BY <2>5, WaitEffect DEF Wait
  <2>6. CASE Complete(a) \/ Close(a)
    BY <2>6 DEF Complete, Close, Goto, Saved, Run, NoRun
  <2>7. CASE Remove(a)
    BY <2>7 DEF Remove, NoRun
  <2>4. CASE \/ ReportPulling(a) \/ ReportStarting(a) \/ ReportRunning(a)
             \/ ReportResult(a) \/ ReportFailed(a) \/ ReportCancelled(a)
    BY <2>4 DEF ReportPulling, ReportStarting, ReportRunning, ReportResult,
                ReportFailed, ReportCancelled, SendEvent, Goto, Saved, Run
  <2>. QED BY <1>2, <2>1, <2>2, <2>3, <2>4, <2>5, <2>6, <2>7 DEF ExecuteStep
<1>3. CASE ProcessStep(a)
  BY <1>3 DEF ProcessStep, Ends, Crash, Terminate, Terminated, Restart, Exit,
              NoRun, NoReply
<1>. QED BY <1>1, <1>2, <1>3 DEF AgentStep

-----------------------------------------------------------------------------
(* The parts of the inductive invariant *)

LEMMA ServerKeepsAgents ==
  ASSUME ServerStep
  PROVE  UNCHANGED agents
BY DEF ServerStep, RerunJob, RequestStop, MarkLost, Reserve

(* The fields of the row after a step of the server.                       *)
LEMMA ServerMovesJob ==
  ASSUME TypeOK, ServerStep
  PROVE  \/ /\ job.status = "QUEUED" /\ job'.status = "ASSIGNED"
            /\ job'.made = job.made + 1 /\ job'.attempt = job.made + 1
         \/ /\ job.status \in Terminal /\ job'.status = "QUEUED"
            /\ job'.made = job.made /\ job'.attempt = NoAttempt
         \/ /\ job.status = "QUEUED" /\ job'.status = "CANCELLED"
            /\ job'.made = job.made /\ job'.attempt = job.attempt
            /\ job'.node = job.node
         \/ /\ job.status \in Active /\ job'.status \in {"STOPPING", "LOST"}
            /\ job'.made = job.made /\ job'.attempt = job.attempt
            /\ job'.node = job.node
<1>1. CASE RerunJob
  BY <1>1 DEF RerunJob, TypeOK, Job
<1>2. CASE RequestStop
  BY <1>2 DEF RequestStop, TypeOK, Job
<1>3. CASE MarkLost
  BY <1>3 DEF MarkLost, TypeOK, Job
<1>4. ASSUME NEW a \in Nodes, Reserve(a)
      PROVE  /\ job.status = "QUEUED" /\ job'.status = "ASSIGNED"
             /\ job'.made = job.made + 1 /\ job'.attempt = job.made + 1
  BY <1>4 DEF Reserve, TypeOK, Job
<1>. QED BY <1>1, <1>2, <1>3, <1>4 DEF ServerStep

LEMMA CurrentIsLastPreserved ==
  ASSUME TypeOK, CurrentIsLast, [Next]_vars
  PROVE  CurrentIsLast'
<1>1. CASE UNCHANGED vars
  BY <1>1 DEF vars, CurrentIsLast
<1>2. CASE ServerStep
  BY <1>2, ServerMovesJob DEF CurrentIsLast
<1>3. ASSUME NEW a \in Nodes, AgentStep(a) PROVE CurrentIsLast'
  BY <1>3, StepMovesJob, ReportKeepsAttempt DEF CurrentIsLast
<1>. QED BY <1>1, <1>2, <1>3 DEF Next, AgentStep

LEMMA OneOwnerPreserved ==
  ASSUME TypeOK, CurrentIsLast, OneOwner, [Next]_vars
  PROVE  OneOwner'
<1>1. CASE UNCHANGED vars
  BY <1>1 DEF vars, OneOwner, Known
<1>2. CASE ServerStep
  <2>1. \A a \in Nodes : Known(a)' = Known(a) /\ Known(a) \subseteq AttemptNumber
    BY <1>2, ServerKeepsAgents DEF agents, Known, TypeOK, Reply, Run, Journal
  <2>2. job.made \in Nat /\ NoAttempt = 0
    BY BoundsAssumption DEF TypeOK, Job, NoAttempt
  <2>. QED BY <1>2, <2>1, <2>2, ServerMovesJob DEF OneOwner, AttemptNumber
<1>3. ASSUME NEW a \in Nodes, AgentStep(a) PROVE OneOwner'
  <2>1. job'.attempt = job.attempt /\ job'.made = job.made /\ job'.node = job.node
    BY <1>3, StepMovesJob, ReportKeepsAttempt
  <2>2. \A b \in Nodes \ {a} : Known(b)' = Known(b)
    BY <1>3, StepIsLocal DEF OthersKeep, Known
  <2>3. \A n \in Known(a)' : /\ n # NoAttempt
                            /\ (n \in Known(a) \/ (n = job.attempt /\ job.node = a))
    BY <1>3, StepKnows DEF Known
  <2>4. job.made \in Nat
    BY BoundsAssumption DEF TypeOK, Job
  <2>. SUFFICES ASSUME NEW b \in Nodes, NEW n \in Known(b)'
                PROVE  /\ n <= job'.made
                       /\ n = job'.attempt => job'.node = b
                       /\ \A c \in Nodes \ {b} : n \notin Known(c)'
    BY DEF OneOwner
  <2>5. CASE n \in Known(b)
    BY <2>1, <2>2, <2>3, <2>5 DEF OneOwner
  <2>6. CASE b = a /\ n = job.attempt /\ job.node = a
    <3>1. n = job.made
      BY <2>6 DEF CurrentIsLast, Known
    <3>2. \A c \in Nodes \ {a} : n \notin Known(c)
      BY <2>6 DEF OneOwner
    <3>. QED BY <2>1, <2>2, <2>4, <2>6, <3>1, <3>2
  <2>. QED BY <2>2, <2>3, <2>5, <2>6
<1>. QED BY <1>1, <1>2, <1>3 DEF Next, AgentStep

(* What the steps of a node do to its entry. *)
LEMMA EntryOfStep ==
  ASSUME TypeOK, EntryIsJournaled, NEW a \in Nodes, AgentStep(a),
         run'[a].at # "none"
  PROVE  /\ run'[a].attempt # NoAttempt
         /\ journal'[a].attempt = run'[a].attempt
         /\ run'[a].at # "remove" => ~journal'[a].completed
<1>. USE DEF TypeOK, EntryIsJournaled, server
<1>1. CASE PollStep(a)
  <2>1. CASE Poll(a) \/ StopIgnored(a) \/ DockerStop(a)
    BY <2>1 DEF Poll, StopIgnored, DockerStop
  <2>2. CASE StopRunning(a)
    BY <2>2 DEF StopRunning, Saved, Run, Journal
  <2>3. CASE StopJournaled(a) \/ CancelJournaled(a)
    BY <2>3 DEF StopJournaled, CancelJournaled, Journal
  <2>4. CASE StartAssignment(a)
    BY <2>4, StartAssignmentEffect
  <2>. QED BY <1>1, <2>1, <2>2, <2>3, <2>4 DEF PollStep
<1>2. CASE ExecuteStep(a)
  <2>1. CASE MaterializeInputs(a) \/ Pull(a)
    BY <2>1 DEF MaterializeInputs, Pull, Goto, At, IfStopped, Run
  <2>2. CASE Create(a) \/ Discard(a) \/ Accept(a) \/ Start(a)
    BY <2>2 DEF Create, Discard, Accept, Start, Goto, At, IfStopped, Run
  <2>3. CASE Save(a)
    BY <2>3 DEF Save, Saved, At, IfStopped, Run
  <2>4. CASE Wait(a)
    BY <2>4, WaitEffect DEF Wait
  <2>5. CASE Complete(a)
    BY <2>5 DEF Complete, Goto, At, Saved, Run
  <2>6. CASE Close(a) \/ Remove(a)
    BY <2>6 DEF Close, Remove, NoRun
  <2>7. CASE \/ ReportPulling(a) \/ ReportStarting(a) \/ ReportRunning(a)
             \/ ReportResult(a) \/ ReportFailed(a) \/ ReportCancelled(a)
    BY <2>7 DEF ReportPulling, ReportStarting, ReportRunning, ReportResult,
                ReportFailed, ReportCancelled, SendEvent, Goto, At, Saved,
                IfStopped, Run
  <2>. QED BY <1>2, <2>1, <2>2, <2>3, <2>4, <2>5, <2>6, <2>7 DEF ExecuteStep
<1>3. CASE ProcessStep(a)
  BY <1>3 DEF ProcessStep, Ends, Crash, Terminate, Terminated, Restart, Exit,
              NoRun
<1>. QED BY <1>1, <1>2, <1>3 DEF AgentStep

LEMMA EntryIsJournaledPreserved ==
  ASSUME TypeOK, EntryIsJournaled, [Next]_vars
  PROVE  EntryIsJournaled'
<1>1. CASE UNCHANGED vars \/ ServerStep
  BY <1>1, ServerKeepsAgents DEF vars, agents, EntryIsJournaled
<1>2. ASSUME NEW a \in Nodes, AgentStep(a) PROVE EntryIsJournaled'
  <2>1. OthersKeep(a)
    BY <1>2, StepIsLocal
  <2>. QED BY <1>2, <2>1, EntryOfStep DEF EntryIsJournaled, OthersKeep
<1>. QED BY <1>1, <1>2 DEF Next, AgentStep

Preparing == {"create", "save", "discard", "accept", "start"}
Begun == Active \ {"ASSIGNED", "PULLING_IMAGE"}

(* An execution begins to prepare its container when STARTING is taken.    *)
LEMMA PreparingStep ==
  ASSUME TypeOK, NEW a \in Nodes, AgentStep(a), run'[a].at \in Preparing
  PROVE  /\ run'[a].attempt = run[a].attempt
         /\ \/ run[a].at \in Preparing /\ job' = job
            \/ /\ run[a].at = "starting" /\ job.attempt = run[a].attempt
               /\ job.node = a /\ job'.status = "STARTING"
<1>. USE DEF TypeOK, Preparing, server
<1>1. CASE PollStep(a)
  <2>1. CASE Poll(a) \/ StopIgnored(a) \/ DockerStop(a) \/ StopJournaled(a)
    BY <2>1 DEF Poll, StopIgnored, DockerStop, StopJournaled
  <2>2. CASE StopRunning(a)
    BY <2>2 DEF StopRunning, Run
  <2>3. CASE CancelJournaled(a)
    BY <2>3 DEF CancelJournaled
  <2>4. CASE StartAssignment(a)
    BY <2>4, StartAssignmentEffect DEF StartAssignment
  <2>. QED BY <1>1, <2>1, <2>2, <2>3, <2>4 DEF PollStep
<1>2. CASE ExecuteStep(a)
  <2>1. CASE MaterializeInputs(a) \/ Pull(a)
    BY <2>1, GotoEffect DEF MaterializeInputs, Pull, IfStopped
  <2>2. CASE Create(a) \/ Discard(a) \/ Accept(a) \/ Start(a)
    BY <2>2, GotoEffect DEF Create, Discard, Accept, Start, At, IfStopped
  <2>3. CASE Save(a)
    BY <2>3 DEF Save, At, Run
  <2>4. CASE Wait(a)
    BY <2>4, WaitEffect
  <2>5. CASE Complete(a) \/ Close(a) \/ Remove(a)
    BY <2>5, GotoEffect DEF Complete, Close, Remove, NoRun
  <2>6. CASE ReportStarting(a)
    BY <2>6, GotoEffect DEF ReportStarting, SendEvent, At, Takes, Take, IfStopped, Job
  <2>7. CASE \/ ReportPulling(a) \/ ReportRunning(a)
             \/ ReportResult(a) \/ ReportFailed(a) \/ ReportCancelled(a)
    BY <2>7, GotoEffect DEF ReportPulling, ReportRunning, ReportResult,
       ReportFailed, ReportCancelled, SendEvent, IfStopped
  <2>. QED BY <1>2, <2>1, <2>2, <2>3, <2>4, <2>5, <2>6, <2>7 DEF ExecuteStep
<1>3. CASE ProcessStep(a)
  BY <1>3 DEF ProcessStep, Ends, Crash, Terminate, Terminated, Restart, Exit,
              NoRun
<1>. QED BY <1>1, <1>2, <1>3 DEF AgentStep

LEMMA PreparingIsCurrentPreserved ==
  ASSUME TypeOK, TypeOK', EntryIsJournaled, PreparingIsCurrent, [Next]_vars
  PROVE  PreparingIsCurrent'
<1>. USE DEF PreparingIsCurrent, Preparing, Begun
<1>1. CASE UNCHANGED vars
  BY <1>1 DEF vars
<1>2. CASE ServerStep
  <2>1. "QUEUED" \notin Active /\ Active \cap Terminal = {} /\ {"STOPPING", "LOST"} \subseteq Begun
    BY DEF Active, Terminal
  <2>. QED BY <1>2, <2>1, ServerMovesJob, ServerKeepsAgents DEF agents
<1>3. ASSUME NEW a \in Nodes, AgentStep(a) PROVE PreparingIsCurrent'
  <2>1. OthersKeep(a) /\ JobMoves(a)
    BY <1>3, StepIsLocal, StepMovesJob
  <2>2. job'.attempt = job.attempt /\ job'.node = job.node
    BY <2>1, ReportKeepsAttempt
  <2>3. "STARTING" \in Begun
    BY DEF Active
  <2>4. ASSUME NEW b \in Nodes \ {a}, run'[b].at \in Preparing
        PROVE  /\ job'.attempt = run'[b].attempt /\ job'.node = b
               /\ job'.status \in Begun
    BY <2>1, <2>4 DEF OthersKeep, JobMoves
  <2>5. ASSUME run'[a].at \in Preparing
        PROVE  /\ job'.attempt = run'[a].attempt /\ job'.node = a
               /\ job'.status \in Begun
    BY <1>3, <2>2, <2>3, <2>5, PreparingStep
  <2>. QED BY <2>4, <2>5
<1>. QED BY <1>1, <1>2, <1>3 DEF Next, AgentStep

Unstarted == {"pull", "starting", "create", "save", "accept", "start"}

LEMMA UnstartedStep ==
  ASSUME TypeOK, NEW a \in Nodes, AgentStep(a), run'[a].at \in Unstarted
  PROVE  /\ run'[a].attempt = run[a].attempt /\ starts' = starts
         /\ \/ run[a].at \in Unstarted
            \/ /\ run[a].at = "pulling" /\ job.attempt = run[a].attempt
               /\ job.status \in {"ASSIGNED", "PULLING_IMAGE"}
<1>. USE DEF TypeOK, Unstarted, server
<1>1. CASE PollStep(a)
  <2>1. CASE Poll(a) \/ StopIgnored(a) \/ DockerStop(a) \/ StopJournaled(a)
    BY <2>1 DEF Poll, StopIgnored, DockerStop, StopJournaled
  <2>2. CASE StopRunning(a)
    BY <2>2 DEF StopRunning, Run
  <2>3. CASE CancelJournaled(a)
    BY <2>3 DEF CancelJournaled
  <2>4. CASE StartAssignment(a)
    BY <2>4, StartAssignmentEffect DEF StartAssignment
  <2>. QED BY <1>1, <2>1, <2>2, <2>3, <2>4 DEF PollStep
<1>2. CASE ExecuteStep(a)
  <2>1. CASE MaterializeInputs(a) \/ Pull(a)
    BY <2>1, GotoEffect DEF MaterializeInputs, Pull, At, IfStopped
  <2>2. CASE Create(a) \/ Discard(a) \/ Accept(a)
    BY <2>2, GotoEffect DEF Create, Discard, Accept, At, IfStopped
  <2>3. CASE Save(a)
    BY <2>3 DEF Save, At, Run
  <2>4. CASE Wait(a)
    BY <2>4, WaitEffect
  <2>5. CASE Complete(a) \/ Close(a) \/ Remove(a) \/ Start(a)
    BY <2>5, GotoEffect DEF Complete, Close, Remove, Start, NoRun
  <2>6. CASE ReportPulling(a)
    <3>1. CASE Goto(a, IfStopped(a, "cancelled", "returned"))
      BY <3>1, GotoEffect DEF IfStopped
    <3>2. CASE Takes(a, run[a].attempt, "PULLING_IMAGE") /\ Goto(a, "pull")
      BY <2>6, <3>2, GotoEffect, Reports DEF ReportPulling, SendEvent, At, Takes, Job
    <3>. QED BY <2>6, <3>1, <3>2 DEF ReportPulling, SendEvent
  <2>7. CASE \/ ReportStarting(a) \/ ReportRunning(a)
             \/ ReportResult(a) \/ ReportFailed(a) \/ ReportCancelled(a)
    BY <2>7, GotoEffect DEF ReportStarting, ReportRunning, ReportResult,
       ReportFailed, ReportCancelled, SendEvent, At, IfStopped
  <2>. QED BY <1>2, <2>1, <2>2, <2>3, <2>4, <2>5, <2>6, <2>7 DEF ExecuteStep
<1>3. CASE ProcessStep(a)
  BY <1>3 DEF ProcessStep, Ends, Crash, Terminate, Terminated, Restart, Exit,
              NoRun
<1>. QED BY <1>1, <1>2, <1>3 DEF AgentStep

(* Only docker start starts a container, and it does so at most once. *)
LEMMA StartsOfStep ==
  ASSUME TypeOK, NEW a \in Nodes, AgentStep(a), starts' # starts
  PROVE  /\ run[a].at = "start" /\ run'[a].at \in {"running", "failed"}
         /\ job' = job
         /\ starts' = [starts EXCEPT ![run[a].attempt] = @ + 1]
<1>1. Start(a)
  BY DEF AgentStep, PollStep, ExecuteStep, ProcessStep, Poll, StopRunning,
         StopJournaled, CancelJournaled, StopIgnored, DockerStop,
         StartAssignment, MaterializeInputs, ReportPulling, Pull,
         ReportStarting, Create, Save, Discard, Accept, ReportRunning, Wait,
         ReportResult, Complete, Remove, ReportFailed, ReportCancelled, Close,
         Ends, Crash, Terminate, Terminated, Restart, Exit, SendEvent
<1>. QED BY <1>1, GotoEffect DEF Start, At, server

LEMMA StartedPreserved ==
  ASSUME TypeOK, TypeOK', OneOwner, EntryIsJournaled, PreparingIsCurrent,
         StartedIsPast, StartedOnce, [Next]_vars
  PROVE  StartedIsPast' /\ StartedOnce'
<1>. USE DEF StartedIsPast, StartedOnce, Unstarted
<1>1. CASE UNCHANGED vars
  BY <1>1 DEF vars
<1>2. CASE ServerStep
  <2>1. "STOPPING" \notin {"ASSIGNED", "PULLING_IMAGE"} /\ job.made \in Nat
    BY BoundsAssumption DEF TypeOK, Job
  <2>2. AttemptNumber \subseteq Nat /\ NoAttempt \notin AttemptNumber
    BY DEF AttemptNumber, NoAttempt
  <2>. QED BY <1>2, <2>1, <2>2, ServerMovesJob, ServerKeepsAgents DEF agents
<1>3. ASSUME NEW a \in Nodes, AgentStep(a) PROVE StartedIsPast' /\ StartedOnce'
  <2>1. OthersKeep(a) /\ JobMoves(a)
    BY <1>3, StepIsLocal, StepMovesJob
  <2>2. job'.attempt = job.attempt /\ job'.made = job.made
    BY <2>1, ReportKeepsAttempt
  <2>3. ASSUME NEW n \in AttemptNumber, job.attempt = n =>
                 job.status \notin {"ASSIGNED", "PULLING_IMAGE"}
        PROVE  job'.attempt = n => job'.status \notin {"ASSIGNED", "PULLING_IMAGE"}
    <3>1. job' = job \/ \E t \in Reported : CanTransition(job.status, t) /\ job'.status = t
      BY <2>1 DEF JobMoves, TypeOK, Job
    <3>2. job.status \in JobStatus /\ "ASSIGNED" \notin Reported
      BY DEF TypeOK, Job, Reported, Terminal
    <3>. QED BY <2>2, <2>3, <3>1, <3>2, Reports
  <2>4. CASE starts' = starts
    <3>1. ASSUME NEW b \in Nodes, run'[b].at \in Unstarted
          PROVE  starts'[run'[b].attempt] = 0
      <4>1. CASE b # a
        BY <2>1, <2>4, <3>1, <4>1 DEF OthersKeep
      <4>2. CASE b = a
        <5>1. /\ run'[a].attempt = run[a].attempt
              /\ \/ run[a].at \in Unstarted
                 \/ /\ run[a].at = "pulling" /\ job.attempt = run[a].attempt
                    /\ job.status \in {"ASSIGNED", "PULLING_IMAGE"}
          BY <1>3, <3>1, <4>2, UnstartedStep
        <5>2. CASE run[a].at = "pulling" /\ job.attempt = run[a].attempt
                   /\ job.status \in {"ASSIGNED", "PULLING_IMAGE"}
          <6>1. run[a].attempt \in AttemptNumber
            BY <5>2 DEF EntryIsJournaled, TypeOK, Run
          <6>2. starts[run[a].attempt] \in Nat /\ ~(starts[run[a].attempt] > 0)
            BY <5>2, <6>1 DEF TypeOK
          <6>. QED BY <2>4, <4>2, <5>1, <6>2
        <5>. QED BY <2>4, <4>2, <5>1, <5>2
      <4>. QED BY <4>1, <4>2
    <3>. QED BY <2>2, <2>3, <2>4, <3>1
  <2>5. CASE starts' # starts
    <3>. DEFINE n == run[a].attempt
    <3>1. /\ run[a].at = "start" /\ run'[a].at \in {"running", "failed"}
          /\ job' = job /\ starts' = [starts EXCEPT ![n] = @ + 1]
      BY <1>3, <2>5, StartsOfStep
    <3>2. n \in AttemptNumber /\ n \in Known(a) /\ n <= job.made
      BY <3>1 DEF EntryIsJournaled, TypeOK, Run, Known, OneOwner
    <3>3. job.status \notin {"ASSIGNED", "PULLING_IMAGE"}
      BY <3>1 DEF PreparingIsCurrent
    <3>4. starts[n] = 0
      BY <3>1
    <3>5. \A m \in AttemptNumber : starts'[m] = IF m = n THEN 1 ELSE starts[m]
      BY <3>1, <3>2, <3>4 DEF TypeOK
    <3>6. ASSUME NEW b \in Nodes, run'[b].at \in Unstarted
          PROVE  starts'[run'[b].attempt] = 0
      <4>1. b # a /\ run'[b] = run[b]
        BY <2>1, <3>1, <3>6 DEF OthersKeep
      <4>2. run[b].attempt # n /\ run[b].attempt \in AttemptNumber
        BY <3>2, <3>6, <4>1 DEF EntryIsJournaled, TypeOK, Run, Known, OneOwner
      <4>. QED BY <3>5, <3>6, <4>1, <4>2
    <3>. HIDE DEF n
    <3>. QED BY <3>1, <3>2, <3>3, <3>5, <3>6
  <2>. QED BY <2>4, <2>5
<1>. QED BY <1>1, <1>2, <1>3 DEF Next, AgentStep

-----------------------------------------------------------------------------
(* Containers and journals, whatever fails *)

(* The server has left attempt n, or has its result. *)
Left(n) == job.status \in Terminal \/ job.attempt # n

LEMMA LeftStays ==
  ASSUME TypeOK, [Next]_vars, NEW n \in 1 .. job.made, Left(n)
  PROVE  job'.status \in Terminal \/ job'.attempt # n
<1>0. n # NoAttempt /\ n # job.made + 1 /\ n <= job.made
  BY BoundsAssumption DEF TypeOK, Job, NoAttempt
<1>1. CASE UNCHANGED vars
  BY <1>1 DEF vars, Left
<1>2. CASE ServerStep
  <2>1. "QUEUED" \notin Terminal /\ Active \cap Terminal = {}
    BY DEF Active, Terminal
  <2>. QED BY <1>0, <1>2, <2>1, ServerMovesJob DEF Left
<1>3. ASSUME NEW a \in Nodes, AgentStep(a)
      PROVE  job'.status \in Terminal \/ job'.attempt # n
  <2>1. JobMoves(a)
    BY <1>3, StepMovesJob
  <2>2. \A s \in Reported : job.status \in Terminal /\ CanTransition(job.status, s)
                              => s \in Terminal
    BY DEF CanTransition, Allowed, Reported, Terminal, JobStatus
  <2>3. job'.attempt = job.attempt
    BY <2>1, ReportKeepsAttempt
  <2>. QED BY <2>1, <2>2, <2>3 DEF JobMoves, Left, TypeOK, Job
<1>. QED BY <1>1, <1>2, <1>3 DEF Next, AgentStep

(* What an agent holds is of an attempt that was made. *)
LEMMA HeldIsMade ==
  ASSUME TypeOK, OneOwner, JournalIsLatest, NEW a \in Nodes
  PROVE  /\ job.made \in Nat
         /\ journal[a].attempt \in 0 .. job.made
         /\ reply[a].attempt \in 0 .. job.made
         /\ container[a].attempt \in 0 .. job.made
         /\ container[a].state # "none" => container[a].attempt \in 1 .. job.made
<1>1. job.made \in Nat
  BY BoundsAssumption DEF TypeOK, Job
<1>2. /\ journal[a].attempt \in Nat /\ reply[a].attempt \in Nat
      /\ container[a].attempt \in Nat
  BY DEF TypeOK, Journal, Reply, Container, AttemptNumber, NoAttempt
<1>3. \A n \in {journal[a].attempt, reply[a].attempt} : n = 0 \/ n <= job.made
  BY DEF OneOwner, Known, NoAttempt
<1>. QED BY <1>1, <1>2, <1>3 DEF JournalIsLatest, NoAttempt

(* The container of a node after a step of its agent: it ends, is removed, *)
(* created or started.                                                     *)
ContainerMoves(a) ==
  \/ /\ container'[a].attempt = container[a].attempt
     /\ container[a].state # "none"
     /\ container'[a].state \in {"succeeded", "failed"}
  \/ container'[a] = container[a]
  \/ container'[a] = NoContainer
  \/ /\ run[a].at = "create"
     /\ container'[a] = [attempt |-> run[a].attempt, state |-> "created"]
  \/ /\ run[a].at = "start" /\ run'[a].at \in {"running", "failed"}
     /\ container'[a].attempt = container[a].attempt

LEMMA ContainerOfStep ==
  ASSUME TypeOK, NEW a \in Nodes, AgentStep(a)
  PROVE  ContainerMoves(a)
<1>. USE DEF ContainerMoves, TypeOK, Container
<1>1. CASE PollStep(a)
  BY <1>1 DEF PollStep, Poll, StopRunning, StopJournaled, CancelJournaled,
              StopIgnored, DockerStop, StartAssignment
<1>2. CASE ExecuteStep(a)
  <2>1. CASE Create(a) \/ Discard(a) \/ Remove(a)
    BY <2>1 DEF Create, Discard, Remove, At
  <2>2. CASE Start(a)
    BY <2>2, GotoEffect DEF Start, At
  <2>3. CASE ~(Create(a) \/ Discard(a) \/ Remove(a) \/ Start(a))
    BY <1>2, <2>3 DEF ExecuteStep, MaterializeInputs, ReportPulling, Pull,
         ReportStarting, Save, Accept, ReportRunning, Wait, ReportResult,
         Complete, ReportFailed, ReportCancelled, Close, SendEvent
  <2>. QED BY <2>1, <2>2, <2>3
<1>3. CASE ProcessStep(a)
  BY <1>3 DEF ProcessStep, Ends, Crash, Terminate, Terminated, Restart, Exit
<1>. QED BY <1>1, <1>2, <1>3 DEF AgentStep

(* The journal of a node after a step of its agent, and what is left of a  *)
(* reply.                                                                  *)
JournalMoves(a) ==
  \/ /\ journal'[a].attempt = journal[a].attempt
     /\ \/ ~journal'[a].completed
        \/ journal[a].completed
        \/ run[a].at \in {"complete", "close"}
        \/ job'.status \in Terminal
     /\ \/ reply'[a].attempt \in {reply[a].attempt, NoAttempt}
        \/ reply'[a].attempt = job.attempt
  \/ /\ reply[a].attempt # NoAttempt /\ reply'[a].attempt = NoAttempt
     /\ journal'[a].attempt = reply[a].attempt /\ ~journal'[a].completed

LEMMA JournalOfStep ==
  ASSUME TypeOK, EntryIsJournaled, NEW a \in Nodes, AgentStep(a)
  PROVE  JournalMoves(a)
<1>. USE DEF JournalMoves, TypeOK, server
<1>1. CASE PollStep(a)
  <2>1. CASE Poll(a)
    BY <2>1 DEF Poll, Offer
  <2>2. CASE StopIgnored(a) \/ DockerStop(a)
    BY <2>2 DEF StopIgnored, DockerStop, Reply
  <2>3. CASE StopRunning(a)
    BY <2>3 DEF StopRunning, Saved, EntryIsJournaled, Run, Reply
  <2>4. CASE StopJournaled(a)
    BY <2>4 DEF StopJournaled, Journal, Reply
  <2>5. CASE CancelJournaled(a)
    BY <2>5 DEF CancelJournaled, Take, Terminal, Job, Journal, Reply
  <2>6. CASE StartAssignment(a)
    <3>1. reply'[a].attempt = NoAttempt
      BY <2>6 DEF StartAssignment, NoReply
    <3>. QED BY <3>1, <2>6, StartAssignmentEffect
  <2>. QED BY <1>1, <2>1, <2>2, <2>3, <2>4, <2>5, <2>6 DEF PollStep
<1>2. CASE ExecuteStep(a)
  <2>1. reply' = reply
    BY <1>2 DEF ExecuteStep, MaterializeInputs, ReportPulling, Pull,
         ReportStarting, Create, Save, Discard, Accept, Start, ReportRunning,
         Wait, ReportResult, Complete, Remove, ReportFailed, ReportCancelled,
         Close, SendEvent
  <2>2. CASE UNCHANGED journal
    BY <2>1, <2>2
  <2>3. CASE \/ ReportPulling(a) \/ ReportStarting(a) \/ ReportRunning(a)
             \/ ReportResult(a) \/ ReportFailed(a) \/ ReportCancelled(a)
    BY <2>1, <2>3 DEF ReportPulling, ReportStarting, ReportRunning,
         ReportResult, ReportFailed, ReportCancelled, SendEvent, At, Saved,
         EntryIsJournaled
  <2>4. CASE Save(a)
    BY <2>1, <2>4 DEF Save, Saved, At, EntryIsJournaled, Run
  <2>5. CASE Complete(a) \/ Close(a)
    BY <2>1, <2>5 DEF Complete, Close, Saved, At, EntryIsJournaled
  <2>6. CASE ~(Save(a) \/ Complete(a) \/ Close(a)) /\ journal' # journal
    BY <1>2, <2>3, <2>6 DEF ExecuteStep, MaterializeInputs, Pull, Create,
         Discard, Accept, Start, Wait, Remove
  <2>. QED BY <2>2, <2>4, <2>5, <2>6
<1>3. CASE ProcessStep(a)
  BY <1>3 DEF ProcessStep, Ends, Crash, Terminate, Terminated, Restart, Exit,
              NoReply
<1>. QED BY <1>1, <1>2, <1>3 DEF AgentStep

LEMMA JournalIsLatestPreserved ==
  ASSUME TypeOK, CurrentIsLast, OneOwner, EntryIsJournaled, JournalIsLatest,
         ContainersAreOwn, [Next]_vars
  PROVE  JournalIsLatest'
<1>1. CASE UNCHANGED vars \/ ServerStep
  BY <1>1, ServerKeepsAgents DEF vars, agents, JournalIsLatest
<1>2. ASSUME NEW a \in Nodes, AgentStep(a) PROVE JournalIsLatest'
  <2>1. OthersKeep(a) /\ ContainerMoves(a) /\ JournalMoves(a)
    BY <1>2, StepIsLocal, ContainerOfStep, JournalOfStep
  <2>2. /\ job.made \in Nat /\ journal[a].attempt \in 0 .. job.made
        /\ reply[a].attempt \in 0 .. job.made
        /\ container[a].attempt \in 0 .. job.made
    BY HeldIsMade
  <2>3. job.attempt = NoAttempt \/ job.attempt = job.made
    BY DEF CurrentIsLast
  <2>4. /\ container[a].attempt <= journal[a].attempt
        /\ container[a].state # "none" => container[a].attempt # NoAttempt
        /\ reply[a].attempt # NoAttempt => journal[a].attempt <= reply[a].attempt
    BY DEF JournalIsLatest
  <2>5. /\ container'[a].attempt <= journal[a].attempt
        /\ container'[a].state # "none" => container'[a].attempt # NoAttempt
    <3>1. run[a].at = "create" => /\ run[a].attempt = journal[a].attempt
                                  /\ run[a].attempt # NoAttempt
      BY DEF EntryIsJournaled
    <3>2. run[a].at = "start" => container[a].state = "created"
      <4>1. CreatedIsOwn(a)
        BY DEF ContainersAreOwn
      <4>. QED BY <4>1 DEF CreatedIsOwn
    <3>. QED BY <2>1, <2>2, <2>4, <3>1, <3>2 DEF ContainerMoves, NoContainer, NoAttempt
  <2>6. /\ journal[a].attempt <= journal'[a].attempt
        /\ reply'[a].attempt # NoAttempt => journal'[a].attempt <= reply'[a].attempt
    BY <2>1, <2>2, <2>3, <2>4 DEF JournalMoves, NoAttempt
  <2>7. container'[a].attempt \in Nat /\ journal'[a].attempt \in Nat
    BY TypePreserved, <1>2 DEF Next, AgentStep, TypeOK, Container, Journal,
       AttemptNumber, NoAttempt
  <2>8. container'[a].attempt <= journal'[a].attempt
    BY <2>2, <2>5, <2>6, <2>7
  <2>. QED BY <2>1, <2>5, <2>6, <2>8 DEF JournalIsLatest, OthersKeep
<1>. QED BY <1>1, <1>2 DEF Next, AgentStep

(* A goroutine prepares its own container. *)
LEMMA CreatedIsOwnOfStep ==
  ASSUME TypeOK, NEW a \in Nodes, CreatedIsOwn(a), AgentStep(a)
  PROVE  CreatedIsOwn(a)'
<1>. USE DEF CreatedIsOwn, TypeOK, server
<1>1. CASE PollStep(a)
  <2>1. CASE Poll(a) \/ StopIgnored(a) \/ StopJournaled(a) \/ CancelJournaled(a)
    BY <2>1 DEF Poll, StopIgnored, StopJournaled, CancelJournaled
  <2>2. CASE StopRunning(a)
    BY <2>2 DEF StopRunning, Run
  <2>3. CASE DockerStop(a)
    BY <2>3 DEF DockerStop
  <2>4. CASE StartAssignment(a)
    BY <2>4, StartAssignmentEffect DEF StartAssignment
  <2>. QED BY <1>1, <2>1, <2>2, <2>3, <2>4 DEF PollStep
<1>2. CASE ExecuteStep(a)
  <2>1. CASE MaterializeInputs(a) \/ Pull(a)
    BY <2>1, GotoEffect DEF MaterializeInputs, Pull, IfStopped
  <2>2. CASE Create(a) \/ Accept(a)
    BY <2>2, GotoEffect DEF Create, Accept, At, IfStopped
  <2>3. CASE Save(a)
    BY <2>3 DEF Save, At, Run, IfStopped
  <2>4. CASE Wait(a)
    BY <2>4, WaitEffect
  <2>5. CASE Discard(a) \/ Start(a) \/ Complete(a) \/ Close(a) \/ Remove(a)
    BY <2>5, GotoEffect DEF Discard, Start, Complete, Close, Remove, NoRun
  <2>6. CASE \/ ReportPulling(a) \/ ReportStarting(a) \/ ReportRunning(a)
             \/ ReportResult(a) \/ ReportFailed(a) \/ ReportCancelled(a)
    BY <2>6, GotoEffect DEF ReportPulling, ReportStarting, ReportRunning,
       ReportResult, ReportFailed, ReportCancelled, SendEvent, IfStopped
  <2>. QED BY <1>2, <2>1, <2>2, <2>3, <2>4, <2>5, <2>6 DEF ExecuteStep
<1>3. CASE ProcessStep(a)
  BY <1>3 DEF ProcessStep, Ends, Crash, Terminate, Terminated, Restart, Exit,
              NoRun
<1>. QED BY <1>1, <1>2, <1>3 DEF AgentStep

(* How a goroutine comes to report its result, and to complete its record. *)
LEMMA EndingStep ==
  ASSUME TypeOK, NEW a \in Nodes, AgentStep(a),
         run'[a].at \in {"result", "complete", "close"}
  PROVE  \/ run'[a].at = run[a].at
         \/ run[a].at = "wait" /\ container[a].state # "running"
         \/ run[a].at = "result" /\ run'[a].at # "result"
         \/ /\ run[a].at \in {"failed", "cancelled"} /\ run'[a].at # "result"
            /\ job'.status \in Terminal
<1>. USE DEF TypeOK, server
<1>1. CASE PollStep(a)
  <2>1. CASE Poll(a) \/ StopIgnored(a) \/ DockerStop(a) \/ StopJournaled(a) \/ CancelJournaled(a)
    BY <2>1 DEF Poll, StopIgnored, DockerStop, StopJournaled, CancelJournaled
  <2>2. CASE StopRunning(a)
    BY <2>2 DEF StopRunning, Run
  <2>3. CASE StartAssignment(a)
    BY <2>3, StartAssignmentEffect DEF StartAssignment
  <2>. QED BY <1>1, <2>1, <2>2, <2>3 DEF PollStep
<1>2. CASE ExecuteStep(a)
  <2>1. CASE \/ MaterializeInputs(a) \/ Pull(a) \/ Create(a) \/ Discard(a)
             \/ Accept(a) \/ Start(a) \/ Complete(a)
    BY <2>1, GotoEffect DEF MaterializeInputs, Pull, Create, Discard, Accept,
       Start, Complete, IfStopped
  <2>2. CASE Save(a)
    BY <2>2 DEF Save, Run, IfStopped
  <2>3. CASE Wait(a)
    BY <2>3, WaitEffect
  <2>4. CASE Close(a) \/ Remove(a)
    BY <2>4 DEF Close, Remove, NoRun
  <2>5. CASE ReportResult(a)
    BY <2>5, GotoEffect DEF ReportResult, SendEvent, At
  <2>6. CASE ReportFailed(a)
    BY <2>6, GotoEffect DEF ReportFailed, SendEvent, At, Take, Terminal, Job
  <2>7. CASE ReportCancelled(a)
    BY <2>7, GotoEffect DEF ReportCancelled, SendEvent, At, Take, Terminal, Job
  <2>8. CASE ReportPulling(a) \/ ReportStarting(a) \/ ReportRunning(a)
    BY <2>8, GotoEffect DEF ReportPulling, ReportStarting, ReportRunning,
       SendEvent, IfStopped
  <2>. QED BY <1>2, <2>1, <2>2, <2>3, <2>4, <2>5, <2>6, <2>7, <2>8 DEF ExecuteStep
<1>3. CASE ProcessStep(a)
  BY <1>3 DEF ProcessStep, Ends, Crash, Terminate, Terminated, Restart, Exit,
              NoRun
<1>. QED BY <1>1, <1>2, <1>3 DEF AgentStep

LEMMA CompletedIsLeftOfStep ==
  ASSUME TypeOK, OneOwner, JournalIsLatest, NEW a \in Nodes,
         CompletedIsLeft(a), AgentStep(a), [Next]_vars
  PROVE  CompletedIsLeft(a)'
<1>1. ContainerMoves(a)
  BY ContainerOfStep
<1>2. CASE container'[a].state # "running"
  BY <1>2 DEF CompletedIsLeft
<1>3. CASE run[a].at \in {"create", "start"}
  BY <1>2, <1>3, EndingStep DEF CompletedIsLeft
<1>4. CASE container'[a].state = "running" /\ run[a].at \notin {"create", "start"}
  <2>1. container'[a] = container[a]
    BY <1>1, <1>4 DEF ContainerMoves, NoContainer
  <2>2. ASSUME run'[a].at \in {"result", "complete", "close"}
        PROVE  /\ run'[a].at # "result"
               /\ job'.status \in Terminal \/ job'.attempt # container[a].attempt
    <3>1. CASE run'[a].at = run[a].at
      <4>1. run[a].at # "result" /\ Left(container[a].attempt)
        BY <1>4, <2>1, <2>2, <3>1 DEF CompletedIsLeft, Left
      <4>2. container[a].attempt \in 1 .. job.made
        BY <1>4, <2>1, HeldIsMade
      <4>. QED BY <3>1, <4>1, <4>2, LeftStays
    <3>2. CASE run'[a].at # run[a].at
      BY <1>4, <2>1, <2>2, <3>2, EndingStep DEF CompletedIsLeft
    <3>. QED BY <3>1, <3>2
  <2>. QED BY <2>1, <2>2 DEF CompletedIsLeft
<1>. QED BY <1>2, <1>3, <1>4

LEMMA ContainersAreOwnPreserved ==
  ASSUME TypeOK, OneOwner, JournalIsLatest, ContainersAreOwn, [Next]_vars
  PROVE  ContainersAreOwn'
<1>0. \A b \in Nodes : CreatedIsOwn(b) /\ CompletedIsLeft(b)
  BY DEF ContainersAreOwn
<1>1. CASE UNCHANGED vars
  BY <1>0, <1>1 DEF vars, ContainersAreOwn, CreatedIsOwn, CompletedIsLeft
<1>2. ASSUME NEW b \in Nodes, run'[b] = run[b], container'[b] = container[b]
      PROVE  CreatedIsOwn(b)' /\ CompletedIsLeft(b)'
  <2>1. CreatedIsOwn(b)'
    BY <1>0, <1>2 DEF CreatedIsOwn
  <2>2. CASE container[b].state # "running"
    BY <1>2, <2>1, <2>2 DEF CompletedIsLeft
  <2>3. CASE container[b].state = "running"
    <3>1. container[b].attempt \in 1 .. job.made
      BY <2>3, HeldIsMade
    <3>2. Left(container[b].attempt) =>
            job'.status \in Terminal \/ job'.attempt # container[b].attempt
      BY <3>1, LeftStays
    <3>3. CompletedIsLeft(b)
      BY <1>0
    <3>. QED BY <1>2, <2>1, <3>2, <3>3 DEF CompletedIsLeft, Left
  <2>. QED BY <2>2, <2>3
<1>3. CASE ServerStep
  BY <1>2, <1>3, ServerKeepsAgents DEF agents, ContainersAreOwn
<1>4. ASSUME NEW a \in Nodes, AgentStep(a) PROVE ContainersAreOwn'
  <2>1. CreatedIsOwn(a)' /\ CompletedIsLeft(a)'
    BY <1>0, <1>4, CreatedIsOwnOfStep, CompletedIsLeftOfStep
  <2>2. OthersKeep(a)
    BY <1>4, StepIsLocal
  <2>. QED BY <1>2, <2>1, <2>2 DEF OthersKeep, ContainersAreOwn
<1>. QED BY <1>1, <1>3, <1>4 DEF Next, AgentStep

LEMMA RunningIsJournaledPreserved ==
  ASSUME TypeOK, CurrentIsLast, OneOwner, EntryIsJournaled, JournalIsLatest,
         ContainersAreOwn, RunningIsJournaled, [Next]_vars
  PROVE  RunningIsJournaled'
<1>. SUFFICES ASSUME NEW b \in Nodes, container'[b].state = "running",
                     container'[b].attempt = job'.attempt,
                     job'.status \notin Terminal
              PROVE  /\ journal'[b].attempt = container'[b].attempt
                     /\ ~journal'[b].completed
  BY DEF RunningIsJournaled
<1>1. ASSUME container[b].state # "none", container'[b].attempt = container[b].attempt
      PROVE  /\ job.attempt = container[b].attempt /\ job.attempt = job.made
             /\ job.status \notin Terminal
  <2>1. container[b].attempt \in 1 .. job.made
    BY <1>1, HeldIsMade
  <2>2. job.attempt = container[b].attempt /\ job.status \notin Terminal
    BY <1>1, <2>1, LeftStays DEF Left
  <2>. QED BY <2>1, <2>2 DEF CurrentIsLast, NoAttempt
<1>2. CASE journal'[b] = journal[b] /\ container'[b] = container[b]
  BY <1>1, <1>2 DEF RunningIsJournaled
<1>3. CASE UNCHANGED vars \/ ServerStep
  BY <1>2, <1>3, ServerKeepsAgents DEF vars, agents
<1>4. ASSUME NEW a \in Nodes, AgentStep(a), a # b
      PROVE  journal'[b] = journal[b] /\ container'[b] = container[b]
  BY <1>4, StepIsLocal DEF OthersKeep
<1>5. CASE AgentStep(b)
  <2>1. ContainerMoves(b) /\ JournalMoves(b)
    BY <1>5, ContainerOfStep, JournalOfStep
  <2>2. CASE container'[b] = container[b]
    <3>1. /\ job.attempt = container[b].attempt /\ job.attempt = job.made
          /\ job.status \notin Terminal
      BY <1>1, <2>2
    <3>2. journal[b].attempt = container[b].attempt /\ ~journal[b].completed
      BY <2>2, <3>1 DEF RunningIsJournaled
    <3>3. run[b].at \notin {"complete", "close"}
      BY <2>2, <3>1 DEF ContainersAreOwn, CompletedIsLeft
    <3>4. reply[b].attempt # NoAttempt => reply[b].attempt = journal[b].attempt
      <4>1. /\ reply[b].attempt \in 0 .. job.made /\ job.made \in Nat
            /\ reply[b].attempt # NoAttempt => journal[b].attempt <= reply[b].attempt
        BY HeldIsMade DEF JournalIsLatest
      <4>2. journal[b].attempt = job.made
        BY <3>1, <3>2
      <4>. QED BY <4>1, <4>2
    <3>. QED BY <2>1, <2>2, <3>2, <3>3, <3>4 DEF JournalMoves
  <2>3. CASE /\ run[b].at = "start" /\ run'[b].at \in {"running", "failed"}
             /\ container'[b].attempt = container[b].attempt
    <3>1. /\ journal'[b].attempt = run'[b].attempt /\ ~journal'[b].completed
      BY <1>5, <2>3, EntryOfStep
    <3>2. /\ run[b].attempt # NoAttempt /\ journal[b].attempt = run[b].attempt
      BY <2>3 DEF EntryIsJournaled
    <3>3. CreatedIsOwn(b)
      BY DEF ContainersAreOwn
    <3>4. container[b].attempt = run[b].attempt /\ container[b].state # "none"
      BY <2>3, <3>3 DEF CreatedIsOwn
    <3>5. job.attempt = job.made /\ job.attempt = journal[b].attempt
      BY <1>1, <2>3, <3>2, <3>4
    <3>6. /\ reply[b].attempt \in 0 .. job.made /\ job.made \in Nat
          /\ reply[b].attempt # NoAttempt => journal[b].attempt <= reply[b].attempt
      BY HeldIsMade DEF JournalIsLatest
    <3>7. journal'[b].attempt = journal[b].attempt
      BY <2>1, <3>5, <3>6 DEF JournalMoves
    <3>. QED BY <2>3, <3>1, <3>2, <3>4, <3>7
  <2>. QED BY <2>1, <2>2, <2>3 DEF ContainerMoves, NoContainer
<1>. QED BY <1>2, <1>3, <1>4, <1>5 DEF Next, AgentStep

-----------------------------------------------------------------------------
(* Containers, as long as no call fails and no agent is told to terminate *)

LEMMA FailureDisturbs ==
  ASSUME TypeOK
  PROVE  /\ Fails => ~Undisturbed'
         /\ Works => Undisturbed' = Undisturbed
BY BoundsAssumption DEF TypeOK, Fails, Works, Undisturbed, Spent

LEMMA UndisturbedBefore ==
  ASSUME TypeOK, [Next]_vars, Undisturbed'
  PROVE  Undisturbed
<1>1. CASE UNCHANGED vars
  BY <1>1 DEF vars, Undisturbed
<1>2. CASE ServerStep
  BY <1>2 DEF ServerStep, RerunJob, RequestStop, MarkLost, Reserve, Undisturbed, TypeOK, Spent
<1>3. CASE spent' = spent \/ Fails
  BY <1>3, FailureDisturbs DEF Works
<1>4. ASSUME NEW a \in Nodes, AgentStep(a) PROVE Undisturbed
  <2>1. CASE PollStep(a)
    BY <1>3, <2>1 DEF PollStep, Poll, StopRunning, StopJournaled, CancelJournaled,
                      StopIgnored, DockerStop, StartAssignment, Works
  <2>2. CASE ExecuteStep(a)
    BY <1>3, <2>2 DEF ExecuteStep, MaterializeInputs, ReportPulling, Pull,
         ReportStarting, Create, Save, Discard, Accept, Start, ReportRunning,
         Wait, ReportResult, Complete, Remove, ReportFailed, ReportCancelled,
         Close, SendEvent, Disturbed, Works
  <2>3. CASE Crash(a) \/ Terminate(a)
    BY <2>3 DEF Crash, Terminate, Undisturbed, TypeOK, Spent
  <2>4. CASE Ends(a) \/ Terminated(a) \/ Restart(a)
    BY <1>3, <2>4 DEF Ends, Terminated, Restart, Works
  <2>. QED BY <1>4, <2>1, <2>2, <2>3, <2>4 DEF AgentStep, ProcessStep
<1>. QED BY <1>1, <1>2, <1>4 DEF Next, AgentStep

LEMMA AttendedAfterPoll ==
  ASSUME TypeOK, NEW a \in Nodes, Attended(a), PollStep(a), Undisturbed'
  PROVE  Attended(a)'
<1>. USE DEF Attended, RunningIsAttended, TypeOK, server, Alive
<1>1. CASE Poll(a) \/ StopIgnored(a)
  BY <1>1 DEF Poll, StopIgnored
<1>2. CASE StopRunning(a)
  <2>1. /\ run'[a].at = run[a].at /\ run'[a].attempt = run[a].attempt
        /\ run'[a].box = run[a].box /\ run[a].at # "none"
    BY <1>2 DEF StopRunning, Run
  <2>. QED BY <1>2, <2>1 DEF StopRunning
<1>3. CASE StopJournaled(a)
  BY <1>3 DEF StopJournaled, Journal
<1>4. CASE CancelJournaled(a)
  BY <1>4 DEF CancelJournaled
<1>5. CASE DockerStop(a)
  BY <1>5 DEF DockerStop, Container
<1>6. CASE StartAssignment(a)
  BY <1>6, StartAssignmentEffect DEF StartAssignment
<1>. QED BY <1>1, <1>2, <1>3, <1>4, <1>5, <1>6 DEF PollStep

LEMMA AttendedAfterEvent ==
  ASSUME TypeOK, NEW a \in Nodes, Attended(a),
         NEW status, NEW sent, NEW unsent, SendEvent(a, status, sent, unsent),
         run[a].at \notin Preparing \cup {"none", "remove"},
         sent \notin Preparing \ {"create"}, unsent \notin Preparing,
         run[a].at \in {"running", "wait", "returned"} =>
           /\ status = "RUNNING" /\ unsent = "returned"
           /\ sent = "wait" /\ run[a].box,
         run[a].at \notin {"running", "wait", "returned"} =>
           {sent, unsent} \cap {"running", "wait"} = {}
  PROVE  Attended(a)'
<1>. USE DEF Attended, TypeOK
<1>1. \/ run'[a].at = sent
      \/ run'[a].at = unsent
  BY GotoEffect DEF SendEvent
<1>2. /\ run'[a].attempt = run[a].attempt /\ run'[a].box = run[a].box
      /\ run'[a].stop = run[a].stop
      /\ process' = process /\ container' = container
  BY GotoEffect DEF SendEvent
<1>3. RunningIsAttended(a)'
  <2>. SUFFICES ASSUME container[a].state = "running"
                PROVE  RunningIsAttended(a)'
    BY <1>2 DEF RunningIsAttended
  <2>1. run[a].at \in {"running", "wait", "returned"}
    BY DEF RunningIsAttended
  <2>2. run'[a].at \in {"wait", "returned"} /\ run'[a].box
    BY <1>1, <1>2, <2>1
  <2>3. job'.attempt = job.attempt /\ job'.node = job.node /\ job'.status \in Begun
    <3>1. job' = job \/ job' = [job EXCEPT !.status = "RUNNING"]
      BY <2>1, EventMovesJob
    <3>2. "RUNNING" \in Begun
      BY DEF Begun, Active
    <3>. QED BY <3>1, <3>2 DEF Job, RunningIsAttended, Begun
  <2>. QED BY <1>2, <2>2, <2>3 DEF RunningIsAttended, Begun
<1>. QED BY <1>1, <1>2, <1>3 DEF Preparing

LEMMA AttendedAfterExecute ==
  ASSUME TypeOK, EntryIsJournaled, PreparingIsCurrent, NEW a \in Nodes,
         CreatedIsOwn(a), Attended(a), ExecuteStep(a), Undisturbed'
  PROVE  Attended(a)'
<1>. USE DEF Attended, CreatedIsOwn, RunningIsAttended, TypeOK, server
<1>0. Disturbed(a) /\ (Fails \/ Works) => Works /\ run[a].stop /\ ~run[a].box
  BY FailureDisturbs DEF Disturbed
<1>1. CASE MaterializeInputs(a) \/ Pull(a)
  BY <1>1, GotoEffect DEF MaterializeInputs, Pull, At, IfStopped
<1>2. CASE Create(a)
  BY <1>2, GotoEffect DEF Create, At, IfStopped
<1>3. CASE Save(a)
  BY <1>3 DEF Save, At, Run, IfStopped, Saved, Container
<1>4. CASE Discard(a)
  BY <1>4, GotoEffect DEF Discard, At, NoContainer
<1>5. CASE Accept(a)
  BY <1>0, <1>5, GotoEffect DEF Accept, At
<1>6. CASE Start(a)
  <2>1. Works /\ Goto(a, "running") /\ run[a].at = "start" /\ run[a].box
    BY <1>0, <1>6 DEF Start, At, Disturbed
  <2>2. container'[a].attempt = run[a].attempt
    BY <1>6, <2>1 DEF Start, Container
  <2>. QED
    BY <1>6, <2>1, <2>2, GotoEffect DEF Start, EntryIsJournaled, PreparingIsCurrent
<1>7. CASE Wait(a)
  <2>1. container[a].state # "running"
    BY <1>0, <1>7, FailureDisturbs DEF Wait, At, Disturbed
  <2>. QED BY <1>7, <2>1, WaitEffect DEF Wait
<1>8. CASE Complete(a) \/ Remove(a) \/ Close(a)
  BY <1>8, GotoEffect DEF Complete, Remove, Close, At, NoRun, NoContainer
<1>9. CASE ReportPulling(a)
  BY <1>9, AttendedAfterEvent DEF ReportPulling, At, IfStopped, Preparing
<1>10. CASE ReportStarting(a)
  BY <1>10, AttendedAfterEvent DEF ReportStarting, At, IfStopped, Preparing
<1>11. CASE ReportRunning(a)
  BY <1>11, AttendedAfterEvent DEF ReportRunning, At, Preparing
<1>12. CASE ReportResult(a)
  BY <1>12, AttendedAfterEvent DEF ReportResult, At, Preparing
<1>13. CASE ReportFailed(a)
  BY <1>13, AttendedAfterEvent DEF ReportFailed, At, Preparing
<1>14. CASE ReportCancelled(a)
  BY <1>14, AttendedAfterEvent DEF ReportCancelled, At, Preparing
<1>. QED
  BY <1>1, <1>2, <1>3, <1>4, <1>5, <1>6, <1>7, <1>8, <1>9, <1>10, <1>11,
     <1>12, <1>13, <1>14 DEF ExecuteStep

(* A restarted agent takes up whatever runs.                               *)
LEMMA AttendedAfterProcess ==
  ASSUME TypeOK, JournalIsLatest, RunningIsJournaled, NEW a \in Nodes,
         Attended(a), ProcessStep(a), Undisturbed'
  PROVE  Attended(a)'
<1>. USE DEF Attended, RunningIsAttended, TypeOK, server
<1>1. CASE Ends(a)
  BY <1>1 DEF Ends, Container
<1>2. CASE Crash(a)
  BY <1>2 DEF Crash, Exit, NoRun
<1>3. CASE Terminate(a)
  BY <1>3, BoundsAssumption DEF Terminate, Undisturbed, Spent
<1>4. CASE Terminated(a)
  BY <1>4 DEF Terminated
<1>5. CASE Restart(a)
  <2>. DEFINE taken == /\ journal[a].attempt # NoAttempt /\ ~journal[a].completed
                       /\ container[a].state # "none"
  <2>1. Works /\ process[a] = "down" /\ process'[a] = "up"
    BY <1>5, FailureDisturbs DEF Restart
  <2>2. CASE taken
    <3>1. run'[a].at = "running" /\ run'[a].box
      <4>. DEFINE found == [at |-> "running", attempt |-> journal[a].attempt,
                            box |-> TRUE, stop |-> journal[a].stop,
                            result |-> "NONE"]
      <4>1. run' = [run EXCEPT ![a] = found] \/ Fails
        BY <1>5, <2>2 DEF Restart
      <4>2. run' = [run EXCEPT ![a] = found]
        BY <4>1, FailureDisturbs
      <4>. QED BY <4>2
    <3>. QED BY <1>5, <2>1, <3>1 DEF Restart
  <2>3. CASE ~taken
    <3>1. container[a].state # "running"
      BY <2>3 DEF RunningIsJournaled, JournalIsLatest, Active, Terminal
    <3>. QED BY <1>5, <2>1, <3>1 DEF Restart
  <2>. QED BY <2>2, <2>3
<1>. QED BY <1>1, <1>2, <1>3, <1>4, <1>5 DEF ProcessStep

LEMMA AttendedPreserved ==
  ASSUME TypeOK, TypeOK', EntryIsJournaled, PreparingIsCurrent, JournalIsLatest,
         ContainersAreOwn, RunningIsJournaled, ContainersAreAttended,
         [Next]_vars
  PROVE  ContainersAreAttended'
<1>. SUFFICES ASSUME Undisturbed' PROVE \A b \in Nodes : Attended(b)'
  BY DEF ContainersAreAttended
<1>0. \A b \in Nodes : Attended(b)
  BY UndisturbedBefore DEF ContainersAreAttended
<1>. USE DEF Attended, RunningIsAttended
<1>1. CASE UNCHANGED vars
  BY <1>0, <1>1 DEF vars
<1>2. CASE ServerStep
  <2>1. UNCHANGED agents
    BY <1>2, ServerKeepsAgents
  <2>2. "QUEUED" \notin Active /\ Active \cap Terminal = {} /\ {"STOPPING", "LOST"} \subseteq Begun
    BY DEF Active, Terminal, Begun
  <2>3. job.status \in Begun => /\ job'.attempt = job.attempt /\ job'.node = job.node
                                /\ job'.status \in Begun
    BY <1>2, <2>2, ServerMovesJob DEF Begun
  <2>. QED BY <1>0, <2>1, <2>3 DEF agents, Begun
<1>3. ASSUME NEW a \in Nodes, AgentStep(a) PROVE \A b \in Nodes : Attended(b)'
  <2>1. Attended(a)'
    BY <1>0, <1>3, AttendedAfterPoll, AttendedAfterExecute, AttendedAfterProcess
       DEF AgentStep, ContainersAreOwn
  <2>2. OthersKeep(a) /\ JobMoves(a)
    BY <1>3, StepIsLocal, StepMovesJob
  <2>3. ASSUME NEW b \in Nodes \ {a} PROVE Attended(b)'
    <3>1. job.node = b => job' = job
      BY <2>2, <2>3 DEF JobMoves
    <3>. QED BY <1>0, <2>2, <2>3, <3>1 DEF OthersKeep
  <2>. QED BY <2>1, <2>3
<1>. QED BY <1>1, <1>2, <1>3 DEF Next, AgentStep

-----------------------------------------------------------------------------
(* The theorems *)

LEMMA Initially == Init => IInv
<1>. SUFFICES ASSUME Init PROVE IInv
  OBVIOUS
<1>. USE DEF Init
<1>1. TypeOK
  <2>1. job \in Job
    BY BoundsAssumption, Statuses DEF Job
  <2>2. spent \in Spent
    BY BoundsAssumption DEF Spent
  <2>. QED BY <2>1, <2>2, Nothing DEF TypeOK
<1>2. CurrentIsLast /\ OneOwner /\ EntryIsJournaled /\ PreparingIsCurrent
  BY DEF CurrentIsLast, OneOwner, Known, EntryIsJournaled, PreparingIsCurrent,
         NoReply, NoRun, NoJournal
<1>3. StartedIsPast /\ StartedOnce
  BY DEF StartedIsPast, StartedOnce, NoRun
<1>4. JournalIsLatest /\ ContainersAreOwn /\ RunningIsJournaled
  BY DEF JournalIsLatest, ContainersAreOwn, CreatedIsOwn, CompletedIsLeft,
         RunningIsJournaled, NoRun, NoContainer, NoJournal, NoReply, NoAttempt
<1>5. ContainersAreAttended
  BY DEF ContainersAreAttended, Attended, RunningIsAttended,
         NoRun, NoContainer
<1>. QED BY <1>1, <1>2, <1>3, <1>4, <1>5 DEF IInv

LEMMA Inductive == IInv /\ [Next]_vars => IInv'
BY TypePreserved, CurrentIsLastPreserved, OneOwnerPreserved,
   EntryIsJournaledPreserved, PreparingIsCurrentPreserved, StartedPreserved,
   JournalIsLatestPreserved, ContainersAreOwnPreserved,
   RunningIsJournaledPreserved, AttendedPreserved DEF IInv

(* The inductive invariant: how far an agent has got with an attempt, what *)
(* its journal and its container say, and what the server knows of it, in  *)
(* every reachable state (agent.go execute, reconcile, stop against the    *)
(* handlers of api.go).                                                    *)
THEOREM InductiveInvariant == Spec => []IInv
BY Initially, Inductive, PTL DEF Spec

(* Every variable keeps its type. *)
THEOREM TypeCorrect == Spec => []TypeOK
<1>1. IInv => TypeOK
  BY DEF IInv
<1>. QED BY <1>1, InductiveInvariant, PTL

(* The container of an attempt is started at most once, whatever calls are *)
(* lost and however often the agent crashes between docker create and the  *)
(* acceptance of the assignment (agent.go execute, reconcile).             *)
THEOREM AttemptStartedOnce == Spec => []StartedOnce
<1>1. IInv => StartedOnce
  BY DEF IInv
<1>. QED BY <1>1, InductiveInvariant, PTL

(* As long as no call fails, a job with a result, or back in the queue, has *)
(* no container that still runs on any node (agent.go execute: the result   *)
(* is reported after docker wait).                                          *)
THEOREM ResultMeansEnded_Undisturbed == Spec => []ResultMeansEndedIfUndisturbed
<1>1. IInv => ResultMeansEndedIfUndisturbed
  BY DEF IInv, ContainersAreAttended, Attended, RunningIsAttended,
         ResultMeansEndedIfUndisturbed, Active, Terminal
<1>. QED BY <1>1, InductiveInvariant, PTL

(* A container that runs for the current attempt of a job that has no      *)
(* result yet is one that a restarted agent takes up, whatever calls were  *)
(* lost and however often agents died or were told to terminate (agent.go  *)
(* startAssignment, sendEvent, stop, reconcile).                           *)
THEOREM RunningContainerIsJournaled == Spec => []RunningIsJournaled
<1>1. IInv => RunningIsJournaled
  BY DEF IInv
<1>. QED BY <1>1, InductiveInvariant, PTL

=============================================================================
