----------------------------- MODULE JobSystem -----------------------------
(***************************************************************************)
(* One job, the server and the agents of its nodes: how an assignment      *)
(* becomes a container and its result comes back (internal/agent/agent.go  *)
(* against the handlers of internal/httpapi/api.go).  Agents crash,        *)
(* restart and are told to terminate, their calls fail, replies are lost.  *)
(*                                                                         *)
(* The handlers of the server are atomic here, JobStore is about how they  *)
(* interleave.  A step of an agent is what one goroutine does between two  *)
(* calls to the server or to Docker.                                       *)
(***************************************************************************)
EXTENDS JobTypes, Integers, FiniteSets

CONSTANTS
  Nodes,        \* execution nodes, one agent each
  NoNode,       \* assigned_node_id is NULL
  MaxAttempts,  \* bound: attempts of the job
  MaxFailures,  \* bound: failed calls to Docker or to the server
  MaxExits,     \* bound: agent processes that die or are told to terminate
  MaxSweeps,    \* bound: times the node monitor marks the job LOST
  MaxStops      \* bound: stops the user asks for

ASSUME BoundsAssumption ==
  /\ MaxAttempts \in Nat \ {0}
  /\ {MaxFailures, MaxExits, MaxSweeps, MaxStops} \subseteq Nat
ASSUME NodesAssumption == NoNode \notin Nodes

VARIABLES
  job,        \* the row of table jobs
  accepted,   \* accepted[n]: the assignment of attempt n has accepted_at
  reply,      \* reply[a]: what the server answered to a's poll
  process,    \* process[a]: the agent's process
  run,        \* run[a]: the job's entry of a.running, and its goroutine
  journal,    \* journal[a]: assignments/<job>.json in the state directory
  container,  \* container[a]: the container named after the job
  starts,     \* history: starts[n] containers were started for attempt n
  spent       \* the bounds used up so far

vars == <<job, accepted, reply, process, run, journal, container, starts,
          spent>>
server == <<job, accepted>>
agents == <<reply, process, run, journal, container, starts>>

AttemptNumber == 1 .. MaxAttempts
NoAttempt == 0

-----------------------------------------------------------------------------
(* Records *)

Job == [status: JobStatus,
        wanted: BOOLEAN,          \* desired_status is RUNNING, not CANCELLED
        attempt: {NoAttempt} \cup AttemptNumber,
        made: 0 .. MaxAttempts,   \* attempts the job has had
        node: Nodes \cup {NoNode}]

(* What a goroutine that executes an assignment does next.                 *)
Step == {"none",      \* the agent has no entry for the job
         "inputs",    \* materializeInputs
         "pulling",   \* sendEvent(image_pull_started, PULLING_IMAGE)
         "pull",      \* docker pull, or load of a managed artifact
         "starting",  \* sendEvent(image_pull_finished, STARTING)
         "create",    \* docker create
         "save",      \* record.ContainerID, save
         "discard",   \* docker rm of a container created after a stop
         "accept",    \* POST .../accept
         "start",     \* docker start
         "running",   \* sendEvent(container_started, RUNNING)
         "wait",      \* docker wait
         "result",    \* sendEvent(completed | failed | cancelled)
         "complete",  \* record.Completed, save
         "remove",    \* docker rm, removeRunning
         "failed",    \* fail: sendEvent(..., FAILED)
         "cancelled", \* completePreStartCancellation: sendEvent(cancelled)
         "close",     \* ... record.Completed, save, removeRunning
         "returned"}  \* execute returned, its entry is still in a.running

Run == [at: Step,
        attempt: {NoAttempt} \cup AttemptNumber,
        box: BOOLEAN,                          \* record.ContainerID # ""
        stop: BOOLEAN,                         \* record.StopRequested
        result: Terminal \cup {"NONE"}]        \* status of the last event

Journal == [attempt: {NoAttempt} \cup AttemptNumber,
            box: BOOLEAN, stop: BOOLEAN, completed: BOOLEAN]

Container == [attempt: {NoAttempt} \cup AttemptNumber,
              state: {"none", "created", "running", "succeeded", "failed"}]

(* A reply on its way to the poll loop, or what is left of it to handle:   *)
(* "stop" when stop_job_ids names the job, "docker" while stop() waits for *)
(* docker stop.                                                            *)
Reply == [full: BOOLEAN, stop: {"no", "stop", "docker"},
          attempt: {NoAttempt} \cup AttemptNumber]

NoRun == [at |-> "none", attempt |-> NoAttempt, box |-> FALSE,
          stop |-> FALSE, result |-> "NONE"]
NoJournal == [attempt |-> NoAttempt, box |-> FALSE, stop |-> FALSE,
              completed |-> FALSE]
NoContainer == [attempt |-> NoAttempt, state |-> "none"]
NoReply == [full |-> FALSE, stop |-> "no", attempt |-> NoAttempt]

Spent == [failures: 0 .. MaxFailures, crashes: 0 .. MaxExits,
          signals: 0 .. MaxExits, sweeps: 0 .. MaxSweeps,
          stops: 0 .. MaxStops]

TypeOK ==
  /\ job \in Job
  /\ accepted \in [AttemptNumber -> BOOLEAN]
  /\ reply \in [Nodes -> Reply]
  /\ process \in [Nodes -> {"up", "terminating", "down"}]
  /\ run \in [Nodes -> Run]
  /\ journal \in [Nodes -> Journal]
  /\ container \in [Nodes -> Container]
  /\ starts \in [AttemptNumber -> Nat]
  /\ spent \in Spent

Init ==
  /\ job = [status |-> "QUEUED", wanted |-> TRUE, attempt |-> NoAttempt,
            made |-> 0, node |-> NoNode]
  /\ accepted = [n \in AttemptNumber |-> FALSE]
  /\ reply = [a \in Nodes |-> NoReply]
  /\ process = [a \in Nodes |-> "up"]
  /\ run = [a \in Nodes |-> NoRun]
  /\ journal = [a \in Nodes |-> NoJournal]
  /\ container = [a \in Nodes |-> NoContainer]
  /\ starts = [n \in AttemptNumber |-> 0]
  /\ spent = [failures |-> 0, crashes |-> 0, signals |-> 0,
              sweeps |-> 0, stops |-> 0]

(* A call fails: one of the failures that are allowed is used up.          *)
Fails == /\ spent.failures < MaxFailures
         /\ spent' = [spent EXCEPT !.failures = @ + 1]
Works == UNCHANGED spent

Alive(a) == process[a] # "down"

-----------------------------------------------------------------------------
(* The server *)

Reserve(a) ==
  /\ job.status = "QUEUED"
  /\ job.made < MaxAttempts
  /\ job' = [status |-> "ASSIGNED", wanted |-> TRUE, attempt |-> job.made + 1,
             made |-> job.made + 1, node |-> a]
  /\ UNCHANGED <<accepted, agents, spent>>

RerunJob ==
  /\ job.status \in Terminal
  /\ job.made < MaxAttempts
  /\ job' = [job EXCEPT !.status = "QUEUED", !.wanted = TRUE,
                        !.attempt = NoAttempt, !.node = NoNode]
  /\ UNCHANGED <<accepted, agents, spent>>

RequestStop ==
  /\ job.status \in {"QUEUED"} \cup (Active \ {"STOPPING"})
  /\ spent.stops < MaxStops
  /\ spent' = [spent EXCEPT !.stops = @ + 1]
  /\ job' = [job EXCEPT !.status = IF @ = "QUEUED" THEN "CANCELLED"
                                   ELSE "STOPPING",
                        !.wanted = FALSE]
  /\ UNCHANGED <<accepted, agents>>

(* The node's heartbeats are late, whether or not its agent still works.   *)
MarkLost ==
  /\ job.status \in Active \ {"LOST"}
  /\ spent.sweeps < MaxSweeps
  /\ spent' = [spent EXCEPT !.sweeps = @ + 1]
  /\ job' = [job EXCEPT !.status = "LOST"]
  /\ UNCHANGED <<accepted, agents>>

(* agentEvent takes a status of attempt n from node a, or answers 409.     *)
Takes(a, n, status) ==
  /\ job.node = a /\ job.attempt = n
  /\ CanTransition(job.status, status)

Take(status) == job' = [job EXCEPT !.status = status]

(* AssignmentForNode and StopRequestsForNode: the answer to a poll.        *)
Offer(a) ==
  [full |-> TRUE,
   stop |-> IF job.node = a /\ ~job.wanted /\ job.status \in {"STOPPING", "LOST"}
            THEN "stop" ELSE "no",
   attempt |-> IF /\ job.node = a /\ job.attempt # NoAttempt
                  /\ ~accepted[job.attempt]
                  /\ job.status \in {"ASSIGNED", "PULLING_IMAGE", "STARTING"}
               THEN job.attempt ELSE NoAttempt]

-----------------------------------------------------------------------------
(* The agent's poll loop; a reply may be old when it is handled, and one   *)
(* that has arrived is handled although the process is to terminate.       *)

Poll(a) ==
  /\ process[a] = "up"
  /\ ~reply[a].full
  /\ Offer(a) # [NoReply EXCEPT !.full = TRUE]
  /\ reply' = [reply EXCEPT ![a] = Offer(a)]
  /\ UNCHANGED <<server, process, run, journal, container, starts, spent>>

Saved(r) == [attempt |-> r.attempt, box |-> r.box, stop |-> r.stop,
             completed |-> FALSE]

(* stop() of a job in a.running.  Before there is a container it cancels   *)
(* the goroutine's context, see Disturbed.                                 *)
StopRunning(a) ==
  LET r == [run[a] EXCEPT !.stop = TRUE] IN
  /\ reply[a].stop = "stop" /\ Alive(a)
  /\ r.at # "none" /\ ~journal[a].completed
  /\ run' = [run EXCEPT ![a] = r]
  /\ journal' = [journal EXCEPT ![a] = Saved(r)]
  /\ reply' = [reply EXCEPT ![a].stop = IF r.box THEN "docker" ELSE "no"]
  /\ UNCHANGED <<server, process, container, starts, spent>>

(* stop() of a job the agent knows from its journal only, with a container *)
StopJournaled(a) ==
  LET r == journal[a] IN
  /\ reply[a].stop = "stop" /\ Alive(a)
  /\ run[a].at = "none"
  /\ r.attempt # NoAttempt /\ ~r.completed
  /\ r.box
  /\ journal' = [journal EXCEPT ![a].stop = TRUE]
  /\ reply' = [reply EXCEPT ![a].stop = "docker"]
  /\ UNCHANGED <<server, process, run, container, starts, spent>>

(* ... and without one: completePreStartCancellation in the poll loop.  As *)
(* with SendEvent, the event is acknowledged, applied without an answer,   *)
(* rejected, or never arrives.                                             *)
CancelJournaled(a) ==
  LET r == journal[a] IN
  /\ reply[a].stop = "stop" /\ Alive(a)
  /\ run[a].at = "none"
  /\ r.attempt # NoAttempt /\ ~r.completed
  /\ ~r.box
  /\ \/ /\ Takes(a, r.attempt, "CANCELLED")
        /\ Take("CANCELLED")
        /\ journal' = [journal EXCEPT ![a].stop = TRUE, ![a].completed = TRUE]
        /\ Works
     \/ /\ Takes(a, r.attempt, "CANCELLED")
        /\ Take("CANCELLED")
        /\ journal' = [journal EXCEPT ![a].stop = TRUE]
        /\ Fails
     \/ /\ Fails \/ (~Takes(a, r.attempt, "CANCELLED") /\ Works)
        /\ journal' = [journal EXCEPT ![a].stop = TRUE]
        /\ UNCHANGED job
  /\ reply' = [reply EXCEPT ![a].stop = "no"]
  /\ UNCHANGED <<accepted, process, run, container, starts>>

(* stop() of a job that is unknown, or whose result is recorded.           *)
StopIgnored(a) ==
  /\ reply[a].stop = "stop" /\ Alive(a)
  /\ \/ journal[a].completed
     \/ run[a].at = "none" /\ journal[a].attempt = NoAttempt
  /\ reply' = [reply EXCEPT ![a].stop = "no"]
  /\ UNCHANGED <<server, process, run, journal, container, starts, spent>>

(* docker stop returns when the container has stopped, or fails, as it     *)
(* does when the signal to terminate has cancelled its context.            *)
DockerStop(a) ==
  /\ reply[a].stop = "docker" /\ Alive(a)
  /\ \/ /\ Works
        /\ IF container[a].state = "running"
           THEN \E s \in {"succeeded", "failed"} :
                  container' = [container EXCEPT ![a].state = s]
           ELSE UNCHANGED container
     \/ /\ Fails \/ (process[a] = "terminating" /\ Works)
        /\ UNCHANGED container
  /\ reply' = [reply EXCEPT ![a].stop = "no"]
  /\ UNCHANGED <<server, process, run, journal, starts>>

(* startAssignment, after the stops of the same reply.                     *)
StartAssignment(a) ==
  LET n == reply[a].attempt
      r == [NoRun EXCEPT !.at = "inputs", !.attempt = n]
  IN  /\ reply[a].full /\ reply[a].stop = "no" /\ Alive(a)
      /\ IF n # NoAttempt /\ run[a].at = "none"
         THEN /\ run' = [run EXCEPT ![a] = r]
              /\ journal' = [journal EXCEPT ![a] = Saved(r)]
         ELSE UNCHANGED <<run, journal>>
      /\ reply' = [reply EXCEPT ![a] = NoReply]
      /\ UNCHANGED <<server, process, container, starts, spent>>

-----------------------------------------------------------------------------
(* execute: one goroutine from the inputs to the result *)

At(a, step) == Alive(a) /\ run[a].at = step

Goto(a, step) == run' = [run EXCEPT ![a].at = step]

IfStopped(a, yes, no) == IF run[a].stop THEN yes ELSE no

(* The call fails, or its context was cancelled: by the signal to          *)
(* terminate, or by stop() while there was no container.                   *)
Disturbed(a) ==
  \/ Fails
  \/ Works /\ (process[a] = "terminating" \/ (run[a].stop /\ ~run[a].box))

(* sendEvent: it repeats an event that fails, and the repeats keep trying  *)
(* while the process terminates.  The event is acknowledged; or it is      *)
(* applied but every reply is lost; or it is rejected; or never arrives.   *)
SendEvent(a, status, sent, unsent) ==
  LET taken == Takes(a, run[a].attempt, status) IN
  /\ \/ /\ taken /\ Take(status) /\ Works
        /\ Goto(a, sent)
        /\ journal' = [journal EXCEPT ![a] = Saved(run[a])]
     \/ /\ taken /\ Take(status) /\ Fails
        /\ Goto(a, unsent) /\ UNCHANGED journal
     \/ /\ Fails \/ (~taken /\ Works)
        /\ Goto(a, unsent) /\ UNCHANGED <<job, journal>>
  /\ UNCHANGED <<accepted, reply, process, container, starts>>

MaterializeInputs(a) ==
  /\ At(a, "inputs")
  /\ \/ Works /\ Goto(a, "pulling")
     \/ Disturbed(a) /\ Goto(a, IfStopped(a, "cancelled", "failed"))
  /\ UNCHANGED <<server, reply, process, journal, container, starts>>

ReportPulling(a) ==
  /\ At(a, "pulling")
  /\ SendEvent(a, "PULLING_IMAGE", "pull", IfStopped(a, "cancelled", "returned"))

Pull(a) ==
  /\ At(a, "pull")
  /\ \/ Works /\ Goto(a, IfStopped(a, "cancelled", "starting"))
     \/ Disturbed(a) /\ Goto(a, IfStopped(a, "cancelled", "failed"))
  /\ UNCHANGED <<server, reply, process, journal, container, starts>>

ReportStarting(a) ==
  /\ At(a, "starting")
  /\ SendEvent(a, "STARTING", IfStopped(a, "cancelled", "create"),
                              IfStopped(a, "cancelled", "returned"))

(* The name of the container is derived from the job, not from the attempt.*)
Create(a) ==
  LET box == [attempt |-> run[a].attempt, state |-> "created"] IN
  /\ At(a, "create")
  /\ \/ /\ container[a].state = "none" /\ Works
        /\ container' = [container EXCEPT ![a] = box]
        /\ Goto(a, "save")
     \/ /\ container[a].state = "none" /\ Disturbed(a)
        /\ container' \in {container, [container EXCEPT ![a] = box]}
        /\ Goto(a, IfStopped(a, "cancelled", "failed"))
     \/ /\ container[a].state # "none" /\ Works
        /\ UNCHANGED container
        /\ Goto(a, IfStopped(a, "cancelled", "failed"))
  /\ UNCHANGED <<server, reply, process, journal, starts>>

Save(a) ==
  LET r == [run[a] EXCEPT !.box = TRUE,
                          !.at = IfStopped(a, "discard", "accept")] IN
  /\ At(a, "save")
  /\ run' = [run EXCEPT ![a] = r]
  /\ journal' = [journal EXCEPT ![a] = Saved(r)]
  /\ UNCHANGED <<server, reply, process, container, starts, spent>>

Discard(a) ==
  /\ At(a, "discard")
  /\ \/ Works /\ container' = [container EXCEPT ![a] = NoContainer]
     \/ Fails /\ UNCHANGED container
  /\ Goto(a, "cancelled")
  /\ UNCHANGED <<server, reply, process, journal, starts>>

Accept(a) ==
  LET taken == [accepted EXCEPT ![run[a].attempt] = TRUE] IN
  /\ At(a, "accept")
  /\ \/ Works /\ accepted' = taken /\ Goto(a, "start")
     \/ Disturbed(a) /\ accepted' \in {accepted, taken} /\ Goto(a, "failed")
  /\ UNCHANGED <<job, reply, process, journal, container, starts>>

(* docker start does nothing to a container that runs.                     *)
Start(a) ==
  LET started == [container EXCEPT ![a].state = "running"] IN
  /\ At(a, "start")
  /\ \/ Works /\ container' = started /\ Goto(a, "running")
     \/ Disturbed(a) /\ container' \in {container, started} /\ Goto(a, "failed")
  /\ starts' = IF container' # container
               THEN [starts EXCEPT ![run[a].attempt] = @ + 1] ELSE starts
  /\ UNCHANGED <<server, reply, process, journal>>

(* Mutant: an event that is not acknowledged fails the job. *)
ReportRunning_Fails(a) ==
  /\ At(a, "running")
  /\ SendEvent(a, "RUNNING", "wait", "failed")

ReportRunning(a) ==
  /\ At(a, "running")
  /\ SendEvent(a, "RUNNING", "wait", "returned")

(* Mutant: the status of the job is reported back. *)
Outcome_Stopping(a) == IF run[a].stop THEN "STOPPING"
                       ELSE IF container[a].state = "failed" THEN "FAILED"
                       ELSE "SUCCEEDED"

(* The status to report, once the container has ended. *)
Outcome(a) == IF run[a].stop THEN "CANCELLED"
              ELSE IF container[a].state = "failed" THEN "FAILED"
              ELSE "SUCCEEDED"

(* Mutant: a stopped job is reported without waiting for its container. *)
Wait_NotIfStopped(a) ==
  /\ At(a, "wait")
  /\ \/ /\ container[a].state \in {"created", "succeeded", "failed"} \/ run[a].stop
        /\ Works
        /\ run' = [run EXCEPT ![a] = [@ EXCEPT !.at = "result",
                                               !.result = Outcome(a)]]
     \/ /\ Disturbed(a) \/ (container[a].state = "none" /\ Works)
        /\ Goto(a, "failed")
  /\ UNCHANGED <<server, reply, process, journal, container, starts>>

(* docker wait, condition not-running: a container that was never started  *)
(* satisfies it, with exit code 0.  Then the outputs are uploaded; that    *)
(* they cannot be is only a warning.                                       *)
Wait(a) ==
  /\ At(a, "wait")
  /\ \/ /\ container[a].state \in {"created", "succeeded", "failed"} /\ Works
        /\ run' = [run EXCEPT ![a] = [@ EXCEPT !.at = "result",
                                               !.result = Outcome(a)]]
     \/ /\ Disturbed(a) \/ (container[a].state = "none" /\ Works)
        /\ Goto(a, "failed")
  /\ UNCHANGED <<server, reply, process, journal, container, starts>>

(* Whether or not the server takes the result, execute goes on.            *)
ReportResult(a) ==
  /\ At(a, "result")
  /\ SendEvent(a, run[a].result, "complete", "complete")

Complete(a) ==
  /\ At(a, "complete")
  /\ journal' = [journal EXCEPT ![a] = [Saved(run[a]) EXCEPT !.completed = TRUE]]
  /\ Goto(a, "remove")
  /\ UNCHANGED <<server, reply, process, container, starts, spent>>

Remove(a) ==
  /\ At(a, "remove")
  /\ \/ /\ run[a].box /\ Works
        /\ container' = [container EXCEPT ![a] = NoContainer]
     \/ run[a].box /\ Fails /\ UNCHANGED container
     \/ ~run[a].box /\ Works /\ UNCHANGED container
  /\ run' = [run EXCEPT ![a] = NoRun]
  /\ UNCHANGED <<server, reply, process, journal, starts>>

(* fail: the record is complete only if the server took the failure.       *)
ReportFailed(a) ==
  /\ At(a, "failed")
  /\ SendEvent(a, "FAILED", "complete", "remove")

(* completePreStartCancellation of a goroutine *)
ReportCancelled(a) ==
  /\ At(a, "cancelled")
  /\ SendEvent(a, "CANCELLED", "close", "returned")

Close(a) ==
  /\ At(a, "close")
  /\ journal' = [journal EXCEPT ![a] = [Saved(run[a]) EXCEPT !.completed = TRUE]]
  /\ run' = [run EXCEPT ![a] = NoRun]
  /\ UNCHANGED <<server, reply, process, container, starts, spent>>

-----------------------------------------------------------------------------
(* The container's program, and the agent's process *)

Ends(a) ==
  /\ container[a].state = "running"
  /\ \E s \in {"succeeded", "failed"} :
       container' = [container EXCEPT ![a].state = s]
  /\ UNCHANGED <<server, reply, process, run, journal, starts, spent>>

Exit(a) ==
  /\ process' = [process EXCEPT ![a] = "down"]
  /\ run' = [run EXCEPT ![a] = NoRun]
  /\ reply' = [reply EXCEPT ![a] = NoReply]
  /\ UNCHANGED <<server, journal, container, starts>>

Crash(a) ==
  /\ Alive(a)
  /\ spent.crashes + spent.signals < MaxExits
  /\ spent' = [spent EXCEPT !.crashes = @ + 1]
  /\ Exit(a)

(* The signal cancels the context of every goroutine; the process exits    *)
(* when the poll loop has noticed.                                         *)
Terminate(a) ==
  /\ process[a] = "up"
  /\ spent.crashes + spent.signals < MaxExits
  /\ spent' = [spent EXCEPT !.signals = @ + 1]
  /\ process' = [process EXCEPT ![a] = "terminating"]
  /\ UNCHANGED <<server, reply, run, journal, container, starts>>

Terminated(a) == process[a] = "terminating" /\ Works /\ Exit(a)

(* Mutant: reconcile starts the container it found. *)
Restart_StartsAgain(a) ==
  LET found == [at |-> "start", attempt |-> journal[a].attempt, box |-> TRUE,
                stop |-> journal[a].stop, result |-> "NONE"]
      taken == /\ journal[a].attempt # NoAttempt /\ ~journal[a].completed
               /\ container[a].state # "none"
  IN  /\ process[a] = "down"
      /\ process' = [process EXCEPT ![a] = "up"]
      /\ \/ taken /\ Works /\ run' = [run EXCEPT ![a] = found]
         \/ ~taken /\ Works /\ UNCHANGED run
         \/ Fails /\ UNCHANGED run
      /\ UNCHANGED <<server, reply, journal, container, starts>>

(* Mutant: only the running containers are listed. *)
Restart_RunningOnly(a) ==
  LET found == [at |-> "running", attempt |-> journal[a].attempt, box |-> TRUE,
                stop |-> journal[a].stop, result |-> "NONE"]
      taken == /\ journal[a].attempt # NoAttempt /\ ~journal[a].completed
               /\ container[a].state = "running"
  IN  /\ process[a] = "down"
      /\ process' = [process EXCEPT ![a] = "up"]
      /\ \/ taken /\ Works /\ run' = [run EXCEPT ![a] = found]
         \/ ~taken /\ Works /\ UNCHANGED run
         \/ Fails /\ UNCHANGED run
      /\ UNCHANGED <<server, reply, journal, container, starts>>

(* Run: reconcile takes up every journal that is not complete and has a    *)
(* container with the job's label, of whatever attempt.  A failure to list *)
(* the containers is ignored.                                              *)
Restart(a) ==
  LET found == [at |-> "running", attempt |-> journal[a].attempt, box |-> TRUE,
                stop |-> journal[a].stop, result |-> "NONE"]
      taken == /\ journal[a].attempt # NoAttempt /\ ~journal[a].completed
               /\ container[a].state # "none"
  IN  /\ process[a] = "down"
      /\ process' = [process EXCEPT ![a] = "up"]
      /\ \/ taken /\ Works /\ run' = [run EXCEPT ![a] = found]
         \/ ~taken /\ Works /\ UNCHANGED run
         \/ Fails /\ UNCHANGED run
      /\ UNCHANGED <<server, reply, journal, container, starts>>

-----------------------------------------------------------------------------
ServerStep == RerunJob \/ RequestStop \/ MarkLost \/ \E a \in Nodes : Reserve(a)

PollStep(a) ==
  \/ Poll(a) \/ StopRunning(a) \/ StopJournaled(a) \/ CancelJournaled(a)
  \/ StopIgnored(a) \/ DockerStop(a) \/ StartAssignment(a)

ExecuteStep(a) ==
  \/ MaterializeInputs(a) \/ ReportPulling(a) \/ Pull(a) \/ ReportStarting(a)
  \/ Create(a) \/ Save(a) \/ Discard(a) \/ Accept(a) \/ Start(a)
  \/ ReportRunning(a) \/ Wait(a) \/ ReportResult(a) \/ Complete(a) \/ Remove(a)
  \/ ReportFailed(a) \/ ReportCancelled(a) \/ Close(a)

ProcessStep(a) ==
  Ends(a) \/ Crash(a) \/ Terminate(a) \/ Terminated(a) \/ Restart(a)

Next == \/ ServerStep
        \/ \E a \in Nodes : PollStep(a) \/ ExecuteStep(a) \/ ProcessStep(a)

Spec == Init /\ [][Next]_vars

(* The scheduler passes over the queue every second, an agent's process    *)
(* polls, executes and is restarted by its service manager, the program in *)
(* a container ends.  No fairness for users, the node monitor or failures. *)
Fairness ==
  /\ WF_vars(\E a \in Nodes : Reserve(a))
  /\ \A a \in Nodes :
       /\ WF_vars(PollStep(a)) /\ WF_vars(ExecuteStep(a))
       /\ WF_vars(Ends(a)) /\ WF_vars(Restart(a)) /\ WF_vars(Terminated(a))

FairSpec == Spec /\ Fairness

-----------------------------------------------------------------------------
(* Properties *)

(* The program of an attempt is started at most once: an assignment is     *)
(* offered again until it is accepted, and a restarted agent takes its     *)
(* journal up, but neither starts a container twice.                       *)
StartedOnce == \A n \in AttemptNumber : starts[n] <= 1

(* No call has failed so far, and no agent was told to terminate.          *)
Undisturbed == spent.failures = 0 /\ spent.signals = 0

(* A job that has its result has no container running on any node, so that *)
(* a rerun is not executed beside the attempt before it: the result is     *)
(* reported after docker wait, also for a stop, and no attempt is left     *)
(* behind by a crash, a stale mark or a rerun on another node.  It takes a *)
(* failing call to break it, see ResultMeansEnded.                         *)
ResultMeansEndedIfUndisturbed ==
  Undisturbed /\ job.status \in Terminal \cup {"QUEUED"} =>
    \A a \in Nodes : container[a].state # "running"

(* A container that runs for the job's current attempt is one that a       *)
(* restarted agent will find, as long as the server waits for its result:  *)
(* the journal names its attempt and is not complete.  Whatever calls have *)
(* failed, and whenever agents died or were told to terminate: the record  *)
(* is saved before execute begins, is completed without an acknowledgement *)
(* only after docker wait, and is not given to another attempt before the  *)
(* server has left this one.                                               *)
RunningIsJournaled ==
  \A a \in Nodes :
    /\ container[a].state = "running"
    /\ container[a].attempt = job.attempt
    /\ job.status \notin Terminal
    => /\ journal[a].attempt = container[a].attempt
       /\ ~journal[a].completed

(* Why they hold: the inductive invariant behind the safety properties.    *)

(* The job's current attempt is the last one that was made. *)
CurrentIsLast == job.attempt \in {NoAttempt, job.made}

(* The attempts that node a knows of, from a reply, an entry or a journal. *)
Known(a) == {reply[a].attempt, run[a].attempt, journal[a].attempt} \ {NoAttempt}

(* An attempt is known to the one node it was assigned to. *)
OneOwner ==
  \A a \in Nodes : \A n \in Known(a) :
    /\ n <= job.made
    /\ n = job.attempt => job.node = a
    /\ \A b \in Nodes \ {a} : n \notin Known(b)

(* A goroutine's attempt is the journal's; its result is recorded last.    *)
EntryIsJournaled ==
  \A a \in Nodes : run[a].at # "none" =>
    /\ run[a].attempt # NoAttempt
    /\ journal[a].attempt = run[a].attempt
    /\ run[a].at # "remove" => ~journal[a].completed

(* Between STARTING and the start of its container an execution is the     *)
(* current one: nobody else ends the attempt.                              *)
PreparingIsCurrent ==
  \A a \in Nodes :
    run[a].at \in {"create", "save", "discard", "accept", "start"} =>
      /\ job.attempt = run[a].attempt /\ job.node = a
      /\ job.status \in Active \ {"ASSIGNED", "PULLING_IMAGE"}

(* PULLING_IMAGE is accepted only before the attempt's STARTING, so that   *)
(* an attempt that was started is not prepared again.                      *)
StartedIsPast ==
  /\ \A n \in AttemptNumber : starts[n] > 0 =>
       /\ n <= job.made
       /\ job.attempt = n => job.status \notin {"ASSIGNED", "PULLING_IMAGE"}
  /\ \A a \in Nodes :
       run[a].at \in {"pull", "starting", "create", "save", "accept", "start"} =>
         starts[run[a].attempt] = 0

(* The record on disk names the latest attempt that the agent has handled: *)
(* its container is of no later one, a reply on its way of no earlier one. *)
JournalIsLatest ==
  \A a \in Nodes :
    /\ container[a].attempt <= journal[a].attempt
    /\ container[a].state # "none" => container[a].attempt # NoAttempt
    /\ reply[a].attempt # NoAttempt => journal[a].attempt <= reply[a].attempt

(* What a goroutine has made of its container before it starts it. *)
CreatedIsOwn(a) ==
  run[a].at \in {"save", "discard", "accept", "start"} =>
    container[a] = [attempt |-> run[a].attempt, state |-> "created"]

(* The container has ended when its result is reported, and when a record  *)
(* is about to be completed the server has left the attempt otherwise.     *)
CompletedIsLeft(a) ==
  /\ run[a].at = "result" => container[a].state # "running"
  /\ run[a].at \in {"complete", "close"} /\ container[a].state = "running"
       => job.status \in Terminal \/ job.attempt # container[a].attempt

ContainersAreOwn == \A a \in Nodes : CreatedIsOwn(a) /\ CompletedIsLeft(a)

(* A running container is of the current attempt, and either its goroutine *)
(* waits for it or the agent is down.                                      *)
RunningIsAttended(a) ==
  container[a].state = "running" =>
    /\ job.attempt # NoAttempt
    /\ job.attempt = container[a].attempt /\ job.node = a
    /\ job.status \in Active \ {"ASSIGNED", "PULLING_IMAGE"}
    /\ \/ process[a] = "down" /\ run[a].at = "none"
       \/ run[a].at \in {"running", "wait", "returned"} /\ run[a].box

Attended(a) ==
  /\ process[a] # "terminating"
  /\ run[a].at \in {"accept", "start", "running", "wait"} => run[a].box
  /\ RunningIsAttended(a)

(* A failing call or a signal to terminate may break it. *)
ContainersAreAttended == Undisturbed => \A a \in Nodes : Attended(a)

IInv == /\ TypeOK /\ CurrentIsLast /\ OneOwner /\ EntryIsJournaled
        /\ PreparingIsCurrent /\ StartedIsPast /\ StartedOnce
        /\ JournalIsLatest /\ ContainersAreOwn /\ RunningIsJournaled
        /\ ContainersAreAttended

(* An execution that was reported to run ends with a result, even if its   *)
(* agent dies and restarts and its node is declared stale meanwhile.       *)
RunningEnds == job.status = "RUNNING" ~> job.status \in Terminal

(* What the documentation promises and the code does not keep: TLC refutes *)
(* each of these, see "Disagreements" in the README.                       *)

(* LOST is left when the agent is there to report the real state.          *)
LostIsResolved == job.status = "LOST" ~> job.status # "LOST"

(* A job that is asked to stop while it has a container ends.             *)
StopEnds ==
  job.status = "STOPPING" /\ (\E a \in Nodes : run[a].box)
    ~> job.status \in Terminal

(* An assignment that is not accepted is delivered again and executed.     *)
AssignmentExecuted == job.status = "STARTING" ~> job.status # "STARTING"

(* A job that has its result has no container running, failures included.  *)
ResultMeansEnded ==
  job.status \in Terminal => \A a \in Nodes : container[a].state # "running"

(* A success was executed.                                                 *)
SuccessWasExecuted == job.status = "SUCCEEDED" => starts[job.attempt] = 1

=============================================================================
