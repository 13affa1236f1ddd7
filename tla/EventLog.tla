------------------------------ MODULE EventLog ------------------------------
(***************************************************************************)
(* The event log of one execution of a job (internal/store/store.go        *)
(* AppendEvent, AppendServerEvent, Events, JobUpdatesForOwner; agentEvent  *)
(* in internal/httpapi/api.go; sendEvent in internal/agent/agent.go), and  *)
(* the live stream of a viewer that follows it (jobsStream).               *)
(*                                                                         *)
(* The agent numbers its events on from the number it was given with the   *)
(* assignment; the server numbers its own from the highest of the job.     *)
(* Both share one unique index, which is how a repeated event is taken for *)
(* the one it repeats.                                                     *)
(***************************************************************************)
EXTENDS JobTypes, Integers, Sequences, FiniteSetsExt

CONSTANTS
  MaxServerEvents, \* bound: events of the server and of the SDK after the assignment
  MaxFaults        \* bound: lost requests and answers, deaths of the agent

VARIABLES
  log,      \* rows of job_events of the job, in the order of their ids
  status,   \* jobs.status
  agent,    \* sequence, the event it sends and how far a try has come
  journal,  \* the sequence and the step in the assignment's journal
  viewer,   \* the cursor of a jobsStream and the status it has shown
  extra, faults,
  acked,    \* history: how many steps of the execution the server has acknowledged
  died      \* history: the agent has died
vars == <<log, status, agent, journal, viewer, extra, faults, acked, died>>

(* What an execution reports: a status, or none in a warning. *)
NoStatus == "-"
Result == {"SUCCEEDED", "FAILED"}
Steps(result) == <<"PULLING_IMAGE", "STARTING", "RUNNING", NoStatus, result>>
Row == [from : {"agent", "server"}, sequence : Nat, step : 0 .. 5, status : JobStatus \cup {NoStatus}]

TypeOK ==
  /\ log \in Seq(Row) /\ status \in JobStatus
  /\ agent \in [at : {"ready", "append", "update", "reply", "off"}, sequence : Nat,
                step : 0 .. 5, result : Result]
  /\ journal \in [sequence : Nat, step : 0 .. 5]
  /\ viewer \in [after : Nat, status : JobStatus]
  /\ extra \in 0 .. MaxServerEvents /\ faults \in 0 .. MaxFaults /\ acked \in 0 .. 5 /\ died \in BOOLEAN

(* Before: the job was created, with its "queued" event, and assigned. *)
Given_Zero == 0
Given == Len(log)
Init ==
  /\ log = <<[from |-> "server", sequence |-> 1, step |-> 0, status |-> "QUEUED"]>>
  /\ status = "ASSIGNED"
  /\ \E r \in Result :
       agent = [at |-> "ready", sequence |-> Given, step |-> 0, result |-> r]
  /\ journal = [sequence |-> Given, step |-> 0]
  /\ viewer = [after |-> 0, status |-> "QUEUED"]
  /\ extra = 0 /\ faults = 0 /\ acked = 0 /\ died = FALSE

(* sendEvent: the next number, the same on every try; events of one        *)
(* execution go one after the other.                                       *)
Number_FreshEachTry == agent.sequence + 1 + faults
Number == agent.sequence + 1
Send ==
  /\ agent.at = "ready" /\ agent.step < 5
  /\ agent' = [agent EXCEPT !.at = "append"]
  /\ UNCHANGED <<log, status, journal, viewer, extra, faults, acked, died>>

(* agentEvent: AppendEvent, then UpdateJobStatus when it carries one.      *)
Sequences == {log[i].sequence : i \in DOMAIN log}
AppendEvent(row) == log' = IF row.sequence \in Sequences THEN log ELSE Append(log, row)

Event == Steps(agent.result)[agent.step + 1]
AgentAppend ==
  /\ agent.at = "append"
  /\ AppendEvent([from |-> "agent", sequence |-> Number, step |-> agent.step + 1, status |-> Event])
  /\ agent' = [agent EXCEPT !.at = IF Event = NoStatus THEN "reply" ELSE "update"]
  /\ UNCHANGED <<status, journal, viewer, extra, faults, acked, died>>
AgentUpdate ==
  /\ agent.at = "update"
  /\ IF CanTransition(status, Event)
     THEN status' = Event /\ agent' = [agent EXCEPT !.at = "reply"]
     ELSE UNCHANGED status /\ agent' = [agent EXCEPT !.at = "ready"]  \* refused, tried again
  /\ UNCHANGED <<log, journal, viewer, extra, faults, acked, died>>

(* The answer: the number is used up and saved. *)
Acked ==
  /\ agent.at = "reply"
  /\ agent' = [agent EXCEPT !.at = "ready", !.sequence = Number, !.step = @ + 1]
  /\ journal' = [sequence |-> Number, step |-> agent.step + 1]
  /\ acked' = IF agent.step + 1 > acked THEN agent.step + 1 ELSE acked
  /\ UNCHANGED <<log, status, viewer, extra, faults, died>>

(* A try fails before, between or after the server's two statements.       *)
TryLost ==
  /\ agent.at \in {"append", "update", "reply"} /\ faults < MaxFaults
  /\ agent' = [agent EXCEPT !.at = "ready"] /\ faults' = faults + 1
  /\ UNCHANGED <<log, status, journal, viewer, extra, acked, died>>

(* The agent dies; what it had not saved is sent again.                    *)
Crash ==
  /\ agent.at # "off" /\ agent.step < 5 /\ faults < MaxFaults
  /\ agent' = [agent EXCEPT !.at = "off"] /\ faults' = faults + 1 /\ died' = TRUE
  /\ UNCHANGED <<log, status, journal, viewer, extra, acked>>

(* reconcile: the container is there, and a restart takes the execution up *)
(* at RUNNING, under the number in the journal.                            *)
Restart ==
  /\ agent.at = "off" /\ journal.step >= 2
  /\ agent' = [agent EXCEPT !.at = "ready", !.sequence = journal.sequence, !.step = 2]
  /\ UNCHANGED <<log, status, journal, viewer, extra, faults, acked, died>>

(* Without one the journal is passed over, and the server delivers the     *)
(* assignment once more, with the number that is the highest by then       *)
(* (AssignmentForNode).                                                    *)
Redelivered ==
  /\ agent.at = "off" /\ journal.step <= 2
  /\ status \in {"ASSIGNED", "PULLING_IMAGE", "STARTING"}
  /\ agent' = [agent EXCEPT !.at = "ready", !.sequence = Given, !.step = 0]
  /\ journal' = [sequence |-> Given, step |-> 0]
  /\ UNCHANGED <<log, status, viewer, extra, faults, acked, died>>

(* AppendServerEvent: parameters, events and checkpoints of the SDK, a     *)
(* request to stop, a full log.                                            *)
HighestSequence == IF log = <<>> THEN 0 ELSE Max(Sequences)
AppendServerEvent_ByCount ==
  log' = Append(log, [from |-> "server", sequence |-> Len(SelectSeq(log, LAMBDA r : r.from = "server")) + 1,
                      step |-> 0, status |-> status])
AppendServerEvent ==
  log' = Append(log, [from |-> "server", sequence |-> HighestSequence + 1,
                      step |-> 0, status |-> status])
ServerEvent ==
  /\ extra < MaxServerEvents /\ extra' = extra + 1
  /\ IsActive(status) /\ AppendServerEvent
  /\ UNCHANGED <<status, agent, journal, viewer, faults, acked, died>>

(* jobsStream: everything behind the cursor that carries a status, of      *)
(* which the last is shown.                                                *)
View ==
  /\ viewer.after < Len(log)
  /\ LET shown == {i \in viewer.after + 1 .. Len(log) : log[i].status # NoStatus}
     IN \/ shown = {} /\ viewer' = [viewer EXCEPT !.after = Len(log)]
        \/ \E i \in shown : /\ \A k \in shown : k <= i
                            /\ viewer' = [after |-> Len(log), status |-> log[i].status]
  /\ UNCHANGED <<log, status, agent, journal, extra, faults, acked, died>>

Next ==
  \/ Send \/ AgentAppend \/ AgentUpdate \/ Acked \/ TryLost \/ Crash
  \/ Restart \/ Redelivered \/ ServerEvent \/ View
Spec == Init /\ [][Next]_vars

-----------------------------------------------------------------------------
(* Properties. *)

(* The two numberings make one without a gap or a repetition. *)
OneNumbering == \A i \in DOMAIN log : log[i].sequence = i

(* However often an event is tried, it is in the log at most once, and in   *)
(* the order of the execution.  An agent that died may repeat itself.      *)
NoEventTwice ==
  ~died => \A i, k \in DOMAIN log :
    i < k /\ log[i].from = "agent" /\ log[k].from = "agent" => log[i].step < log[k].step

(* When nobody else writes to the log, everything acknowledged is in it.   *)
AcknowledgedIsLogged ==
  extra = 0 => \A s \in 1 .. acked : \E i \in DOMAIN log : log[i].step = s

(* A viewer that is up to date shows the status of the job: a live view    *)
(* ends with the result the job has.                                       *)
LiveViewEndsWithResult ==
  (agent.step = 5 /\ agent.at = "ready" /\ viewer.after = Len(log)) => viewer.status = status

(* Why the first three hold: the inductive invariant.                      *)

(* The number in the journal is the one the agent goes on from, and no     *)
(* number is used that would leave a gap.                                  *)
NumbersAreUsedUp ==
  /\ agent.sequence = journal.sequence /\ agent.sequence <= Len(log)
  /\ agent.at \in {"update", "reply"} => agent.sequence < Len(log)

(* What is sent is not yet acknowledged, or was before the agent died; and *)
(* what is in the journal was.                                             *)
StepsAreAcknowledged ==
  /\ agent.step <= acked /\ journal.step <= acked
  /\ journal.step >= 2 => agent.step >= 2
  /\ agent.at \in {"append", "update", "reply"} => agent.step < 5
  /\ agent.at = "off" => agent.step < 5 /\ died

(* Until it dies, the agent has at most the event it sends in the log.     *)
OnlyOneIsAhead ==
  ~died => \A i \in DOMAIN log : log[i].from = "agent" =>
    log[i].step <= agent.step \/ (i = agent.sequence + 1 /\ log[i].step = agent.step + 1)

(* Alone in the log, a number that is taken is taken by the event it is    *)
(* for, or by a later one of an agent that has died.                       *)
AloneItIsItself ==
  extra = 0 =>
    /\ Len(log) <= agent.sequence + 1
    /\ Len(log) = agent.sequence + 1 =>
         agent.step + 1 <= acked \/ log[Len(log)].step = agent.step + 1

IInv ==
  /\ TypeOK /\ OneNumbering /\ NoEventTwice /\ AcknowledgedIsLogged
  /\ NumbersAreUsedUp /\ StepsAreAcknowledged /\ OnlyOneIsAhead /\ AloneItIsItself

=============================================================================
