----------------------------- MODULE Scheduler -----------------------------
(***************************************************************************)
(* Placement of queued jobs on nodes: the scheduler's pass                 *)
(* (internal/scheduler), the capacity snapshot it works from               *)
(* (internal/capacity), the node registry it reads (heartbeats, drain,     *)
(* deletion, the staleness monitor) and the parts of a job's life that     *)
(* take and release capacity.                                              *)
(*                                                                         *)
(* A pass is a sequence of reads and writes, not one transaction: the      *)
(* queue, the nodes, the jobs, the GPU allocations, and one reservation    *)
(* per job that fits (the reason a job is told to wait for is left out).   *)
(* Between any two of them heartbeats, operators, users and agents change  *)
(* what was read.                                                          *)
(*                                                                         *)
(* Jobs, nodes and GPUs are numbers because the code orders them: jobs by  *)
(* creation, nodes by id, GPUs by uuid.                                    *)
(***************************************************************************)
EXTENDS JobTypes, Integers, FiniteSets, FiniteSetsExt, Functions

CONSTANTS
  Jobs, Nodes, GPUs, Labels,
  NoNode, NoPackage,
  Request,        \* what each job asks for
  Total,          \* the size a node registered with
  Sizes,          \* the sizes its heartbeats may report
  Inventory,      \* the GPUs installed in each node
  Vram,           \* the memory of each GPU
  MaxChanges      \* bound: heartbeats that change a node, operator actions,
                  \* stops, reruns, lost jobs and aborted passes

Dim == {"cpu", "memory"}

ASSUME IdsAssumption ==
  /\ Jobs \subseteq Nat /\ Nodes \subseteq Nat /\ GPUs \subseteq Nat
  /\ NoNode \notin Nodes
  /\ IsFiniteSet(Jobs) /\ IsFiniteSet(GPUs)
ASSUME BoundsAssumption == MaxChanges \in Nat
ASSUME VramAssumption == \A g \in GPUs : Vram[g] \in Nat
(* What domain.ValidateJobSpec leaves: explicit GPUs and packages name a   *)
(* node, and the number of explicit GPUs is the requested count.           *)
ASSUME SpecAssumption ==
  \A j \in Jobs :
    /\ {Request[j].cpu, Request[j].memory, Request[j].count, Request[j].vram}
         \subseteq Nat
    /\ Request[j].uuids \subseteq GPUs
    /\ Request[j].uuids # {} => /\ Request[j].target \in Nodes
                             /\ Request[j].count = Cardinality(Request[j].uuids)
    /\ Request[j].package # NoPackage => Request[j].target \in Nodes

(* A node has a package (one is modelled), and lists it with or without    *)
(* the capability to keep a job on it; a GPU, known by its uuid, is in one *)
(* node.                                                                   *)
ASSUME SizesAssumption ==
  \A n \in Nodes :
    /\ Total[n] \in Sizes[n]
    /\ \A size \in Sizes[n] :
         /\ {size.cpu, size.memory, size.packageCpu} \subseteq Nat
         /\ size.package # NoPackage
    /\ Inventory[n] \subseteq GPUs
    /\ \A m \in Nodes \ {n} : Inventory[m] \cap Inventory[n] = {}

VARIABLES
  node,        \* the rows of nodes, with the GPUs of the last heartbeat
  job,         \* the rows of jobs that matter to placement
  assignments, \* every assignment ever made: job, node, GPUs
  pass,        \* the scheduler's own state during a pass
  stops,       \* stop requests that have read the job and not yet written
  resurrected, \* history: jobs a stop request brought back from a result
  changes      \* disturbances so far

vars == <<node, job, assignments, pass, stops, resurrected, changes>>

NodeStatus == {"ONLINE", "DEGRADED", "OFFLINE", "DRAINING"}
Steps == {"idle", "nodes", "jobs", "gpus", "place"}

AnySize == UNION {Sizes[n] : n \in Nodes}

(* A listed node: its row, and what the pass counts as allocated on it.    *)
View == [status : NodeStatus, labels : SUBSET Labels, gpus : SUBSET GPUs,
         size : AnySize,
         cpu : Int, memory : Int, package : Int, taken : SUBSET GPUs]
Listed(n) ==
  [status |-> node[n].status, labels |-> node[n].labels, gpus |-> node[n].gpus,
   size |-> node[n].size, cpu |-> 0, memory |-> 0, package |-> 0, taken |-> {}]

NoView == [n \in {} |-> {}]
IdlePass == [at |-> "idle", queue |-> {}, view |-> NoView, waited |-> {}]

HoldsGpus(j) == IsActive(job[j].status)

TypeOK ==
  /\ node \in [Nodes -> [status : NodeStatus, deleted : BOOLEAN,
                         gpus : SUBSET GPUs, labels : SUBSET Labels,
                         size : AnySize]]
  /\ job \in [Jobs -> [status : JobStatus \cup {"none"}, node : Nodes \cup {NoNode},
                       attempt : 0 .. MaxChanges + 1]]
  /\ assignments \subseteq [job : Jobs, attempt : 1 .. MaxChanges + 1,
                            node : Nodes, gpus : SUBSET GPUs]
  /\ pass \in [at : Steps, queue : SUBSET Jobs, waited : SUBSET Jobs,
               view : {pass.view}]
  /\ DOMAIN pass.view \subseteq Nodes
  /\ pass.view \in [DOMAIN pass.view -> View]
  /\ stops \subseteq Jobs /\ resurrected \subseteq Jobs
  /\ changes \in 0 .. MaxChanges

Init ==
  /\ node = [n \in Nodes |-> [status |-> "ONLINE", deleted |-> FALSE,
                              gpus |-> Inventory[n], labels |-> Labels,
                              size |-> Total[n]]]
  /\ job = [j \in Jobs |-> [status |-> "none", node |-> NoNode, attempt |-> 0]]
  /\ assignments = {}
  /\ pass = IdlePass
  /\ stops = {} /\ resurrected = {}
  /\ changes = 0

-----------------------------------------------------------------------------
(* Capacity: what is reserved on a node. *)

(* The jobs whose reservation counts on a node. *)
Residents(n) == {j \in Jobs : HoldsGpus(j) /\ job[j].node = n}

Need(d) == [j \in Jobs |-> Request[j][d]]
Reserved(n, d) == SumFunctionOnSet(Need(d), Residents(n))
(* Reservations of a CPU package that the node lists.                      *)
UsersOfPackage(p) == {j \in Jobs : Request[j].package = p}
ReservedPackage(n, p) ==
  SumFunctionOnSet(Need("cpu"), Residents(n) \cap UsersOfPackage(p))

(* The GPUs named by the assignments of active jobs - of every attempt of  *)
(* such a job, also of those a rerun has left behind.                      *)
AllocatedGPUUUIDs_IgnoresLost(n) ==
  UNION {a.gpus : a \in {b \in assignments :
           b.node = n /\ HoldsGpus(b.job) /\ job[b.job].status # "LOST"}}
AllocatedGPUUUIDs_OfEveryJob(n) ==
  UNION {a.gpus : a \in {b \in assignments : b.node = n}}
AllocatedGPUUUIDs(n) ==
  UNION {a.gpus : a \in {b \in assignments : b.node = n /\ HoldsGpus(b.job)}}

-----------------------------------------------------------------------------
(* Selection of a node, over the snapshot v of the listed nodes. *)

(* Explicit GPUs, or the first ones by memory and then uuid that are free  *)
(* and large enough.                                                       *)
GpuBefore(g, h) == Vram[g] < Vram[h] \/ (Vram[g] = Vram[h] /\ g < h)
FreeGpus(v, n, s) == {g \in v[n].gpus \ v[n].taken : Vram[g] >= s.vram}
ChooseGpus(v, n, s) ==
  IF s.uuids # {} THEN s.uuids
  ELSE {g \in FreeGpus(v, n, s) :
          Cardinality({h \in FreeGpus(v, n, s) : GpuBefore(h, g)}) < s.count}

FreeOn(v, n, d) == v[n].size[d] - v[n][d]

(* The successive filters of selectNode on a node.                         *)
HasCapacity(v, n, s) ==
  FreeOn(v, n, "cpu") >= s.cpu /\ FreeOn(v, n, "memory") >= s.memory
HasPackage(v, n, s) ==
  s.package # NoPackage => v[n].size.affinity /\ v[n].size.package = s.package
HasPackageRoom(v, n, s) ==
  s.package # NoPackage => v[n].size.packageCpu - v[n].package >= s.cpu
HasGpus(v, n, s) ==
  IF s.uuids # {}
  THEN s.uuids \subseteq v[n].gpus /\ s.uuids \cap v[n].taken = {}
  ELSE Cardinality(FreeGpus(v, n, s)) >= s.count

Reachable(v, s) ==
  {n \in DOMAIN v : /\ s.target \in {NoNode, n} /\ v[n].status = "ONLINE"
                    /\ s.labels \subseteq v[n].labels}
Candidates(v, s) ==
  {n \in Reachable(v, s) : /\ HasCapacity(v, n, s) /\ HasPackage(v, n, s)
                           /\ HasPackageRoom(v, n, s) /\ HasGpus(v, n, s)}

(* Best fit: least GPU memory left over (explicit GPUs waste none), then   *)
(* least memory, then least CPU, then the smaller id.                      *)
Waste(v, n, s) ==
  << IF s.uuids # {} THEN 0
     ELSE MapThenSumSet(LAMBDA g : Vram[g] - s.vram, ChooseGpus(v, n, s)),
     FreeOn(v, n, "memory") - s.memory, FreeOn(v, n, "cpu") - s.cpu, n >>
Before(a, b) == \E i \in 1 .. 4 : a[i] < b[i] /\ \A k \in 1 .. i - 1 : a[k] = b[k]
(* The best candidate, if there is one. *)
selectNode(v, s) ==
  {n \in Candidates(v, s) :
     \A m \in Candidates(v, s) \ {n} : Before(Waste(v, n, s), Waste(v, m, s))}

(* The snapshot after a reservation made in this pass. *)
reserveInSnapshot_CpuForgotten(v, n, s, gpus) ==
  [v EXCEPT ![n].memory = @ + s.memory, ![n].taken = @ \cup gpus]
reserveInSnapshot(v, n, s, gpus) ==
  [v EXCEPT ![n].cpu = @ + s.cpu, ![n].memory = @ + s.memory,
            ![n].package = @ + (IF s.package = v[n].size.package THEN s.cpu ELSE 0),
            ![n].taken = @ \cup gpus]

-----------------------------------------------------------------------------
(* The pass. *)

(* The jobs waiting now, and the one of a queue that comes first.          *)
QueuedJobs == {j \in Jobs : job[j].status = "QUEUED"}
Oldest_Newest(queue) == {j \in queue : \A i \in queue : i <= j}
Oldest(queue) == {j \in queue : \A i \in queue : j <= i}

ReadQueue ==
  /\ pass.at = "idle" /\ QueuedJobs # {}
  /\ pass' = [IdlePass EXCEPT !.at = "nodes", !.queue = QueuedJobs]
  /\ UNCHANGED <<node, job, assignments, stops, resurrected, changes>>

(* ListNodes: the nodes that are not deleted, as their rows are now. *)
ListNodes ==
  /\ pass.at = "nodes"
  /\ pass' = [pass EXCEPT !.at = "jobs",
             !.view = [n \in {m \in Nodes : ~node[m].deleted} |-> Listed(n)]]
  /\ UNCHANGED <<node, job, assignments, stops, resurrected, changes>>

(* ListJobs, accounted by capacity.Account: CPU, package and memory. *)
ListJobs ==
  /\ pass.at = "jobs"
  /\ pass' = [pass EXCEPT !.at = "gpus",
       !.view = [n \in DOMAIN pass.view |->
                   [pass.view[n] EXCEPT !.cpu = Reserved(n, "cpu"),
                                        !.memory = Reserved(n, "memory"),
                                        !.package =
                       ReservedPackage(n, pass.view[n].size.package)]]]
  /\ UNCHANGED <<node, job, assignments, stops, resurrected, changes>>

ReadAllocations ==
  /\ pass.at = "gpus"
  /\ pass' = [pass EXCEPT !.at = "place",
       !.view = [n \in DOMAIN pass.view |->
                   [pass.view[n] EXCEPT !.taken = AllocatedGPUUUIDs(n)]]]
  /\ UNCHANGED <<node, job, assignments, stops, resurrected, changes>>

(* ReserveJobWithAffinity: conditional on the job still being queued (a    *)
(* conflict is skipped), unconditional on the node.                        *)
ReserveJob_FirstAttemptIsZero(j, n, gpus) ==
  /\ job' = [job EXCEPT ![j].status = "ASSIGNED", ![j].node = n,
                        ![j].attempt = @ + 1]
  /\ assignments' = assignments \cup
       {[job |-> j, attempt |-> job[j].attempt, node |-> n, gpus |-> gpus]}
ReserveJob(j, n, gpus) ==
  /\ job' = [job EXCEPT ![j].status = "ASSIGNED", ![j].node = n,
                        ![j].attempt = @ + 1]
  /\ assignments' = assignments \cup
       {[job |-> j, attempt |-> job[j].attempt + 1, node |-> n, gpus |-> gpus]}

RestOfPass(j, view, waits) ==
  IF pass.queue = {j} THEN IdlePass
  ELSE [pass EXCEPT !.queue = @ \ {j}, !.view = view, !.waited = @ \cup waits]

PlaceOn(j, n) ==
  LET gpus == ChooseGpus(pass.view, n, Request[j])
      view == reserveInSnapshot(pass.view, n, Request[j], gpus)
  IN  /\ ReserveJob(j, n, gpus)
      /\ pass' = RestOfPass(j, view, {})

PlaceNext ==
  /\ pass.at = "place"
  /\ \E j \in Oldest(pass.queue) :
       LET found == Candidates(pass.view, Request[j]) IN
       \/ /\ found = {}
          /\ pass' = RestOfPass(j, pass.view, {j})
          /\ UNCHANGED <<job, assignments>>
       \/ /\ found # {} /\ job[j].status = "QUEUED"
          /\ \E n \in selectNode(pass.view, Request[j]) : PlaceOn(j, n)
       \/ /\ found # {} /\ job[j].status # "QUEUED"
          /\ pass' = RestOfPass(j, pass.view, {})
          /\ UNCHANGED <<job, assignments>>
  /\ UNCHANGED <<node, stops, resurrected, changes>>

(* An error of the store, or a restart of the server, ends the pass.       *)
AbortPass ==
  /\ pass.at # "idle" /\ changes < MaxChanges
  /\ pass' = IdlePass
  /\ changes' = changes + 1
  /\ UNCHANGED <<node, job, assignments, stops, resurrected>>

-----------------------------------------------------------------------------
(* The life of a job, as far as it takes and releases capacity. *)

CreateJob(j) ==
  /\ job[j].status = "none"
  /\ job' = [job EXCEPT ![j].status = "QUEUED"]
  /\ UNCHANGED <<node, assignments, pass, stops, resurrected, changes>>

RerunJob(j) ==
  /\ job[j].status \in Terminal /\ changes < MaxChanges
  /\ job' = [job EXCEPT ![j].status = "QUEUED", ![j].node = NoNode]
  /\ changes' = changes + 1
  /\ UNCHANGED <<node, assignments, pass, stops, resurrected>>

(* An event of the agent of the job's node; a deleted node's credential is *)
(* revoked and its events are refused.                                     *)
Report(j, s) ==
  /\ job[j].node # NoNode /\ ~node[job[j].node].deleted
  /\ HoldsGpus(j) /\ s # job[j].status /\ CanTransition(job[j].status, s)
  /\ job' = [job EXCEPT ![j].status = s]
  /\ UNCHANGED <<node, assignments, pass, stops, resurrected, changes>>

(* RequestStop reads the job, then writes.  The write of a queued job is   *)
(* conditional; that of an active job is by id alone.                      *)
StopRead(j) ==
  /\ changes < MaxChanges /\ j \notin stops /\ HoldsGpus(j)
  /\ job[j].status # "STOPPING"
  /\ stops' = stops \cup {j}
  /\ changes' = changes + 1
  /\ UNCHANGED <<node, job, assignments, pass, resurrected>>

StopWrite(j) ==
  /\ j \in stops
  /\ stops' = stops \ {j}
  /\ job' = [job EXCEPT ![j].status = "STOPPING"]
  /\ resurrected' = IF HoldsGpus(j) THEN resurrected ELSE resurrected \cup {j}
  /\ UNCHANGED <<node, assignments, pass, changes>>

StopQueued(j) ==
  /\ job[j].status = "QUEUED" /\ changes < MaxChanges
  /\ job' = [job EXCEPT ![j].status = "CANCELLED"]
  /\ changes' = changes + 1
  /\ UNCHANGED <<node, assignments, pass, stops, resurrected>>

-----------------------------------------------------------------------------
(* The node registry. *)

ChangeNode(n, row) ==
  /\ ~node[n].deleted /\ row # node[n] /\ changes < MaxChanges
  /\ node' = [node EXCEPT ![n] = row]
  /\ changes' = changes + 1

(* A heartbeat replaces the inventory (processors, memory, package and its *)
(* capability; the GPUs may have disappeared) and the status, except that  *)
(* DRAINING is left to the operator.                                       *)
Heartbeat(n, status, gpus, size) ==
  [node[n] EXCEPT !.status = IF @ = "DRAINING" THEN @ ELSE status,
                  !.gpus = gpus, !.size = size]

NodeHeartbeat(n) ==
  /\ \E status \in {"ONLINE", "DEGRADED"}, gpus \in {Inventory[n], {}},
        size \in Sizes[n] :
       ChangeNode(n, Heartbeat(n, status, gpus, size))
  /\ UNCHANGED <<job, assignments, pass, stops, resurrected>>

SetNodeStatus(n) ==
  /\ \E status \in {"DRAINING", "ONLINE"} :
       ChangeNode(n, [node[n] EXCEPT !.status = status])
  /\ UNCHANGED <<job, assignments, pass, stops, resurrected>>

UpdateNodeMetadata(n) ==
  /\ \E labels \in {{}, Labels} : ChangeNode(n, [node[n] EXCEPT !.labels = labels])
  /\ UNCHANGED <<job, assignments, pass, stops, resurrected>>

(* The monitor's first statement: a node that has not been heard of. *)
MarkOffline(n) ==
  /\ node[n].status \in {"ONLINE", "DEGRADED"}
  /\ ChangeNode(n, [node[n] EXCEPT !.status = "OFFLINE"])
  /\ UNCHANGED <<job, assignments, pass, stops, resurrected>>

(* Its second: an active job of such a node, never of a deleted one.  It   *)
(* may come for a node that is already back, DRAINING, or OFFLINE.         *)
MarkLost(j) ==
  /\ HoldsGpus(j) /\ job[j].status # "LOST" /\ job[j].node # NoNode
  /\ ~node[job[j].node].deleted /\ changes < MaxChanges
  /\ job' = [job EXCEPT ![j].status = "LOST"]
  /\ changes' = changes + 1
  /\ UNCHANGED <<node, assignments, pass, stops, resurrected>>

(* DeleteNode: refused while a job is active on the node. *)
DeleteNode(n) == Residents(n) = {}

RemoveNode(n) ==
  /\ DeleteNode(n)
  /\ ChangeNode(n, [node[n] EXCEPT !.status = "OFFLINE", !.deleted = TRUE, !.gpus = {}])
  /\ UNCHANGED <<job, assignments, pass, stops, resurrected>>

-----------------------------------------------------------------------------
SchedulerStep == ReadQueue \/ ListNodes \/ ListJobs \/ ReadAllocations \/ PlaceNext

JobStep(j) ==
  \/ CreateJob(j) \/ RerunJob(j) \/ StopRead(j) \/ StopWrite(j) \/ StopQueued(j)
  \/ \E s \in {"RUNNING", "FAILED"} : Report(j, s)
  \/ MarkLost(j)

NodeStep(n) ==
  \/ NodeHeartbeat(n) \/ SetNodeStatus(n) \/ UpdateNodeMetadata(n)
  \/ MarkOffline(n) \/ RemoveNode(n)

Next ==
  \/ SchedulerStep \/ AbortPass
  \/ \E j \in Jobs : JobStep(j)
  \/ \E n \in Nodes : NodeStep(n)

SafetySpec == Init /\ [][Next]_vars

(* The scheduler ticks every second and takes its next step as long as     *)
(* there is one (the states in which there is none are named instead of    *)
(* ENABLED, which TLC evaluates slowly here; aborted passes are bounded).  *)
(* Programs end and their results arrive; stop requests are carried out.   *)
SchedulerFairness ==
  \/ []<>(pass = IdlePass /\ \A j \in Jobs : job[j].status # "QUEUED")
  \/ []<><<pass' # pass>>_vars
Fairness ==
  /\ SchedulerFairness
  /\ \A j \in Jobs : WF_vars(Report(j, "FAILED")) /\ WF_vars(StopWrite(j))

Spec == SafetySpec /\ Fairness

-----------------------------------------------------------------------------
(* Properties. *)

(* The GPUs the current attempt of an active job runs on. *)
Holds(j) ==
  UNION {a.gpus : a \in {b \in assignments :
           HoldsGpus(j) /\ b.job = j /\ b.attempt = job[j].attempt}}

(* Two active jobs never share a GPU, over every interleaving of a pass    *)
(* with lost, returning, ending and rerun jobs and with inventories that   *)
(* come and go (AllocatedGPUUUIDs, reserveInSnapshot) - unless a stop      *)
(* request brought one of them back from a result it already had.          *)
GpuExclusiveUnlessResurrected ==
  \A i, j \in Jobs \ resurrected : i # j => Holds(i) \cap Holds(j) = {}

(* What the jobs on a node need, and what they need of a package.          *)
Load(n) == Residents(n) \ resurrected
Needed(n, d) == SumFunctionOnSet(Need(d), Load(n))
NeededOf(n, p) == SumFunctionOnSet(Need("cpu"), Load(n) \cap UsersOfPackage(p))

(* No reservation oversubscribes its node: whenever a job is added to the  *)
(* load of a node, all it then carries fits into the processors, the       *)
(* memory and the CPU package the node had reported when the pass listed   *)
(* it, though a pass adds that load up from a snapshot (capacity.Account)  *)
(* and its own bookkeeping (reserveInSnapshot).  A heartbeat that then     *)
(* reports less takes nothing from the jobs that are there: the promise is *)
(* about what is added.  A package is given only by a node that lists it   *)
(* and can keep a job on it.                                               *)
NeverOversubscribed ==
  [][\A n \in Nodes : \A j \in Load(n)' \ Load(n) :
       /\ n \in DOMAIN pass.view
       /\ \A d \in Dim : Needed(n, d)' <= pass.view[n].size[d]
       /\ Request[j].package # NoPackage =>
            /\ pass.view[n].size.affinity
            /\ pass.view[n].size.package = Request[j].package
            /\ NeededOf(n, Request[j].package)' <= pass.view[n].size.packageCpu]_vars

(* A request that every node which can serve t can serve too. *)
AsksNoMore(s, t) ==
  /\ s.cpu <= t.cpu /\ s.memory <= t.memory /\ s.labels \subseteq t.labels
  /\ s.target \in {NoNode, t.target} /\ s.package \in {NoPackage, t.package}
  /\ \/ s.uuids = {} /\ s.count = 0
     \/ s.uuids # {} /\ s.uuids \subseteq t.uuids
     \/ s.uuids = {} /\ t.uuids = {} /\ s.count <= t.count /\ s.vram <= t.vram

(* "FIFO is the only queue policy": a pass never places a job while an     *)
(* older one that asks for no more still waits its turn in the pass or was *)
(* told in the same pass to wait.  An older job that asks for more is      *)
(* overtaken by what fits (Schedule goes on to the next job).              *)
LighterIsNotOvertaken ==
  [][\A i, j \in Jobs :
       (/\ job[j].status = "QUEUED" /\ job'[j].status = "ASSIGNED"
        /\ i < j /\ job[i].status = "QUEUED" /\ AsksNoMore(Request[i], Request[j]))
       => i \notin pass.queue \cup pass.waited]_vars

(* Why they hold: the inductive invariant behind the safety properties.    *)

(* An attempt is a disturbance: nobody starts a job twice unasked.         *)
AttemptsAreCounted ==
  \A j \in Jobs :
    /\ job[j].attempt <= changes + 1
    /\ job[j].status \in {"none", "QUEUED"} => job[j].attempt <= changes

(* GPUs are listed, seen and assigned where they are installed.            *)
GpusAreInstalled ==
  /\ \A n \in Nodes : node[n].gpus \subseteq Inventory[n]
  /\ \A n \in DOMAIN pass.view : pass.view[n].gpus \subseteq Inventory[n]
  /\ \A a \in assignments :
       a.gpus \subseteq Inventory[a.node] /\ a.attempt <= job[a.job].attempt

(* The jobs the properties are about, and their assignments.               *)
Counts(j) == HoldsGpus(j) /\ j \notin resurrected
Current(a) == Counts(a.job) /\ a.attempt = job[a.job].attempt

(* Whatever happens during a pass, what it has read covers what is held:   *)
(* jobs take capacity only in the pass itself.                             *)
TakenIsKnown ==
  pass.at = "place" =>
    \A a \in assignments :
      Current(a) /\ a.node \in DOMAIN pass.view
        => a.gpus \subseteq pass.view[a.node].taken

ReservedIsKnown ==
  pass.at \in {"gpus", "place"} =>
    \A n \in DOMAIN pass.view :
      /\ \A d \in Dim : Needed(n, d) <= pass.view[n][d]
      /\ NeededOf(n, pass.view[n].size.package) <= pass.view[n].package

AssignmentsAreApart ==
  \A a, b \in assignments :
    a.job # b.job /\ Current(a) /\ Current(b) => a.gpus \cap b.gpus = {}

(* A job that was told to wait would be told so again in the same pass.    *)
WaitedStillWait ==
  /\ pass.at # "place" => pass.waited = {}
  /\ \A i \in pass.waited : Candidates(pass.view, Request[i]) = {}

IInv == /\ TypeOK /\ AttemptsAreCounted /\ GpusAreInstalled
        /\ TakenIsKnown /\ ReservedIsKnown /\ AssignmentsAreApart
        /\ WaitedStillWait

(* DeleteNode refuses while a job is active on the node ("stop or          *)
(* reconcile them before deletion"), so that no job is left on a node      *)
(* nobody answers for.                                                     *)
DeletedNodeIsEmpty == \A n \in Nodes : node[n].deleted => Residents(n) = {}

(* A job that asks for what some online node could give were it empty does *)
(* not wait for ever while nothing is placed: whatever others hold is      *)
(* released when they end.  Placements may starve it: a pass passes over a *)
(* job that does not fit, goes on to younger ones (Schedule), and never    *)
(* keeps room for it, so that an endless stream of smaller jobs, which the *)
(* instance is too small to have, keeps a big one waiting.  A job left on  *)
(* a deleted node never ends, and goes on holding the GPUs of its earlier  *)
(* attempts on other nodes.                                                *)
EmptyView ==
  [n \in {m \in Nodes : ~node[m].deleted} |-> Listed(n)]
PlacementsGoOn == []<><<assignments' # assignments>>_vars
QueuedIsPlaced ==
  \A j \in Jobs :
    \/ ~<>[](/\ job[j].status = "QUEUED" /\ resurrected = {} /\ DeletedNodeIsEmpty
            /\ Candidates(EmptyView, Request[j]) # {})
    \/ PlacementsGoOn

=============================================================================
