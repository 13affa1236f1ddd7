-------------------------- MODULE Scheduler_proofs --------------------------
(***************************************************************************)
(* Theorems of Scheduler, for every set of jobs, nodes and GPUs, for every *)
(* size and every request.  The inductive invariant is IInv of Scheduler.  *)
(***************************************************************************)
EXTENDS Scheduler, SumTheorems

(* A job that counts takes its capacity where and as it did before: what   *)
(* every step does that is not a reservation.                              *)
Quiet ==
  /\ assignments' = assignments
  /\ \A j \in Jobs :
       /\ job'[j].attempt = job[j].attempt
       /\ Counts(j)' => Counts(j) /\ job'[j].node = job[j].node

(* The statuses the steps write. *)
LEMMA Statuses ==
  /\ {"QUEUED", "ASSIGNED", "STOPPING", "CANCELLED", "LOST", "RUNNING", "FAILED"}
       \subseteq JobStatus
  /\ Terminal \subseteq JobStatus /\ Active \subseteq JobStatus
  /\ \A s \in Terminal \cup {"none", "QUEUED"} : s \notin Active
  /\ {"ASSIGNED", "STOPPING", "LOST", "RUNNING"} \subseteq Active
  /\ "none" \notin JobStatus
BY DEF JobStatus, Terminal, Active

(* The sets a pass works on are finite. *)
LEMMA Finite ==
  /\ \A S \in SUBSET Jobs : IsFiniteSet(S)
  /\ \A S \in SUBSET GPUs : IsFiniteSet(S) /\ Cardinality(S) \in Nat
BY IdsAssumption, FS_Subset, FS_CardinalityType

LEMMA Needs ==
  ASSUME NEW d \in Dim, NEW S \in SUBSET Jobs
  PROVE  /\ IsFiniteSet(S)
         /\ \A j \in S : Need(d)[j] \in Nat
         /\ SumFunctionOnSet(Need(d), S) \in Nat
<1>1. IsFiniteSet(S)
  BY Finite
<1>2. \A j \in S : Need(d)[j] \in Nat
  BY SpecAssumption DEF Need, Dim
<1> QED
  BY <1>1, <1>2, SumType

(* Fewer jobs need no more, and one more job needs its request more.       *)
LEMMA NeedsOfFewer ==
  ASSUME NEW d \in Dim, NEW S \in SUBSET Jobs, NEW T \in SUBSET S
  PROVE  SumFunctionOnSet(Need(d), T) <= SumFunctionOnSet(Need(d), S)
BY Needs, SumMonotone

LEMMA NeedsOfOneMore ==
  ASSUME NEW d \in Dim, NEW S \in SUBSET Jobs, NEW j \in Jobs,
         NEW T \in SUBSET (S \cup {j})
  PROVE  SumFunctionOnSet(Need(d), T)
           <= SumFunctionOnSet(Need(d), S) + Request[j][d]
<1>0. S \cup {j} \in SUBSET Jobs
  OBVIOUS
<1>1. SumFunctionOnSet(Need(d), T) <= SumFunctionOnSet(Need(d), S \cup {j})
  BY <1>0, NeedsOfFewer
<1>2. Request[j][d] \in Nat /\ Need(d)[j] = Request[j][d]
  BY SpecAssumption DEF Need, Dim
<1>3. CASE j \in S
  <2>1. T \in SUBSET S /\ T \in SUBSET Jobs
    BY <1>0, <1>3
  <2>2. SumFunctionOnSet(Need(d), T) \in Nat /\ SumFunctionOnSet(Need(d), S) \in Nat
    BY <2>1, Needs
  <2>3. SumFunctionOnSet(Need(d), T) <= SumFunctionOnSet(Need(d), S)
    BY <2>1, NeedsOfFewer
  <2> QED
    BY <1>2, <2>2, <2>3
<1>4. CASE j \notin S
  <2>1. SumFunctionOnSet(Need(d), S \cup {j})
          = SumFunctionOnSet(Need(d), S) + Need(d)[j]
    BY <1>0, <1>4, Needs, SumAdd
  <2> QED
    BY <1>1, <1>2, <2>1
<1> QED
  BY <1>3, <1>4

-----------------------------------------------------------------------------
(* The snapshot. *)

(* A snapshot of some nodes that lists the GPUs they have. *)
IsView(v) ==
  /\ DOMAIN v \subseteq Nodes
  /\ v \in [DOMAIN v -> View]
  /\ \A n \in DOMAIN v : v[n].gpus \subseteq Inventory[n]

LEMMA SizeFields ==
  ASSUME NEW size \in AnySize
  PROVE  /\ {size.cpu, size.memory, size.packageCpu} \subseteq Nat
         /\ size.package # NoPackage
BY SizesAssumption DEF AnySize

(* A node that is chosen has the room and the GPUs the job asks for.       *)
LEMMA Chosen ==
  ASSUME NEW v, IsView(v), NEW j \in Jobs,
         NEW n \in Candidates(v, Request[j]),
         NEW gpus, gpus = ChooseGpus(v, n, Request[j])
  PROVE  /\ n \in DOMAIN v /\ n \in Nodes
         /\ gpus \subseteq v[n].gpus /\ gpus \cap v[n].taken = {}
         /\ gpus \subseteq GPUs /\ gpus \subseteq Inventory[n]
         /\ \A d \in Dim : v[n][d] + Request[j][d] <= v[n].size[d]
         /\ Request[j].package # NoPackage =>
              /\ v[n].size.affinity /\ v[n].size.package = Request[j].package
              /\ v[n].package + Request[j].cpu <= v[n].size.packageCpu
<1>1. n \in DOMAIN v /\ n \in Nodes /\ v[n] \in View
  BY DEF IsView, Candidates, Reachable
<1>2. /\ HasCapacity(v, n, Request[j]) /\ HasPackage(v, n, Request[j])
      /\ HasPackageRoom(v, n, Request[j]) /\ HasGpus(v, n, Request[j])
  BY DEF Candidates
<1>3. gpus \subseteq v[n].gpus /\ gpus \cap v[n].taken = {}
  BY <1>2 DEF HasGpus, ChooseGpus, FreeGpus
<1>4. gpus \subseteq GPUs /\ gpus \subseteq Inventory[n]
  BY <1>1, <1>3, SizesAssumption DEF IsView
<1>5. /\ {Request[j].cpu, Request[j].memory} \subseteq Nat
      /\ {v[n].size.cpu, v[n].size.memory, v[n].size.packageCpu} \subseteq Nat
      /\ v[n].cpu \in Int /\ v[n].memory \in Int /\ v[n].package \in Int
  <2>1. v[n].size \in AnySize
    BY <1>1 DEF View
  <2> QED
    BY <1>1, <2>1, SpecAssumption, SizeFields DEF View
<1>6. /\ v[n].cpu + Request[j].cpu <= v[n].size.cpu
      /\ v[n].memory + Request[j].memory <= v[n].size.memory
  BY <1>2, <1>5 DEF HasCapacity, FreeOn
<1>7. Request[j].package # NoPackage =>
        /\ v[n].size.affinity /\ v[n].size.package = Request[j].package
        /\ v[n].package + Request[j].cpu <= v[n].size.packageCpu
  BY <1>2, <1>5 DEF HasPackage, HasPackageRoom
<1> QED
  BY <1>1, <1>3, <1>4, <1>6, <1>7 DEF Dim

LEMMA ViewFields ==
  ASSUME NEW r \in View, NEW a \in Int, NEW b \in Int, NEW c \in Int,
         NEW g \in SUBSET GPUs
  PROVE  [r EXCEPT !.cpu = @ + a, !.memory = @ + b, !.package = @ + c,
                   !.taken = @ \cup g] \in View
<1>1. /\ r.cpu + a \in Int /\ r.memory + b \in Int /\ r.package + c \in Int
      /\ r.taken \cup g \in SUBSET GPUs
  BY DEF View
<1>2. \A e, f, h \in Int, k \in SUBSET GPUs :
        [r EXCEPT !.cpu = e, !.memory = f, !.package = h, !.taken = k] \in View
  BY DEF View
<1> QED
  BY <1>1, <1>2

(* What a reservation takes of the package that is listed. *)
Share(v, n, j) ==
  IF Request[j].package = v[n].size.package THEN Request[j].cpu ELSE 0

(* What a reservation makes of the snapshot: little, elsewhere nothing.    *)
Elsewhere(v, n, w) == \A m \in DOMAIN v \ {n} : w[m] = v[m]
After(v, n, j, gpus, w) ==
  /\ \A d \in Dim : w[n][d] = v[n][d] + Request[j][d]
  /\ w[n].package = v[n].package + Share(v, n, j)
  /\ w[n].taken = v[n].taken \cup gpus
  /\ w[n].status = v[n].status /\ w[n].labels = v[n].labels
  /\ w[n].gpus = v[n].gpus /\ w[n].size = v[n].size

LEMMA ViewAfter ==
  ASSUME NEW v, IsView(v), NEW j \in Jobs, NEW n \in DOMAIN v,
         NEW gpus \in SUBSET GPUs, NEW w,
         w = reserveInSnapshot(v, n, Request[j], gpus)
  PROVE  /\ DOMAIN w = DOMAIN v /\ IsView(w)
         /\ After(v, n, j, gpus, w)
         /\ Elsewhere(v, n, w)
<1> DEFINE p == Share(v, n, j)
           x == [v[n] EXCEPT !.cpu = @ + Request[j].cpu,
                             !.memory = @ + Request[j].memory,
                             !.package = @ + p,
                             !.taken = @ \cup gpus]
<1>0. n \in Nodes /\ v[n] \in View
  BY DEF IsView
<1>1. {Request[j].cpu, Request[j].memory, p} \subseteq Int
  BY SpecAssumption DEF Share
<1>2. x \in View
  BY <1>0, <1>1, ViewFields
<1>3. /\ x.cpu = v[n].cpu + Request[j].cpu
      /\ x.memory = v[n].memory + Request[j].memory
      /\ x.package = v[n].package + p
      /\ x.taken = v[n].taken \cup gpus
      /\ x.status = v[n].status /\ x.labels = v[n].labels /\ x.gpus = v[n].gpus
      /\ x.size = v[n].size
  BY <1>0 DEF View
<1>4. /\ w = [v EXCEPT ![n] = x]
      /\ v = [m \in DOMAIN v |-> v[m]]
  BY DEF reserveInSnapshot, IsView, Share
<1> HIDE DEF x, p
<1>6. DOMAIN w = DOMAIN v /\ w[n] = x /\ \A m \in DOMAIN v \ {n} : w[m] = v[m]
  BY <1>4
<1>7. IsView(w)
  BY <1>2, <1>3, <1>4, <1>6 DEF IsView
<1> QED
  BY <1>3, <1>6, <1>7 DEF Dim, p, After, Elsewhere

(* A node that is refused is refused again with less room: no reservation  *)
(* makes a job fit that did not.                                           *)
LEMMA NoNewCandidates ==
  ASSUME NEW v, IsView(v), NEW j \in Jobs, NEW n \in DOMAIN v,
         NEW gpus \in SUBSET GPUs, NEW w,
         w = reserveInSnapshot(v, n, Request[j], gpus),
         NEW i \in Jobs
  PROVE  Candidates(w, Request[i]) \subseteq Candidates(v, Request[i])
<1> DEFINE s == Request[i]
<1> SUFFICES ASSUME NEW m \in Candidates(w, s)
             PROVE  m \in Candidates(v, s)
  OBVIOUS
<1>0. DOMAIN w = DOMAIN v /\ IsView(w) /\ m \in DOMAIN w
  BY ViewAfter DEF Candidates, Reachable
<1>1. /\ m \in DOMAIN v
      /\ m \in Nodes /\ w[m] \in View /\ v[m] \in View
  BY <1>0 DEF IsView
<1>2. CASE m # n
  <2>1. w[m] = v[m]
    <3>1. Elsewhere(v, n, w)
      BY ViewAfter
    <3> QED
      BY <1>1, <1>2, <3>1 DEF Elsewhere
  <2>2. FreeGpus(w, m, s) = FreeGpus(v, m, s)
    BY <2>1 DEF FreeGpus
  <2> QED
    BY <1>1, <2>1, <2>2 DEF Candidates, Reachable, HasCapacity, HasPackage,
                            HasPackageRoom, HasGpus, FreeOn
<1>3. CASE m = n
  <2>1. /\ w[m].cpu = v[m].cpu + Request[j].cpu
        /\ w[m].memory = v[m].memory + Request[j].memory
        /\ w[m].package =
             v[m].package + Share(v, m, j)
        /\ w[m].taken = v[m].taken \cup gpus
        /\ w[m].status = v[m].status /\ w[m].labels = v[m].labels
        /\ w[m].gpus = v[m].gpus /\ w[m].size = v[m].size
    <3>1. After(v, n, j, gpus, w)
      BY ViewAfter
    <3> QED
      BY <1>3, <3>1 DEF After, Dim
  <2>2. /\ {Request[j].cpu, Request[j].memory, s.cpu, s.memory, s.count} \subseteq Nat
        /\ {v[m].size.cpu, v[m].size.memory, v[m].size.packageCpu} \subseteq Nat
        /\ v[m].cpu \in Int /\ v[m].memory \in Int /\ v[m].package \in Int
        /\ w[m].gpus \subseteq GPUs
    <3>1. v[m].size \in AnySize
      BY <1>1 DEF View
    <3> QED
      BY <1>1, <3>1, SpecAssumption, SizeFields DEF View
  <2>3. /\ m \in Reachable(w, s) /\ HasCapacity(w, m, s) /\ HasPackage(w, m, s)
        /\ HasPackageRoom(w, m, s) /\ HasGpus(w, m, s)
    BY DEF Candidates
  <2>4. m \in Reachable(v, s)
    BY <1>1, <2>1, <2>3 DEF Reachable
  <2>5. HasCapacity(v, m, s) /\ HasPackage(v, m, s) /\ HasPackageRoom(v, m, s)
    BY <2>1, <2>2, <2>3 DEF HasCapacity, HasPackage, HasPackageRoom, FreeOn, Share
  <2>6. HasGpus(v, m, s)
    <3>1. /\ FreeGpus(w, m, s) \subseteq FreeGpus(v, m, s)
          /\ FreeGpus(v, m, s) \subseteq GPUs
      BY <2>1, <2>2 DEF FreeGpus
    <3>2. /\ Cardinality(FreeGpus(w, m, s)) <= Cardinality(FreeGpus(v, m, s))
          /\ Cardinality(FreeGpus(w, m, s)) \in Nat
          /\ Cardinality(FreeGpus(v, m, s)) \in Nat
      BY <3>1, Finite, FS_Subset
    <3> QED
      BY <2>1, <2>2, <2>3, <3>2 DEF HasGpus
  <2> QED
    BY <2>4, <2>5, <2>6 DEF Candidates
<1> QED
  BY <1>2, <1>3

-----------------------------------------------------------------------------
(* The steps that reserve nothing. *)

LEMMA Initially == Init => IInv
<1> SUFFICES ASSUME Init PROVE IInv
  OBVIOUS
<1> USE DEF Init
<1>1. TypeOK
  <2>1. /\ IdlePass.view \in [DOMAIN IdlePass.view -> View]
        /\ DOMAIN IdlePass.view = {} /\ IdlePass.at \in Steps
    BY DEF IdlePass, NoView, Steps
  <2>2. pass \in [at : Steps, queue : SUBSET Jobs, waited : SUBSET Jobs,
                  view : {pass.view}]
    BY DEF IdlePass, NoView, Steps
  <2>3. \A n \in Nodes : Total[n] \in AnySize
    BY SizesAssumption DEF AnySize
  <2> QED
    BY <2>1, <2>2, <2>3, SizesAssumption, BoundsAssumption DEF TypeOK, NodeStatus
<1>2. AttemptsAreCounted
  BY DEF AttemptsAreCounted
<1>3. \A j \in Jobs : ~HoldsGpus(j)
  BY Statuses DEF HoldsGpus, IsActive
<1>4. GpusAreInstalled
  BY DEF GpusAreInstalled, IdlePass, NoView
<1>5. TakenIsKnown /\ ReservedIsKnown /\ AssignmentsAreApart
  BY DEF TakenIsKnown, ReservedIsKnown, AssignmentsAreApart, IdlePass
<1>7. WaitedStillWait
  BY DEF WaitedStillWait, IdlePass
<1> QED
  BY <1>1, <1>2, <1>4, <1>5, <1>7 DEF IInv

(* Fewer jobs are resident, of which fewer use a package.                  *)
LEMMA QuietLoad ==
  ASSUME Quiet, NEW n \in Nodes
  PROVE  Load(n)' \in SUBSET Load(n) /\ Load(n) \in SUBSET Jobs
<1>1. ASSUME NEW j \in Load(n)' PROVE j \in Load(n)
  <2>1. j \in Jobs /\ Counts(j)' /\ job'[j].node = n
    BY DEF Load, Residents, Counts
  <2> QED
    BY <2>1 DEF Quiet, Counts, Load, Residents
<1> QED
  BY <1>1 DEF Load, Residents

LEMMA QuietSums ==
  ASSUME Quiet, NEW n \in Nodes, NEW d \in Dim, NEW p
  PROVE  /\ Needed(n, d)' <= Needed(n, d)
         /\ SumFunctionOnSet(Need("cpu"), Load(n)' \cap UsersOfPackage(p))
              <= NeededOf(n, p)
         /\ {Needed(n, d), Needed(n, d)', NeededOf(n, p),
             SumFunctionOnSet(Need("cpu"), Load(n)' \cap UsersOfPackage(p))}
              \subseteq Nat
<1> DEFINE S == Load(n)
           T == Load(n)'
           U == UsersOfPackage(p)
<1>1. T \in SUBSET S /\ S \in SUBSET Jobs /\ T \in SUBSET Jobs /\ "cpu" \in Dim
  BY QuietLoad DEF Dim
<1>2. Needed(n, d)' = SumFunctionOnSet(Need(d), T)
  BY DEF Needed, Need
<1> HIDE DEF S, T, U
<1>3. T \cap U \in SUBSET (S \cap U) /\ S \cap U \in SUBSET Jobs /\ T \cap U \in SUBSET Jobs
  BY <1>1
<1>4. /\ SumFunctionOnSet(Need(d), T) <= SumFunctionOnSet(Need(d), S)
      /\ SumFunctionOnSet(Need("cpu"), T \cap U) <= SumFunctionOnSet(Need("cpu"), S \cap U)
  BY <1>1, <1>3, NeedsOfFewer
<1>5. /\ SumFunctionOnSet(Need(d), T) \in Nat /\ SumFunctionOnSet(Need(d), S) \in Nat
      /\ SumFunctionOnSet(Need("cpu"), T \cap U) \in Nat
      /\ SumFunctionOnSet(Need("cpu"), S \cap U) \in Nat
  BY <1>1, <1>3, Needs
<1> QED
  BY <1>2, <1>4, <1>5 DEF S, T, U, Needed, NeededOf

(* What is held stays apart. *)
LEMMA QuietKeeps ==
  ASSUME IInv, Quiet
  PROVE  AssignmentsAreApart'
<1>1. \A a \in assignments' : a \in assignments /\ (Current(a)' => Current(a))
  BY DEF IInv, TypeOK, Quiet, Current
<1> QED
  BY <1>1 DEF IInv, AssignmentsAreApart

(* Nor is what the pass has read overtaken. *)
LEMMA QuietKeepsPass ==
  ASSUME IInv, Quiet, pass' = pass
  PROVE  TakenIsKnown' /\ ReservedIsKnown' /\ WaitedStillWait'
<1>1. \A a \in assignments' : a \in assignments /\ (Current(a)' => Current(a))
  BY DEF IInv, TypeOK, Quiet, Current
<1>2. TakenIsKnown'
  BY <1>1 DEF IInv, TakenIsKnown
<1>3. ReservedIsKnown'
  <2> SUFFICES ASSUME pass.at \in {"gpus", "place"}, NEW n \in DOMAIN pass.view
               PROVE  /\ \A d \in Dim : Needed(n, d)' <= pass.view[n][d]
                      /\ SumFunctionOnSet(Need("cpu"), Load(n)' \cap
                                UsersOfPackage(pass.view[n].size.package))
                           <= pass.view[n].package
    BY DEF ReservedIsKnown, NeededOf, Need, UsersOfPackage
  <2>0. n \in Nodes /\ pass.view[n] \in View
    BY DEF IInv, TypeOK
  <2>1. /\ \A d \in Dim : Needed(n, d) <= pass.view[n][d]
        /\ NeededOf(n, pass.view[n].size.package) <= pass.view[n].package
    BY DEF IInv, ReservedIsKnown
  <2>2. (\A d \in Dim : pass.view[n][d] \in Int) /\ pass.view[n].package \in Int
    BY <2>0 DEF View, Dim
  <2>3. ASSUME NEW d \in Dim PROVE Needed(n, d)' <= pass.view[n][d]
    <3>1. /\ Needed(n, d)' <= Needed(n, d)
          /\ Needed(n, d)' \in Nat /\ Needed(n, d) \in Nat
      BY <2>0, QuietSums
    <3> QED
      BY <2>1, <2>2, <3>1
  <2>4. SumFunctionOnSet(Need("cpu"), Load(n)' \cap
                            UsersOfPackage(pass.view[n].size.package))
          <= pass.view[n].package
    <3> DEFINE new == SumFunctionOnSet(Need("cpu"), Load(n)' \cap
                            UsersOfPackage(pass.view[n].size.package))
               old == NeededOf(n, pass.view[n].size.package)
    <3>1. new <= old /\ new \in Nat /\ old \in Nat
      BY <2>0, QuietSums DEF Dim
    <3> HIDE DEF new, old
    <3>2. old <= pass.view[n].package
      BY <2>1 DEF old
    <3>3. new <= pass.view[n].package
      BY <2>2, <3>1, <3>2
    <3> QED
      BY <3>3 DEF new
  <2> QED
    BY <2>3, <2>4
<1>4. WaitedStillWait'
  BY DEF IInv, WaitedStillWait
<1> QED
  BY <1>2, <1>3, <1>4

(* One row of jobs is written, and nobody takes capacity by it.            *)
Writes(j, s, n) ==
  /\ UNCHANGED <<node, assignments, pass>>
  /\ stops' \subseteq Jobs /\ resurrected' \subseteq Jobs
  /\ resurrected \subseteq resurrected'
  /\ changes' \in changes .. MaxChanges
  /\ s = "QUEUED" => \/ job[j].status \in {"none", "QUEUED"}
                     \/ changes' = changes + 1
  /\ IsActive(s) /\ j \notin resurrected' => HoldsGpus(j) /\ n = job[j].node

LEMMA JobWritten ==
  ASSUME IInv, NEW j \in Jobs,
         NEW s \in JobStatus, NEW n \in Nodes \cup {NoNode}, Writes(j, s, n),
         job' = [job EXCEPT ![j].status = s, ![j].node = n]
  PROVE  IInv'
<1> USE DEF IInv, Writes
<1> DEFINE Row == [status : JobStatus \cup {"none"}, node : Nodes \cup {NoNode},
                   attempt : 0 .. MaxChanges + 1]
<1>0. /\ job \in [Jobs -> Row] /\ changes \in 0 .. MaxChanges
      /\ MaxChanges \in Nat /\ changes' \in Nat
      /\ assignments \subseteq [job : Jobs, attempt : 1 .. MaxChanges + 1,
                               node : Nodes, gpus : SUBSET GPUs]
  BY BoundsAssumption DEF TypeOK
<1>1. [job[j] EXCEPT !.status = s, !.node = n] \in Row
  BY <1>0
<1>2. /\ job'[j].status = s /\ job'[j].node = n /\ job'[j].attempt = job[j].attempt
      /\ \A i \in Jobs \ {j} : job'[i] = job[i]
      /\ job' \in [Jobs -> Row]
  BY <1>0, <1>1
<1> HIDE DEF Row
<1>3. Quiet
  <2>1. \A i \in Jobs : /\ job'[i].attempt = job[i].attempt
                        /\ Counts(i)' => Counts(i) /\ job'[i].node = job[i].node
    BY <1>2 DEF Counts, HoldsGpus
  <2> QED
    BY <2>1 DEF Quiet
<1>4. TypeOK'
  BY <1>0, <1>2 DEF TypeOK, Row
<1>5. AttemptsAreCounted'
  <2> SUFFICES ASSUME NEW i \in Jobs
               PROVE  /\ job'[i].attempt <= changes' + 1
                      /\ job'[i].status \in {"none", "QUEUED"}
                           => job'[i].attempt <= changes'
    BY DEF AttemptsAreCounted
  <2>1. /\ job'[i].attempt = job[i].attempt
        /\ job[i].attempt \in Int
        /\ job[i].attempt <= changes + 1
        /\ job[i].status \in {"none", "QUEUED"} => job[i].attempt <= changes
    BY <1>0, <1>2 DEF AttemptsAreCounted, Row
  <2>2. job'[i].status \in {"none", "QUEUED"} =>
          \/ job[i].status \in {"none", "QUEUED"}
          \/ changes' = changes + 1
    BY <1>2, Statuses
  <2> QED
    BY <1>0, <2>1, <2>2
<1>6. GpusAreInstalled'
  BY <1>0, <1>2 DEF GpusAreInstalled
<1> QED
  BY <1>3, <1>4, <1>5, <1>6, QuietKeeps, QuietKeepsPass

(* A write of the status leaves the node as it is. *)
LEMMA OnlyStatus ==
  ASSUME TypeOK, NEW j \in Jobs, NEW s
  PROVE  [job EXCEPT ![j].status = s] =
           [job EXCEPT ![j].status = s, ![j].node = job[j].node]
BY DEF TypeOK

(* Every step of a job's life. *)
LEMMA JobSteps ==
  ASSUME IInv, NEW j \in Jobs, JobStep(j)
  PROVE  IInv'
<1>0. /\ job[j].node \in Nodes \cup {NoNode}
      /\ stops \subseteq Jobs /\ resurrected \subseteq Jobs
      /\ changes \in 0 .. MaxChanges /\ MaxChanges \in Nat
      /\ job[j].status = "none" \/ job[j].status \in JobStatus
      /\ TypeOK
  BY BoundsAssumption DEF IInv, TypeOK
<1>1. /\ ~IsActive("QUEUED") /\ ~IsActive("CANCELLED") /\ ~IsActive("FAILED")
      /\ ~IsActive("none")
  BY DEF IsActive, Active
<1>2. CASE CreateJob(j)
  <2>1. job' = [job EXCEPT ![j].status = "QUEUED", ![j].node = job[j].node]
    BY <1>0, OnlyStatus, <1>2 DEF CreateJob
  <2>2. Writes(j, "QUEUED", job[j].node)
    BY <1>0, <1>1, <1>2 DEF CreateJob, Writes
  <2> QED
    BY <1>0, <2>1, <2>2, JobWritten, Statuses
<1>3. CASE RerunJob(j)
  <2>1. Writes(j, "QUEUED", NoNode)
    BY <1>0, <1>1, <1>3 DEF RerunJob, Writes
  <2>2. job' = [job EXCEPT ![j].status = "QUEUED", ![j].node = NoNode]
    BY <1>3 DEF RerunJob
  <2> QED
    BY <2>1, <2>2, JobWritten, Statuses
<1>4. CASE StopRead(j)
  <2>0. job = [job EXCEPT ![j].status = job[j].status, ![j].node = job[j].node]
    BY <1>0 DEF TypeOK
  <2>1. Writes(j, job[j].status, job[j].node) /\ job[j].status \in JobStatus
    BY <1>0, <1>1, <1>4 DEF StopRead, HoldsGpus, Writes
  <2>2. job' = job
    BY <1>4 DEF StopRead
  <2> QED
    BY <1>0, <2>0, <2>1, <2>2, JobWritten
<1>5. CASE StopWrite(j)
  <2>1. job' = [job EXCEPT ![j].status = "STOPPING", ![j].node = job[j].node]
    BY <1>0, OnlyStatus, <1>5 DEF StopWrite
  <2>2. Writes(j, "STOPPING", job[j].node)
    BY <1>0, <1>5 DEF StopWrite, Writes
  <2> QED
    BY <1>0, <2>1, <2>2, JobWritten, Statuses
<1>6. CASE StopQueued(j)
  <2>1. job' = [job EXCEPT ![j].status = "CANCELLED", ![j].node = job[j].node]
    BY <1>0, OnlyStatus, <1>6 DEF StopQueued
  <2>2. Writes(j, "CANCELLED", job[j].node)
    BY <1>0, <1>1, <1>6 DEF StopQueued, Writes
  <2> QED
    BY <1>0, <2>1, <2>2, JobWritten, Statuses
<1>7. CASE \E s \in {"RUNNING", "FAILED"} : Report(j, s)
  <2> PICK s \in {"RUNNING", "FAILED"} : Report(j, s)
    BY <1>7
  <2>1. job' = [job EXCEPT ![j].status = s, ![j].node = job[j].node]
    BY <1>0, OnlyStatus DEF Report
  <2>2. Writes(j, s, job[j].node)
    BY <1>0 DEF Report, Writes
  <2> QED
    BY <1>0, <2>1, <2>2, JobWritten, Statuses
<1>8. CASE MarkLost(j)
  <2>1. job' = [job EXCEPT ![j].status = "LOST", ![j].node = job[j].node]
    BY <1>0, OnlyStatus, <1>8 DEF MarkLost
  <2>2. Writes(j, "LOST", job[j].node)
    BY <1>0, <1>8 DEF MarkLost, Writes
  <2> QED
    BY <1>0, <2>1, <2>2, JobWritten, Statuses
<1> QED
  BY <1>2, <1>3, <1>4, <1>5, <1>6, <1>7, <1>8 DEF JobStep

(* One row of nodes is written; the inventory comes and goes.              *)
LEMMA NodeSteps ==
  ASSUME IInv, NEW n \in Nodes, NodeStep(n)
  PROVE  IInv'
<1> DEFINE Row == [status : NodeStatus, deleted : BOOLEAN,
                   gpus : SUBSET GPUs, labels : SUBSET Labels,
                   size : AnySize]
<1>0. /\ node \in [Nodes -> Row] /\ node[n] \in Row
      /\ node[n].gpus \subseteq Inventory[n] /\ Inventory[n] \subseteq GPUs
      /\ changes \in 0 .. MaxChanges /\ MaxChanges \in Nat
  BY BoundsAssumption, SizesAssumption DEF IInv, TypeOK, GpusAreInstalled
<1>1. \E row \in Row : /\ row.gpus \subseteq Inventory[n] /\ ChangeNode(n, row)
                       /\ UNCHANGED <<job, assignments, pass, stops, resurrected>>
  <2>1. CASE NodeHeartbeat(n)
    <3>1. PICK status \in {"ONLINE", "DEGRADED"}, gpus \in {Inventory[n], {}},
                size \in Sizes[n] :
                 ChangeNode(n, Heartbeat(n, status, gpus, size))
      BY <2>1 DEF NodeHeartbeat
    <3>2. size \in AnySize
      BY DEF AnySize
    <3>3. /\ Heartbeat(n, status, gpus, size) \in Row
          /\ Heartbeat(n, status, gpus, size).gpus \subseteq Inventory[n]
      BY <1>0, <3>2 DEF Heartbeat, NodeStatus
    <3> QED
      BY <2>1, <3>1, <3>3 DEF NodeHeartbeat
  <2>2. CASE SetNodeStatus(n)
    <3>1. PICK status \in {"DRAINING", "ONLINE"} :
                 ChangeNode(n, [node[n] EXCEPT !.status = status])
      BY <2>2 DEF SetNodeStatus
    <3>2. /\ [node[n] EXCEPT !.status = status] \in Row
          /\ [node[n] EXCEPT !.status = status].gpus = node[n].gpus
      BY <1>0 DEF NodeStatus
    <3> QED
      BY <1>0, <2>2, <3>1, <3>2 DEF SetNodeStatus
  <2>3. CASE UpdateNodeMetadata(n)
    <3>1. PICK labels \in {{}, Labels} :
                 ChangeNode(n, [node[n] EXCEPT !.labels = labels])
      BY <2>3 DEF UpdateNodeMetadata
    <3>2. /\ [node[n] EXCEPT !.labels = labels] \in Row
          /\ [node[n] EXCEPT !.labels = labels].gpus = node[n].gpus
      BY <1>0
    <3> QED
      BY <1>0, <2>3, <3>1, <3>2 DEF UpdateNodeMetadata
  <2>4. CASE MarkOffline(n)
    <3>1. /\ [node[n] EXCEPT !.status = "OFFLINE"] \in Row
          /\ [node[n] EXCEPT !.status = "OFFLINE"].gpus = node[n].gpus
      BY <1>0 DEF NodeStatus
    <3> QED
      BY <1>0, <2>4, <3>1 DEF MarkOffline
  <2>5. CASE RemoveNode(n)
    <3>1. /\ [node[n] EXCEPT !.status = "OFFLINE", !.deleted = TRUE, !.gpus = {}] \in Row
          /\ [node[n] EXCEPT !.status = "OFFLINE", !.deleted = TRUE, !.gpus = {}].gpus = {}
      BY <1>0 DEF NodeStatus
    <3> QED
      BY <1>0, <2>5, <3>1 DEF RemoveNode
  <2> QED
    BY <2>1, <2>2, <2>3, <2>4, <2>5 DEF NodeStep
<1>2. PICK row \in Row : /\ row.gpus \subseteq Inventory[n] /\ ChangeNode(n, row)
                        /\ UNCHANGED <<job, assignments, pass, stops, resurrected>>
  BY <1>1
<1>3. /\ node' \in [Nodes -> Row]
      /\ \A m \in Nodes : node'[m].gpus \subseteq Inventory[m]
      /\ changes' = changes + 1 /\ changes' <= MaxChanges
  BY <1>0, <1>2 DEF ChangeNode, IInv, GpusAreInstalled
<1>4. Quiet
  BY <1>2 DEF Quiet, Counts, HoldsGpus
<1>5. TypeOK'
  BY <1>0, <1>2, <1>3 DEF IInv, TypeOK
<1>6. AttemptsAreCounted'
  <2> SUFFICES ASSUME NEW i \in Jobs
               PROVE  /\ job[i].attempt <= changes' + 1
                      /\ job[i].status \in {"none", "QUEUED"}
                           => job[i].attempt <= changes'
    BY <1>2 DEF AttemptsAreCounted
  <2>1. /\ job[i].attempt \in Int
        /\ job[i].attempt <= changes + 1
        /\ job[i].status \in {"none", "QUEUED"} => job[i].attempt <= changes
    BY <1>0 DEF IInv, AttemptsAreCounted, TypeOK
  <2> QED
    BY <1>0, <1>3, <2>1
<1>7. GpusAreInstalled'
  BY <1>2, <1>3 DEF IInv, GpusAreInstalled
<1> QED
  BY <1>2, <1>4, <1>5, <1>6, <1>7, QuietKeeps, QuietKeepsPass DEF IInv

-----------------------------------------------------------------------------
(* The pass. *)

IsPass(p) ==
  /\ p \in [at : Steps, queue : SUBSET Jobs, waited : SUBSET Jobs, view : {p.view}]
  /\ IsView(p.view)

MovesTo(p, q, s, v) == q = [p EXCEPT !.at = s, !.view = v]

LEMMA PassReads ==
  ASSUME NEW p, IsPass(p), NEW s \in Steps, NEW v, IsView(v),
         NEW q, MovesTo(p, q, s, v)
  PROVE  IsPass(q) /\ q.at = s /\ q.view = v /\ q.waited = p.waited
BY DEF IsPass, MovesTo

Continues(p, q, r, v, w) == q = [p EXCEPT !.queue = r, !.view = v, !.waited = w]

LEMMA PassPlaces ==
  ASSUME NEW p, IsPass(p), NEW r \in SUBSET Jobs, NEW w \in SUBSET Jobs,
         NEW v, IsView(v), NEW q, Continues(p, q, r, v, w)
  PROVE  IsPass(q) /\ q.at = p.at /\ q.view = v /\ q.waited = w
BY DEF IsPass, Continues

LEMMA IdleIsPass ==
  ASSUME NEW q \in SUBSET Jobs
  PROVE  /\ IsPass(IdlePass) /\ IsPass([IdlePass EXCEPT !.at = "nodes", !.queue = q])
         /\ IdlePass.at = "idle" /\ IdlePass.waited = {}
         /\ [IdlePass EXCEPT !.at = "nodes", !.queue = q].at = "nodes"
         /\ [IdlePass EXCEPT !.at = "nodes", !.queue = q].waited = {}
<1>1. IsView(NoView)
  BY DEF IsView, NoView
<1> QED
  BY <1>1 DEF IsPass, IdlePass, Steps

LEMMA ThePass == IInv => IsPass(pass)
BY DEF IInv, TypeOK, GpusAreInstalled, IsPass, IsView

(* Only the pass moves on. *)
LEMMA PassMoves ==
  ASSUME IInv, UNCHANGED <<node, job, assignments, stops, resurrected>>,
         changes' \in changes .. MaxChanges, IsPass(pass'),
         TakenIsKnown', ReservedIsKnown', WaitedStillWait'
  PROVE  IInv'
<1>1. Quiet
  BY DEF Quiet, Counts, HoldsGpus
<1>2. changes \in 0 .. MaxChanges /\ MaxChanges \in Nat /\ changes' \in 0 .. MaxChanges
  BY BoundsAssumption DEF IInv, TypeOK
<1>3. TypeOK'
  BY <1>2 DEF IInv, TypeOK, IsPass, IsView
<1>4. AttemptsAreCounted'
  <2> SUFFICES ASSUME NEW i \in Jobs
               PROVE  /\ job[i].attempt <= changes' + 1
                      /\ job[i].status \in {"none", "QUEUED"}
                           => job[i].attempt <= changes'
    BY DEF AttemptsAreCounted
  <2>1. /\ job[i].attempt \in Int
        /\ job[i].attempt <= changes + 1
        /\ job[i].status \in {"none", "QUEUED"} => job[i].attempt <= changes
    BY <1>2 DEF IInv, AttemptsAreCounted, TypeOK
  <2> QED
    BY <1>2, <2>1
<1>5. GpusAreInstalled'
  BY DEF IInv, GpusAreInstalled, IsPass, IsView
<1> QED
  BY <1>1, <1>3, <1>4, <1>5, QuietKeeps DEF IInv

(* The end of a pass, and its being given up. *)
LEMMA PassEnds ==
  ASSUME IInv, UNCHANGED <<node, job, assignments, stops, resurrected>>,
         changes' \in changes .. MaxChanges, pass' = IdlePass
  PROVE  IInv'
<1>1. IsPass(pass') /\ pass'.at = "idle" /\ pass'.waited = {}
  BY IdleIsPass
<1>2. TakenIsKnown' /\ ReservedIsKnown' /\ WaitedStillWait'
  BY <1>1 DEF TakenIsKnown, ReservedIsKnown, WaitedStillWait
<1> QED
  BY <1>1, <1>2, PassMoves

LEMMA Reads ==
  ASSUME IInv, ReadQueue \/ ListNodes \/ AbortPass
  PROVE  IInv'
<1>0. /\ changes \in 0 .. MaxChanges /\ MaxChanges \in Nat /\ IsPass(pass)
      /\ pass.at # "place" => pass.waited = {}
  BY BoundsAssumption, ThePass DEF IInv, TypeOK, WaitedStillWait
<1>1. CASE ReadQueue
  <2>1. QueuedJobs \in SUBSET Jobs
    BY DEF QueuedJobs
  <2>2. IsPass(pass') /\ pass'.at = "nodes" /\ pass'.waited = {}
    BY <1>1, <2>1, IdleIsPass DEF ReadQueue
  <2>3. TakenIsKnown' /\ ReservedIsKnown' /\ WaitedStillWait'
    BY <2>2 DEF TakenIsKnown, ReservedIsKnown, WaitedStillWait
  <2>4. /\ UNCHANGED <<node, job, assignments, stops, resurrected>>
        /\ changes' \in changes .. MaxChanges
    BY <1>0, <1>1 DEF ReadQueue
  <2> QED
    BY <2>2, <2>3, <2>4, PassMoves
<1>2. CASE ListNodes
  <2> DEFINE v == [n \in {m \in Nodes : ~node[m].deleted} |-> Listed(n)]
  <2>1. \A n \in Nodes : Listed(n) \in View /\ Listed(n).gpus \subseteq Inventory[n]
    BY DEF Listed, View, IInv, TypeOK, GpusAreInstalled
  <2>2. IsView(v)
    BY <2>1 DEF IsView
  <2> HIDE DEF v
  <2>3. "jobs" \in Steps
    BY DEF Steps
  <2>4. MovesTo(pass, pass', "jobs", v) /\ pass.waited = {}
    BY <1>0, <1>2 DEF ListNodes, MovesTo, v
  <2>5. IsPass(pass') /\ pass'.at = "jobs" /\ pass'.waited = {}
    BY <1>0, <2>2, <2>3, <2>4, PassReads
  <2>6. TakenIsKnown' /\ ReservedIsKnown' /\ WaitedStillWait'
    BY <2>5 DEF TakenIsKnown, ReservedIsKnown, WaitedStillWait
  <2>7. /\ UNCHANGED <<node, job, assignments, stops, resurrected>>
        /\ changes' \in changes .. MaxChanges
    BY <1>0, <1>2 DEF ListNodes
  <2> QED
    BY <2>5, <2>6, <2>7, PassMoves
<1>3. CASE AbortPass
  BY <1>0, <1>3, PassEnds DEF AbortPass
<1> QED
  BY <1>1, <1>2, <1>3

LEMMA Accounting ==
  ASSUME IInv, ListJobs
  PROVE  IInv'
<1> DEFINE v == [n \in DOMAIN pass.view |->
                   [pass.view[n] EXCEPT !.cpu = Reserved(n, "cpu"),
                                        !.memory = Reserved(n, "memory"),
                                        !.package =
                       ReservedPackage(n, pass.view[n].size.package)]]
<1>0. IsPass(pass) /\ IsView(pass.view)
  BY ThePass DEF IsPass
<1>1. ASSUME NEW n \in DOMAIN pass.view
      PROVE  /\ v[n] \in View /\ v[n].gpus \subseteq Inventory[n]
             /\ \A d \in Dim : v[n][d] = Reserved(n, d)
             /\ v[n].package = ReservedPackage(n, v[n].size.package)
  <2>1. /\ Residents(n) \in SUBSET Jobs
        /\ Residents(n) \cap UsersOfPackage(pass.view[n].size.package) \in SUBSET Jobs
        /\ "cpu" \in Dim /\ "memory" \in Dim
    BY DEF Residents, Dim
  <2>2. /\ Reserved(n, "cpu") \in Int /\ Reserved(n, "memory") \in Int
        /\ ReservedPackage(n, pass.view[n].size.package) \in Int
    BY <2>1, Needs DEF Reserved, ReservedPackage
  <2>3. pass.view[n] \in View /\ pass.view[n].gpus \subseteq Inventory[n]
    BY <1>0 DEF IsView
  <2> QED
    BY <2>2, <2>3 DEF View, Dim
<1>2. DOMAIN v = DOMAIN pass.view /\ v = [n \in DOMAIN v |-> v[n]]
  OBVIOUS
<1>3. MovesTo(pass, pass', "gpus", v) /\ pass.at = "jobs"
  BY DEF ListJobs, MovesTo
<1> HIDE DEF v
<1>4. IsView(v)
  BY <1>0, <1>1, <1>2 DEF IsView
<1>5. IsPass(pass') /\ pass'.at = "gpus" /\ pass'.view = v /\ pass'.waited = {}
  <2>1. pass.waited = {} /\ {"gpus", "place"} \subseteq Steps
    BY <1>3 DEF IInv, WaitedStillWait, Steps
  <2> QED
    BY <1>0, <1>3, <1>4, <2>1, PassReads
<1>6. /\ UNCHANGED <<node, job, assignments, stops, resurrected>>
      /\ changes' \in changes .. MaxChanges
  BY DEF ListJobs, IInv, TypeOK
<1>7. TakenIsKnown' /\ WaitedStillWait'
  BY <1>5 DEF TakenIsKnown, WaitedStillWait
<1>8. ReservedIsKnown'
  <2> SUFFICES ASSUME NEW n \in DOMAIN v
               PROVE  /\ \A d \in Dim : Needed(n, d) <= v[n][d]
                      /\ NeededOf(n, v[n].size.package) <= v[n].package
    BY <1>5, <1>6 DEF ReservedIsKnown, Needed, NeededOf, Load, Residents,
                      HoldsGpus, Need, UsersOfPackage
  <2> DEFINE U == UsersOfPackage(v[n].size.package)
  <2>1. /\ Load(n) \in SUBSET Residents(n) /\ Residents(n) \in SUBSET Jobs
        /\ "cpu" \in Dim
    BY DEF Residents, Load, Dim
  <2>2. \A d \in Dim : Needed(n, d) <= Reserved(n, d)
    BY <2>1, NeedsOfFewer DEF Reserved, Needed
  <2>3. SumFunctionOnSet(Need("cpu"), Load(n) \cap U)
          <= SumFunctionOnSet(Need("cpu"), Residents(n) \cap U)
    <3> HIDE DEF U
    <3>1. /\ Load(n) \cap U \in SUBSET (Residents(n) \cap U)
          /\ Residents(n) \cap U \in SUBSET Jobs
      BY <2>1
    <3> QED
      BY <2>1, <3>1, NeedsOfFewer
  <2> QED
    BY <1>1, <1>2, <2>2, <2>3 DEF ReservedPackage, NeededOf
<1> QED
  BY <1>5, <1>6, <1>7, <1>8, PassMoves

LEMMA Allocations ==
  ASSUME IInv, ReadAllocations
  PROVE  IInv'
<1> DEFINE v == [n \in DOMAIN pass.view |->
                   [pass.view[n] EXCEPT !.taken = AllocatedGPUUUIDs(n)]]
<1>0. IsPass(pass) /\ IsView(pass.view)
  BY ThePass DEF IsPass
<1>1. ASSUME NEW n \in DOMAIN pass.view
      PROVE  /\ v[n] \in View /\ v[n].gpus \subseteq Inventory[n]
             /\ \A d \in Dim : v[n][d] = pass.view[n][d]
             /\ v[n].package = pass.view[n].package
             /\ v[n].size = pass.view[n].size
             /\ v[n].taken = AllocatedGPUUUIDs(n)
  <2>1. AllocatedGPUUUIDs(n) \subseteq GPUs
    BY DEF AllocatedGPUUUIDs, IInv, TypeOK
  <2>2. pass.view[n] \in View /\ pass.view[n].gpus \subseteq Inventory[n]
    BY <1>0 DEF IsView
  <2> QED
    BY <2>1, <2>2 DEF View, Dim
<1>2. DOMAIN v = DOMAIN pass.view /\ v = [n \in DOMAIN v |-> v[n]]
  OBVIOUS
<1>3. MovesTo(pass, pass', "place", v) /\ pass.at = "gpus"
  BY DEF ReadAllocations, MovesTo
<1> HIDE DEF v
<1>4. IsView(v)
  BY <1>0, <1>1, <1>2 DEF IsView
<1>5. IsPass(pass') /\ pass'.at = "place" /\ pass'.view = v /\ pass'.waited = {}
  <2>1. pass.waited = {} /\ {"gpus", "place"} \subseteq Steps
    BY <1>3 DEF IInv, WaitedStillWait, Steps
  <2> QED
    BY <1>0, <1>3, <1>4, <2>1, PassReads
<1>6. /\ UNCHANGED <<node, job, assignments, stops, resurrected>>
      /\ changes' \in changes .. MaxChanges
  BY DEF ReadAllocations, IInv, TypeOK
<1>7. WaitedStillWait'
  BY <1>5 DEF WaitedStillWait
<1>8. ReservedIsKnown'
  <2> SUFFICES ASSUME NEW n \in DOMAIN v
               PROVE  /\ \A d \in Dim : Needed(n, d) <= v[n][d]
                      /\ NeededOf(n, v[n].size.package) <= v[n].package
    BY <1>5, <1>6 DEF ReservedIsKnown, Needed, NeededOf, Load, Residents,
                      HoldsGpus, Need, UsersOfPackage
  <2> QED
    BY <1>1, <1>2, <1>3 DEF IInv, ReservedIsKnown
<1>9. TakenIsKnown'
  <2> SUFFICES ASSUME NEW a \in assignments, Current(a), a.node \in DOMAIN v
               PROVE  a.gpus \subseteq v[a.node].taken
    BY <1>5, <1>6 DEF TakenIsKnown, Current, Counts, HoldsGpus
  <2>1. a.gpus \subseteq AllocatedGPUUUIDs(a.node)
    BY DEF AllocatedGPUUUIDs, Current, Counts
  <2> QED
    BY <1>1, <1>2, <2>1
<1> QED
  BY <1>5, <1>6, <1>7, <1>8, <1>9, PassMoves

(* After the last job the pass is over, before it goes on with the rest.   *)
LEMMA Rest ==
  ASSUME IInv, pass.at = "place", NEW j \in Jobs, NEW v, IsView(v),
         NEW waits \in SUBSET Jobs, pass' = RestOfPass(j, v, waits)
  PROVE  /\ IsPass(pass')
         /\ \/ pass'.at = "idle" /\ pass'.waited = {}
            \/ /\ pass'.at = "place" /\ pass'.view = v
               /\ pass'.waited = pass.waited \cup waits
<1>1. CASE pass.queue = {j}
  <2>1. pass' = IdlePass
    BY <1>1 DEF RestOfPass
  <2>2. {} \in SUBSET Jobs
    OBVIOUS
  <2> QED
    BY <2>1, <2>2, IdleIsPass
<1>2. CASE pass.queue # {j}
  <2>1. Continues(pass, pass', pass.queue \ {j}, v, pass.waited \cup waits)
    BY <1>2 DEF RestOfPass, Continues
  <2>2. /\ IsPass(pass) /\ pass.queue \ {j} \in SUBSET Jobs
        /\ pass.waited \cup waits \in SUBSET Jobs
    BY ThePass DEF IInv, TypeOK
  <2>3. /\ IsPass(pass') /\ pass'.at = pass.at /\ pass'.view = v
        /\ pass'.waited = pass.waited \cup waits
    BY <2>1, <2>2, PassPlaces
  <2> QED
    BY <2>3
<1> QED
  BY <1>1, <1>2

(* A job that must wait, or is not queued any more, is passed over.        *)
LEMMA PassedOver ==
  ASSUME IInv, pass.at = "place", NEW j \in Jobs, NEW waits \in SUBSET {j},
         waits # {} => Candidates(pass.view, Request[j]) = {},
         pass' = RestOfPass(j, pass.view, waits),
         UNCHANGED <<node, job, assignments, stops, resurrected, changes>>
  PROVE  IInv'
<1>0. /\ changes' \in changes .. MaxChanges /\ waits \in SUBSET Jobs
      /\ IsView(pass.view)
  BY ThePass DEF IInv, TypeOK, IsPass
<1>1. /\ IsPass(pass')
      /\ \/ pass'.at = "idle" /\ pass'.waited = {}
         \/ /\ pass'.at = "place" /\ pass'.view = pass.view
            /\ pass'.waited = pass.waited \cup waits
  BY <1>0, Rest
<1>2. TakenIsKnown'
  BY <1>1 DEF IInv, TakenIsKnown, Current, Counts, HoldsGpus
<1>3. ReservedIsKnown'
  BY <1>1 DEF IInv, ReservedIsKnown, Needed, NeededOf, Load, Residents, HoldsGpus,
              Need, UsersOfPackage
<1>4. WaitedStillWait'
  BY <1>1 DEF IInv, WaitedStillWait
<1> QED
  BY <1>0, <1>1, <1>2, <1>3, <1>4, PassMoves

-----------------------------------------------------------------------------
(* A reservation. *)

Reserves(j, n) ==
  /\ pass.at = "place" /\ job[j].status = "QUEUED"
  /\ n \in Candidates(pass.view, Request[j])
  /\ PlaceOn(j, n)
  /\ UNCHANGED <<node, stops, resurrected, changes>>

(* What it reserves, and where. *)
Taken(j, n) == ChooseGpus(pass.view, n, Request[j])
NextView(j, n) == reserveInSnapshot(pass.view, n, Request[j], Taken(j, n))
NewRow(j, n) ==
  [job |-> j, attempt |-> job[j].attempt + 1, node |-> n, gpus |-> Taken(j, n)]

LEMMA ReservedRoom ==
  ASSUME IInv, NEW j \in Jobs, NEW n, Reserves(j, n)
  PROVE  /\ n \in DOMAIN pass.view /\ n \in Nodes
         /\ Taken(j, n) \subseteq pass.view[n].gpus
         /\ Taken(j, n) \cap pass.view[n].taken = {}
         /\ Taken(j, n) \in SUBSET GPUs /\ Taken(j, n) \subseteq Inventory[n]
         /\ \A d \in Dim : pass.view[n][d] + Request[j][d] <= pass.view[n].size[d]
         /\ Request[j].package # NoPackage =>
              /\ pass.view[n].size.affinity
              /\ pass.view[n].size.package = Request[j].package
              /\ pass.view[n].package + Request[j].cpu <= pass.view[n].size.packageCpu
<1>1. IsView(pass.view)
  BY ThePass DEF IsPass
<1> QED
  BY <1>1, Chosen DEF Reserves, Taken

LEMMA ReservedView ==
  ASSUME IInv, NEW j \in Jobs, NEW n, Reserves(j, n)
  PROVE  /\ IsView(pass.view) /\ IsView(NextView(j, n))
         /\ DOMAIN NextView(j, n) = DOMAIN pass.view
         /\ \A m \in DOMAIN pass.view \ {n} : NextView(j, n)[m] = pass.view[m]
         /\ \A d \in Dim : NextView(j, n)[n][d] = pass.view[n][d] + Request[j][d]
         /\ NextView(j, n)[n].package =
              pass.view[n].package + Share(pass.view, n, j)
         /\ NextView(j, n)[n].size = pass.view[n].size
         /\ NextView(j, n)[n].taken = pass.view[n].taken \cup Taken(j, n)
         /\ \A i \in Jobs : Candidates(NextView(j, n), Request[i])
                               \subseteq Candidates(pass.view, Request[i])
<1>1. IsView(pass.view)
  BY ThePass DEF IsPass
<1>2. n \in DOMAIN pass.view /\ Taken(j, n) \in SUBSET GPUs
  BY ReservedRoom
<1>3. /\ NextView(j, n) = reserveInSnapshot(pass.view, n, Request[j], Taken(j, n))
      /\ n \in DOMAIN pass.view
  BY <1>2 DEF NextView
<1>4. \A i \in Jobs : Candidates(NextView(j, n), Request[i])
                        \subseteq Candidates(pass.view, Request[i])
  BY <1>1, <1>2, <1>3, NoNewCandidates
<1>5. /\ IsView(NextView(j, n)) /\ DOMAIN NextView(j, n) = DOMAIN pass.view
      /\ Elsewhere(pass.view, n, NextView(j, n))
      /\ After(pass.view, n, j, Taken(j, n), NextView(j, n))
  BY <1>1, <1>2, <1>3, ViewAfter
<1> QED
  BY <1>1, <1>4, <1>5 DEF After, Elsewhere

LEMMA ReservedRows ==
  ASSUME IInv, NEW j \in Jobs, NEW n, Reserves(j, n)
  PROVE  /\ job'[j].status = "ASSIGNED" /\ job'[j].node = n
         /\ job'[j].attempt = job[j].attempt + 1
         /\ \A i \in Jobs \ {j} : job'[i] = job[i]
         /\ assignments' = assignments \cup {NewRow(j, n)}
         /\ pass' = RestOfPass(j, NextView(j, n), {})
         /\ job[j].attempt \in 0 .. changes /\ changes \in 0 .. MaxChanges
         /\ MaxChanges \in Nat
         /\ TypeOK' /\ AttemptsAreCounted' /\ GpusAreInstalled'
<1> DEFINE Row == [status : JobStatus \cup {"none"}, node : Nodes \cup {NoNode},
                   attempt : 0 .. MaxChanges + 1]
           r == [job[j] EXCEPT !.status = "ASSIGNED", !.node = n, !.attempt = @ + 1]
<1>1. /\ job \in [Jobs -> Row] /\ MaxChanges \in Nat /\ changes \in 0 .. MaxChanges
      /\ n \in Nodes /\ Taken(j, n) \in SUBSET GPUs
      /\ Taken(j, n) \subseteq Inventory[n]
  BY BoundsAssumption, ReservedRoom DEF IInv, TypeOK
<1>2. job[j].attempt \in 0 .. changes
  BY <1>1 DEF IInv, AttemptsAreCounted, Reserves
<1>3. r \in Row
  <2>1. job[j] \in Row /\ job[j].attempt + 1 \in 0 .. MaxChanges + 1
    BY <1>1, <1>2
  <2>2. \A k \in 0 .. MaxChanges + 1 :
          [job[j] EXCEPT !.status = "ASSIGNED", !.node = n, !.attempt = k] \in Row
    BY <1>1, <2>1, Statuses
  <2> QED
    BY <2>1, <2>2
<1>4. r.status = "ASSIGNED" /\ r.node = n /\ r.attempt = job[j].attempt + 1
  BY <1>1
<1>5. /\ job' = [job EXCEPT ![j] = r]
      /\ assignments' = assignments \cup {NewRow(j, n)}
      /\ pass' = RestOfPass(j, NextView(j, n), {})
  BY <1>1 DEF Reserves, PlaceOn, ReserveJob, NewRow, NextView, Taken
<1> HIDE DEF r, Row
<1>6. job'[j] = r /\ (\A i \in Jobs \ {j} : job'[i] = job[i]) /\ job' \in [Jobs -> Row]
  BY <1>1, <1>3, <1>5
<1>7. IsPass(pass')
  BY <1>5, Rest, ReservedView DEF Reserves
<1>8. NewRow(j, n) \in [job : Jobs, attempt : 1 .. MaxChanges + 1,
                       node : Nodes, gpus : SUBSET GPUs]
  BY <1>1, <1>2 DEF NewRow
<1>9. TypeOK'
  BY <1>1, <1>5, <1>6, <1>7, <1>8 DEF IInv, TypeOK, Reserves, IsPass, IsView, Row
<1>10. AttemptsAreCounted'
  BY <1>1, <1>2, <1>4, <1>6 DEF IInv, AttemptsAreCounted, Reserves
<1>11. GpusAreInstalled'
  <2>1. \A m \in DOMAIN pass'.view : pass'.view[m].gpus \subseteq Inventory[m]
    BY <1>7 DEF IsPass, IsView
  <2>2. ASSUME NEW a \in assignments'
        PROVE  a.gpus \subseteq Inventory[a.node] /\ a.attempt <= job'[a.job].attempt
    <3>1. CASE a = NewRow(j, n)
      BY <1>1, <1>2, <1>4, <1>6, <3>1 DEF NewRow
    <3>2. CASE a \in assignments
      <4>1. /\ a.gpus \subseteq Inventory[a.node] /\ a.attempt <= job[a.job].attempt
            /\ a.job \in Jobs /\ a.attempt \in Int
        BY <3>2 DEF IInv, GpusAreInstalled, TypeOK
      <4>2. job[a.job].attempt \in Int /\ job'[a.job].attempt \in Int
        BY <1>1, <1>6, <4>1 DEF Row
      <4> QED
        BY <1>2, <1>4, <1>6, <4>1, <4>2
    <3> QED
      BY <1>5, <3>1, <3>2
  <2> QED
    BY <2>1, <2>2 DEF IInv, GpusAreInstalled, Reserves
<1> QED
  BY <1>1, <1>2, <1>4, <1>5, <1>6, <1>9, <1>10, <1>11

(* The GPUs a job is given are nobody's: those of the node were counted as *)
(* taken when the pass read them, those of other nodes are other GPUs.     *)
LEMMA ReservedGpus ==
  ASSUME IInv, NEW j \in Jobs, NEW n, Reserves(j, n)
  PROVE  /\ \A a \in assignments : Current(a)' => Current(a) /\ a.job # j
         /\ AssignmentsAreApart' /\ TakenIsKnown'
<1>1. ASSUME NEW a \in assignments, Current(a)'
      PROVE  Current(a) /\ a.job # j /\ a.gpus \cap Taken(j, n) = {}
  <2>1. /\ a.job \in Jobs /\ a.node \in Nodes /\ a.attempt \in Nat
        /\ a.attempt <= job[a.job].attempt /\ a.gpus \subseteq Inventory[a.node]
    BY DEF IInv, TypeOK, GpusAreInstalled
  <2>2. a.job # j
    <3> SUFFICES ASSUME a.job = j PROVE FALSE
      OBVIOUS
    <3>1. a.attempt = job[j].attempt + 1 /\ job[j].attempt \in Nat
      BY <1>1, ReservedRows DEF Current
    <3> QED
      BY <2>1, <3>1
  <2>3. job'[a.job] = job[a.job] /\ resurrected' = resurrected
    BY <2>1, <2>2, ReservedRows DEF Reserves
  <2>4. Current(a)
    BY <1>1, <2>3 DEF Current, Counts, HoldsGpus
  <2>5. CASE a.node = n
    BY <2>2, <2>4, <2>5, ReservedRoom DEF IInv, TakenIsKnown, Reserves
  <2>6. CASE a.node # n
    <3>1. Inventory[a.node] \cap Inventory[n] = {}
      BY <2>1, <2>6, ReservedRoom, SizesAssumption
    <3> QED
      BY <2>1, <2>2, <2>4, <3>1, ReservedRoom
  <2> QED
    BY <2>2, <2>4, <2>5, <2>6
<1>2. /\ assignments' = assignments \cup {NewRow(j, n)}
      /\ NewRow(j, n).job = j /\ NewRow(j, n).gpus = Taken(j, n)
      /\ NewRow(j, n).node = n
  BY ReservedRows DEF NewRow
<1>3. AssignmentsAreApart'
  <2> SUFFICES ASSUME NEW a \in assignments', NEW b \in assignments',
                      a.job # b.job, Current(a)', Current(b)'
               PROVE  a.gpus \cap b.gpus = {}
    BY DEF AssignmentsAreApart
  <2>1. CASE a \in assignments /\ b \in assignments
    BY <1>1, <2>1 DEF IInv, AssignmentsAreApart
  <2>2. CASE a \in assignments /\ b = NewRow(j, n)
    BY <1>1, <1>2, <2>2
  <2>3. CASE a = NewRow(j, n) /\ b \in assignments
    BY <1>1, <1>2, <2>3
  <2> QED
    BY <1>2, <2>1, <2>2, <2>3
<1>4. TakenIsKnown'
  <2> SUFFICES ASSUME pass'.at = "place", NEW a \in assignments', Current(a)',
                      a.node \in DOMAIN pass'.view
               PROVE  a.gpus \subseteq pass'.view[a.node].taken
    BY DEF TakenIsKnown
  <2>1. pass'.view = NextView(j, n)
    BY Rest, ReservedRows, ReservedView DEF Reserves
  <2>2. CASE a = NewRow(j, n)
    BY <1>2, <2>1, <2>2, ReservedView
  <2>3. CASE a \in assignments
    <3>1. a.gpus \subseteq pass.view[a.node].taken
      BY <1>1, <2>1, <2>3, ReservedView DEF IInv, TakenIsKnown, Reserves
    <3> QED
      BY <2>1, <3>1, ReservedView
  <2> QED
    BY <1>2, <2>2, <2>3
<1> QED
  BY <1>1, <1>3, <1>4

(* Only the job that was placed is new on a node, and only on its own. *)
LEMMA ReservedLoad ==
  ASSUME IInv, NEW j \in Jobs, NEW n, Reserves(j, n), NEW m \in Nodes
  PROVE  /\ Load(m) \in SUBSET Jobs /\ Load(m)' \in SUBSET Jobs
         /\ Load(m)' \subseteq Load(m) \cup {j}
         /\ m # n => Load(m)' \subseteq Load(m)
<1>1. ASSUME NEW i \in Load(m)', i # j
      PROVE  i \in Load(m)
  <2>1. i \in Jobs /\ job'[i] = job[i] /\ resurrected' = resurrected
    BY <1>1, ReservedRows DEF Load, Residents, Reserves
  <2> QED
    BY <1>1, <2>1 DEF Load, Residents, HoldsGpus
<1>2. m # n => j \notin Load(m)'
  BY ReservedRows DEF Load, Residents
<1> QED
  BY <1>1, <1>2 DEF Load, Residents

(* What the jobs on a node need is more by the request of the one that is  *)
(* placed, at most, and only where it is placed.                           *)
NeededThen(m, p) == SumFunctionOnSet(Need("cpu"), Load(m)' \cap UsersOfPackage(p))

LEMMA ReservedSums ==
  ASSUME IInv, NEW j \in Jobs, NEW n, Reserves(j, n), NEW m \in Nodes, NEW p
  PROVE  /\ \A d \in Dim :
              /\ Needed(m, d) \in Nat /\ Needed(m, d)' \in Nat
              /\ Needed(m, d)' <= Needed(m, d) + Request[j][d]
              /\ m # n => Needed(m, d)' <= Needed(m, d)
         /\ NeededOf(m, p) \in Nat /\ NeededThen(m, p) \in Nat
         /\ NeededThen(m, p) <= NeededOf(m, p) + Request[j].cpu
         /\ m # n \/ j \notin UsersOfPackage(p) =>
              NeededThen(m, p) <= NeededOf(m, p)
<1> DEFINE S == Load(m)
           T == Load(m)'
           U == UsersOfPackage(p)
<1>1. /\ S \in SUBSET Jobs /\ T \in SUBSET Jobs
      /\ T \in SUBSET (S \cup {j}) /\ (m # n => T \in SUBSET S)
  BY ReservedLoad
<1>2. \A d \in Dim : /\ Needed(m, d) = SumFunctionOnSet(Need(d), S)
                     /\ Needed(m, d)' = SumFunctionOnSet(Need(d), T)
  BY DEF Needed, Need
<1>3. /\ NeededOf(m, p) = SumFunctionOnSet(Need("cpu"), S \cap U)
      /\ NeededThen(m, p) = SumFunctionOnSet(Need("cpu"), T \cap U)
  BY DEF NeededOf, NeededThen
<1>4. "cpu" \in Dim
  BY DEF Dim
<1> HIDE DEF S, T, U
<1>5. /\ S \cap U \in SUBSET Jobs /\ T \cap U \in SUBSET Jobs
      /\ T \cap U \in SUBSET ((S \cap U) \cup {j})
      /\ m # n \/ j \notin U => T \cap U \in SUBSET (S \cap U)
  BY <1>1
<1>6. ASSUME NEW d \in Dim
      PROVE  /\ Needed(m, d) \in Nat /\ Needed(m, d)' \in Nat
             /\ Needed(m, d)' <= Needed(m, d) + Request[j][d]
             /\ m # n => Needed(m, d)' <= Needed(m, d)
  BY <1>1, <1>2, Needs, NeedsOfFewer, NeedsOfOneMore
<1>7. NeededOf(m, p) \in Nat /\ NeededThen(m, p) \in Nat
  BY <1>3, <1>4, <1>5, Needs
<1>8. NeededThen(m, p) <= NeededOf(m, p) + Request[j]["cpu"]
  BY <1>3, <1>4, <1>5, NeedsOfOneMore
<1>9. m # n \/ j \notin U => NeededThen(m, p) <= NeededOf(m, p)
  BY <1>3, <1>4, <1>5, NeedsOfFewer
<1> QED
  BY <1>6, <1>7, <1>8, <1>9 DEF U

(* What the pass has read of the load, and of the room for one more job.   *)
LEMMA KnownLoad ==
  ASSUME IInv, NEW j \in Jobs, pass.at = "place", NEW m \in DOMAIN pass.view
  PROVE  /\ m \in Nodes /\ pass.view[m].package \in Int
         /\ \A d \in Dim : /\ pass.view[m][d] \in Int /\ Request[j][d] \in Nat
                           /\ pass.view[m].size[d] \in Nat
                           /\ Needed(m, d) <= pass.view[m][d]
         /\ pass.view[m].size.packageCpu \in Nat /\ Request[j].cpu \in Nat
         /\ NeededOf(m, pass.view[m].size.package) <= pass.view[m].package
<1>1. m \in Nodes /\ pass.view[m] \in View
  BY DEF IInv, TypeOK
<1>2. pass.view[m].size \in AnySize
  BY <1>1 DEF View
<1>3. /\ pass.view[m].size.cpu \in Nat /\ pass.view[m].size.memory \in Nat
      /\ pass.view[m].size.packageCpu \in Nat
  BY <1>2, SizeFields
<1>4. pass.view[m].package \in Int /\ pass.view[m].cpu \in Int /\ pass.view[m].memory \in Int
  BY <1>1 DEF View
<1>5. Request[j].cpu \in Nat /\ Request[j].memory \in Nat
  BY SpecAssumption
<1> QED
  BY <1>1, <1>3, <1>4, <1>5 DEF IInv, ReservedIsKnown, Dim

LEMMA ReservedCapacity ==
  ASSUME IInv, NEW j \in Jobs, NEW n, Reserves(j, n)
  PROVE  ReservedIsKnown'
<1>0. pass.at = "place"
  BY DEF Reserves
<1>1. ASSUME NEW m \in DOMAIN pass.view
      PROVE  /\ \A d \in Dim : Needed(m, d)' <= NextView(j, n)[m][d]
             /\ NeededThen(m, NextView(j, n)[m].size.package)
                  <= NextView(j, n)[m].package
  <2> DEFINE p == pass.view[m].size.package
  <2>0. m \in Nodes /\ NextView(j, n)[m].size.package = p
    <3>1. CASE m = n
      BY <1>0, <3>1, KnownLoad, ReservedView
    <3>2. CASE m # n
      BY <1>0, <3>2, KnownLoad, ReservedView
    <3> QED
      BY <3>1, <3>2
  <2> HIDE DEF p
  <2>1. /\ NeededOf(m, p) \in Nat /\ NeededThen(m, p) \in Nat
        /\ NeededThen(m, p) <= NeededOf(m, p) + Request[j].cpu
        /\ m # n \/ j \notin UsersOfPackage(p) => NeededThen(m, p) <= NeededOf(m, p)
    BY <2>0, ReservedSums
  <2>2. /\ NeededOf(m, p) <= pass.view[m].package
        /\ pass.view[m].package \in Int /\ Request[j].cpu \in Nat
    BY <1>0, KnownLoad DEF p
  <2>3. CASE m = n
    <3>1. \A d \in Dim : Needed(m, d)' <= NextView(j, n)[m][d]
      BY <1>0, <2>0, <2>3, KnownLoad, ReservedSums, ReservedView
    <3>2. NextView(j, n)[m].package = pass.view[m].package +
            (IF j \in UsersOfPackage(p) THEN Request[j].cpu ELSE 0)
      BY <2>3, ReservedView DEF p, Share, UsersOfPackage
    <3>3. NeededThen(m, p) <= NextView(j, n)[m].package
      BY <2>1, <2>2, <3>2
    <3> QED
      BY <2>0, <3>1, <3>3
  <2>4. CASE m # n
    <3>1. NextView(j, n)[m] = pass.view[m]
      BY <2>4, ReservedView
    <3>2. \A d \in Dim : Needed(m, d)' <= pass.view[m][d]
      BY <1>0, <2>0, <2>4, KnownLoad, ReservedSums
    <3>3. NeededThen(m, p) <= pass.view[m].package
      BY <2>1, <2>2, <2>4
    <3> QED
      BY <2>0, <3>1, <3>2, <3>3
  <2> QED
    BY <2>3, <2>4
<1>2. pass'.at \in {"gpus", "place"} => pass'.view = NextView(j, n)
  BY Rest, ReservedRows, ReservedView DEF Reserves
<1> SUFFICES ASSUME pass'.at \in {"gpus", "place"}, NEW m \in DOMAIN pass'.view
             PROVE  /\ \A d \in Dim : Needed(m, d)' <= pass'.view[m][d]
                    /\ NeededThen(m, pass'.view[m].size.package) <= pass'.view[m].package
  BY DEF ReservedIsKnown, NeededOf, NeededThen, Need, UsersOfPackage
<1> QED
  BY <1>1, <1>2, ReservedView

(* All the node then carries fits.                                         *)
LEMMA ReservedFits ==
  ASSUME IInv, NEW j \in Jobs, NEW n, Reserves(j, n)
  PROVE  /\ n \in DOMAIN pass.view
         /\ \A d \in Dim : Needed(n, d)' <= pass.view[n].size[d]
         /\ Request[j].package # NoPackage =>
              /\ pass.view[n].size.affinity
              /\ pass.view[n].size.package = Request[j].package
              /\ NeededThen(n, Request[j].package) <= pass.view[n].size.packageCpu
<1>0. pass.at = "place" /\ n \in DOMAIN pass.view /\ n \in Nodes
  BY ReservedRoom DEF Reserves
<1>1. \A d \in Dim : Needed(n, d)' <= pass.view[n].size[d]
  BY <1>0, KnownLoad, ReservedRoom, ReservedSums
<1>2. ASSUME Request[j].package # NoPackage
      PROVE  /\ pass.view[n].size.affinity
             /\ pass.view[n].size.package = Request[j].package
             /\ NeededThen(n, Request[j].package) <= pass.view[n].size.packageCpu
  <2>1. /\ pass.view[n].size.affinity
        /\ pass.view[n].size.package = Request[j].package
        /\ pass.view[n].package + Request[j].cpu <= pass.view[n].size.packageCpu
    BY <1>2, ReservedRoom
  <2>2. /\ NeededOf(n, Request[j].package) <= pass.view[n].package
        /\ pass.view[n].package \in Int /\ Request[j].cpu \in Nat
        /\ pass.view[n].size.packageCpu \in Nat
    BY <1>0, <2>1, KnownLoad
  <2>3. /\ NeededOf(n, Request[j].package) \in Nat
        /\ NeededThen(n, Request[j].package) \in Nat
        /\ NeededThen(n, Request[j].package)
             <= NeededOf(n, Request[j].package) + Request[j].cpu
    BY <1>0, ReservedSums
  <2> QED
    BY <2>1, <2>2, <2>3
<1> QED
  BY <1>0, <1>1, <1>2

LEMMA Reservations ==
  ASSUME IInv, NEW j \in Jobs, NEW n, Reserves(j, n)
  PROVE  IInv'
<1>1. \/ pass'.at = "idle" /\ pass'.waited = {}
      \/ /\ pass'.at = "place" /\ pass'.view = NextView(j, n)
         /\ pass'.waited = pass.waited
  <2>1. {} \in SUBSET Jobs /\ pass.waited \cup {} = pass.waited
    OBVIOUS
  <2>2. IsView(NextView(j, n)) /\ pass.at = "place"
    BY ReservedView DEF Reserves
  <2>3. pass' = RestOfPass(j, NextView(j, n), {})
    BY ReservedRows
  <2>4. \/ pass'.at = "idle" /\ pass'.waited = {}
        \/ /\ pass'.at = "place" /\ pass'.view = NextView(j, n)
           /\ pass'.waited = pass.waited \cup {}
    BY <2>1, <2>2, <2>3, Rest
  <2> QED
    BY <2>1, <2>4
<1>2. WaitedStillWait'
  <2> SUFFICES ASSUME NEW i \in pass'.waited
               PROVE  Candidates(pass'.view, Request[i]) = {}
    BY <1>1 DEF WaitedStillWait
  <2>1. /\ i \in pass.waited /\ pass'.view = NextView(j, n) /\ i \in Jobs
        /\ Candidates(pass.view, Request[i]) = {}
    BY <1>1 DEF IInv, WaitedStillWait, TypeOK
  <2> QED
    BY <2>1, ReservedView
<1> QED
  BY <1>2, ReservedRows, ReservedGpus, ReservedCapacity DEF IInv

(* What a step of the placement does to one job. *)
LEMMA Placements ==
  ASSUME IInv, PlaceNext
  PROVE  \E j \in Oldest(pass.queue) :
           /\ j \in Jobs
           /\ \/ \E n : Reserves(j, n)
              \/ /\ UNCHANGED <<node, job, assignments, stops, resurrected, changes>>
                 /\ \E waits \in SUBSET {j} :
                      /\ waits # {} => Candidates(pass.view, Request[j]) = {}
                      /\ pass' = RestOfPass(j, pass.view, waits)
<1> DEFINE found(j) == Candidates(pass.view, Request[j])
<1>1. PICK j \in Oldest(pass.queue) :
        \/ /\ found(j) = {}
           /\ pass' = RestOfPass(j, pass.view, {j})
           /\ UNCHANGED <<job, assignments>>
        \/ /\ found(j) # {} /\ job[j].status = "QUEUED"
           /\ \E n \in selectNode(pass.view, Request[j]) : PlaceOn(j, n)
        \/ /\ found(j) # {} /\ job[j].status # "QUEUED"
           /\ pass' = RestOfPass(j, pass.view, {})
           /\ UNCHANGED <<job, assignments>>
  BY DEF PlaceNext
<1>2. j \in Jobs /\ pass.at = "place" /\ UNCHANGED <<node, stops, resurrected, changes>>
  BY DEF Oldest, IInv, TypeOK, PlaceNext
<1>3. ASSUME NEW n \in selectNode(pass.view, Request[j]), PlaceOn(j, n),
             job[j].status = "QUEUED"
      PROVE  Reserves(j, n)
  BY <1>2, <1>3 DEF Reserves, selectNode
<1> HIDE DEF found
<1>4. CASE found(j) # {} /\ job[j].status = "QUEUED"
  BY <1>1, <1>2, <1>3, <1>4
<1>5. CASE found(j) = {}
  <2>1. /\ pass' = RestOfPass(j, pass.view, {j}) /\ UNCHANGED <<job, assignments>>
        /\ {j} \in SUBSET {j}
    BY <1>1, <1>5
  <2> QED
    BY <1>2, <1>5, <2>1 DEF found
<1>6. CASE found(j) # {} /\ job[j].status # "QUEUED"
  <2>1. /\ pass' = RestOfPass(j, pass.view, {}) /\ UNCHANGED <<job, assignments>>
        /\ {} \in SUBSET {j}
    BY <1>1, <1>6
  <2> QED
    BY <1>2, <2>1
<1> QED
  BY <1>4, <1>5, <1>6

LEMMA Placing ==
  ASSUME IInv, PlaceNext
  PROVE  IInv'
BY Placements, PassedOver, Reservations DEF PlaceNext

-----------------------------------------------------------------------------
(* The inductive invariant: attempts are counted, GPUs are where they are  *)
(* installed, and what a pass has read covers everything that is held      *)
(* while it places jobs.                                                   *)
THEOREM InductiveInvariant == SafetySpec => []IInv
<1>1. ASSUME IInv, [Next]_vars
      PROVE  IInv'
  <2>1. CASE SchedulerStep \/ AbortPass
    BY <1>1, <2>1, Reads, Accounting, Allocations, Placing DEF SchedulerStep
  <2>2. CASE \E j \in Jobs : JobStep(j)
    BY <1>1, <2>2, JobSteps
  <2>3. CASE \E n \in Nodes : NodeStep(n)
    BY <1>1, <2>3, NodeSteps
  <2>4. CASE UNCHANGED vars
    BY <1>1, <2>4 DEF IInv, vars, TypeOK, AttemptsAreCounted, GpusAreInstalled,
        TakenIsKnown, ReservedIsKnown, AssignmentsAreApart, WaitedStillWait,
        Current, Counts, HoldsGpus, Needed, NeededOf, Load, Residents, Need,
        UsersOfPackage
  <2> QED
    BY <1>1, <2>1, <2>2, <2>3, <2>4 DEF Next
<1> QED
  BY Initially, <1>1, PTL DEF SafetySpec

(* Only a pass adds to the load of a node. *)
LEMMA OnlyPassesPlace ==
  ASSUME IInv, Next, NEW n \in Nodes, NEW j \in Load(n)' \ Load(n)
  PROVE  PlaceNext
<1>0. /\ j \in Jobs /\ HoldsGpus(j)' /\ job'[j].node = n /\ j \notin resurrected'
      /\ ~(HoldsGpus(j) /\ job[j].node = n /\ j \notin resurrected)
  BY DEF Load, Residents
<1>1. ~(job'[j] = job[j] /\ resurrected \subseteq resurrected')
  BY <1>0 DEF HoldsGpus
<1>2. ASSUME NEW k \in Jobs, JobStep(k) PROVE FALSE
  <2>1. job \in [Jobs -> [status : JobStatus \cup {"none"}, node : Nodes \cup {NoNode},
                         attempt : 0 .. MaxChanges + 1]]
    BY DEF IInv, TypeOK
  <2>2. ~IsActive("QUEUED") /\ ~IsActive("CANCELLED")
    BY DEF IsActive, Active
  <2>3. ~(CreateJob(k) \/ RerunJob(k) \/ StopQueued(k))
    BY <1>0, <1>1, <2>1, <2>2 DEF CreateJob, RerunJob, StopQueued, HoldsGpus
  <2>4. ~StopRead(k)
    BY <1>1 DEF StopRead
  <2>5. ~StopWrite(k)
    BY <1>0, <1>1, <2>1 DEF StopWrite, HoldsGpus
  <2>6. ~(\E s \in {"RUNNING", "FAILED"} : Report(k, s))
    BY <1>0, <1>1, <2>1 DEF Report, HoldsGpus
  <2>7. ~MarkLost(k)
    BY <1>0, <1>1, <2>1 DEF MarkLost, HoldsGpus
  <2> QED
    BY <1>2, <2>3, <2>4, <2>5, <2>6, <2>7 DEF JobStep
<1>3. ~ \E m \in Nodes : NodeStep(m)
  BY <1>1 DEF NodeStep, NodeHeartbeat, SetNodeStatus, UpdateNodeMetadata,
              MarkOffline, RemoveNode
<1>4. ~(ReadQueue \/ ListNodes \/ ListJobs \/ ReadAllocations \/ AbortPass)
  BY <1>1 DEF ReadQueue, ListNodes, ListJobs, ReadAllocations, AbortPass
<1> QED
  BY <1>2, <1>3, <1>4 DEF Next, SchedulerStep

(* Whatever the sizes, what heartbeats make of them, and the requests: no  *)
(* node is given away twice, neither its processors, nor its memory, nor   *)
(* its package (capacity.Account, reserveInSnapshot).                      *)
THEOREM CapacityIsKept == SafetySpec => NeverOversubscribed
<1> DEFINE Fits(n, j) ==
       /\ n \in DOMAIN pass.view
       /\ \A d \in Dim : Needed(n, d)' <= pass.view[n].size[d]
       /\ Request[j].package # NoPackage =>
            /\ pass.view[n].size.affinity
            /\ pass.view[n].size.package = Request[j].package
            /\ NeededOf(n, Request[j].package)' <= pass.view[n].size.packageCpu
           AllFit == \A n \in Nodes : \A j \in Load(n)' \ Load(n) : Fits(n, j)
<1>1. ASSUME IInv, Next PROVE AllFit
  <2> SUFFICES ASSUME NEW n \in Nodes, NEW j \in Load(n)' \ Load(n)
               PROVE  Fits(n, j)
    OBVIOUS
  <2>1. PlaceNext
    BY <1>1, OnlyPassesPlace
  <2>2. PICK k \in Jobs : (\E m : Reserves(k, m)) \/ UNCHANGED <<job, resurrected>>
    BY <1>1, <2>1, Placements
  <2>3. ~UNCHANGED <<job, resurrected>>
    BY DEF Load, Residents, HoldsGpus
  <2>4. PICK m : Reserves(k, m)
    BY <2>2, <2>3
  <2>5. m = n /\ k = j
    BY <1>1, <2>4, ReservedLoad
  <2>6. NeededOf(n, Request[j].package)' = NeededThen(n, Request[j].package)
    BY DEF NeededOf, NeededThen, Need, UsersOfPackage
  <2> QED
    BY <1>1, <2>4, <2>5, <2>6, ReservedFits
<1>2. ASSUME UNCHANGED vars PROVE AllFit
  BY <1>2 DEF vars, Load, Residents, HoldsGpus
<1>3. IInv /\ [Next]_vars => [AllFit]_vars
  BY <1>1, <1>2
<1> QED
  BY <1>3, InductiveInvariant, PTL DEF SafetySpec, NeverOversubscribed

(* Two active jobs never share a GPU (AllocatedGPUUUIDs, ReserveJob).      *)
THEOREM GpusAreExclusive == SafetySpec => []GpuExclusiveUnlessResurrected
<1>1. ASSUME IInv PROVE GpuExclusiveUnlessResurrected
  <2> SUFFICES ASSUME NEW i \in Jobs \ resurrected, NEW j \in Jobs \ resurrected,
                      i # j, NEW g \in Holds(i), g \in Holds(j)
               PROVE  FALSE
    BY DEF GpuExclusiveUnlessResurrected
  <2>1. PICK a \in assignments : /\ HoldsGpus(i) /\ a.job = i
                                /\ a.attempt = job[i].attempt /\ g \in a.gpus
    BY DEF Holds
  <2>2. PICK b \in assignments : /\ HoldsGpus(j) /\ b.job = j
                                /\ b.attempt = job[j].attempt /\ g \in b.gpus
    BY DEF Holds
  <2>3. Current(a) /\ Current(b) /\ a.job # b.job
    BY <2>1, <2>2 DEF Current, Counts
  <2> QED
    BY <1>1, <2>1, <2>2, <2>3 DEF IInv, AssignmentsAreApart
<1> QED
  BY <1>1, InductiveInvariant, PTL

(* Where a request can be served, one that asks for no more can be, too.   *)
LEMMA LighterFits ==
  ASSUME NEW v, IsView(v), NEW i \in Jobs, NEW j \in Jobs,
         AsksNoMore(Request[i], Request[j])
  PROVE  Candidates(v, Request[j]) \subseteq Candidates(v, Request[i])
<1> DEFINE s == Request[i]
           t == Request[j]
<1> SUFFICES ASSUME NEW n \in Candidates(v, t)
             PROVE  n \in Candidates(v, s)
  OBVIOUS
<1>1. /\ n \in Reachable(v, t) /\ HasCapacity(v, n, t) /\ HasPackage(v, n, t)
      /\ HasPackageRoom(v, n, t) /\ HasGpus(v, n, t)
  BY DEF Candidates
<1>2. n \in DOMAIN v /\ n \in Nodes /\ v[n] \in View
  BY <1>1 DEF Reachable, IsView
<1>3. v[n].size \in AnySize
  BY <1>2 DEF View
<1>4. /\ {v[n].size.cpu, v[n].size.memory, v[n].size.packageCpu} \subseteq Nat
      /\ v[n].cpu \in Int /\ v[n].memory \in Int /\ v[n].package \in Int
      /\ {s.cpu, s.memory, s.count, t.cpu, t.memory, t.count} \subseteq Nat
  BY <1>2, <1>3, SizeFields, SpecAssumption DEF View
<1>5. n \in Reachable(v, s)
  BY <1>1 DEF Reachable, AsksNoMore
<1>6. HasCapacity(v, n, s)
  BY <1>1, <1>4 DEF HasCapacity, FreeOn, AsksNoMore
<1>7. HasPackage(v, n, s) /\ HasPackageRoom(v, n, s)
  BY <1>1, <1>4 DEF HasPackage, HasPackageRoom, AsksNoMore
<1>8. HasGpus(v, n, s)
  <2>0. FreeGpus(v, n, s) \subseteq GPUs /\ FreeGpus(v, n, t) \subseteq GPUs
    BY <1>2 DEF FreeGpus, View
  <2>1. CASE s.uuids = {} /\ s.count = 0
    <3>1. Cardinality(FreeGpus(v, n, s)) \in Nat
      BY <2>0, Finite
    <3> QED
      BY <2>1, <3>1 DEF HasGpus
  <2>2. CASE s.uuids # {} /\ s.uuids \subseteq t.uuids
    BY <1>1, <2>2 DEF HasGpus
  <2>3. CASE s.uuids = {} /\ t.uuids = {} /\ s.count <= t.count /\ s.vram <= t.vram
    <3>1. FreeGpus(v, n, t) \subseteq FreeGpus(v, n, s)
      BY <2>0, <2>3, VramAssumption, SpecAssumption DEF FreeGpus
    <3>2. /\ Cardinality(FreeGpus(v, n, t)) <= Cardinality(FreeGpus(v, n, s))
          /\ Cardinality(FreeGpus(v, n, t)) \in Nat
          /\ Cardinality(FreeGpus(v, n, s)) \in Nat
      BY <2>0, <3>1, Finite, FS_Subset
    <3> QED
      BY <1>1, <1>4, <2>3, <3>2 DEF HasGpus
  <2> QED
    BY <2>1, <2>2, <2>3 DEF AsksNoMore
<1> QED
  BY <1>5, <1>6, <1>7, <1>8 DEF Candidates

(* A pass never places a job before an older one that asks for no more     *)
(* (QueuedJobs, Schedule).                                                 *)
THEOREM OrderIsKept == SafetySpec => LighterIsNotOvertaken
<1> DEFINE Kept == \A i, j \in Jobs :
       (/\ job[j].status = "QUEUED" /\ job'[j].status = "ASSIGNED"
        /\ i < j /\ job[i].status = "QUEUED" /\ AsksNoMore(Request[i], Request[j]))
       => i \notin pass.queue \cup pass.waited
<1>1. ASSUME IInv, Next PROVE Kept
  <2> SUFFICES ASSUME NEW i \in Jobs, NEW j \in Jobs, i < j,
                      AsksNoMore(Request[i], Request[j]), job[j].status = "QUEUED",
                      job'[j].status = "ASSIGNED"
               PROVE  i \notin pass.queue \cup pass.waited
    OBVIOUS
  <2>1. PlaceNext
    <3>1. ASSUME NEW k \in Jobs, JobStep(k) PROVE FALSE
      <4>1. job \in [Jobs -> [status : JobStatus \cup {"none"}, node : Nodes \cup {NoNode},
                             attempt : 0 .. MaxChanges + 1]]
        BY <1>1 DEF IInv, TypeOK
      <4> QED
        BY <3>1, <4>1 DEF JobStep, CreateJob, RerunJob, StopRead, StopWrite,
                          StopQueued, Report, MarkLost
    <3>2. ~ \E n \in Nodes : NodeStep(n)
      BY DEF NodeStep, NodeHeartbeat, SetNodeStatus, UpdateNodeMetadata,
             MarkOffline, RemoveNode
    <3>3. ~(ReadQueue \/ ListNodes \/ ListJobs \/ ReadAllocations \/ AbortPass)
      BY DEF ReadQueue, ListNodes, ListJobs, ReadAllocations, AbortPass
    <3> QED
      BY <1>1, <3>1, <3>2, <3>3 DEF Next, SchedulerStep
  <2>2. PICK k \in Oldest(pass.queue) : k \in Jobs /\ \E n : Reserves(k, n)
    BY <1>1, <2>1, Placements
  <2>3. PICK n : Reserves(k, n)
    BY <2>2
  <2>4. k = j
    BY <1>1, <2>2, <2>3, ReservedRows
  <2>5. i \notin pass.queue
    BY <2>4, IdsAssumption DEF Oldest
  <2>6. Candidates(pass.view, Request[j]) # {}
    BY <2>3, <2>4 DEF Reserves
  <2>7. Candidates(pass.view, Request[i]) # {}
    BY <1>1, <2>6, ThePass, LighterFits DEF IsPass
  <2> QED
    BY <1>1, <2>5, <2>7 DEF IInv, WaitedStillWait
<1>2. ASSUME IInv, UNCHANGED vars PROVE [Kept]_vars
  BY <1>2
<1>3. IInv /\ [Next]_vars => [Kept]_vars
  BY <1>1, <1>2
<1> QED
  BY <1>3, InductiveInvariant, PTL DEF SafetySpec, LighterIsNotOvertaken

=============================================================================
