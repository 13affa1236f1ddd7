---------------------------- MODULE MCScheduler ----------------------------
(***************************************************************************)
(* The instance of Scheduler: two nodes, the first with two GPUs of        *)
(* different size and a CPU package, the second with a larger one; an      *)
(* explicit request, and two best-fit requests, the younger for more       *)
(* memory, that compete for processors and GPUs.                           *)
(***************************************************************************)
EXTENDS Scheduler, TLC

MCTotal ==
  1 :> [cpu |-> 4, memory |-> 3, package |-> "socket0", packageCpu |-> 3,
        affinity |-> TRUE]
  @@ 2 :> [cpu |-> 2, memory |-> 2, package |-> "socket1", packageCpu |-> 2,
           affinity |-> TRUE]
(* After a restart with fewer processors, the first node has no topology.  *)
MCSizes ==
  1 :> {MCTotal[1], [MCTotal[1] EXCEPT !.cpu = 3, !.packageCpu = 0, !.affinity = FALSE]}
  @@ 2 :> {MCTotal[2]}
MCInventory == 1 :> {1, 2} @@ 2 :> {3}
MCVram == 1 :> 2 @@ 2 :> 1 @@ 3 :> 3

Automatic == [cpu |-> 2, memory |-> 1, package |-> NoPackage, target |-> NoNode,
              uuids |-> {}, count |-> 1, vram |-> 2, labels |-> {"l"}]
Explicit == [cpu |-> 3, memory |-> 1, package |-> "socket0", target |-> 1,
             uuids |-> {2}, count |-> 1, vram |-> 0, labels |-> {}]
Larger == [Automatic EXCEPT !.memory = 2]
MCRequest == 1 :> Automatic @@ 2 :> Explicit @@ 3 :> Larger
MCLabels == {"l"}

=============================================================================
