---------------------------- MODULE JobLifecycle ----------------------------
(***************************************************************************)
(* What the control plane promises about a job, in the fewest words: who   *)
(* may move it on, and when an execution may begin.  JobStore, with its    *)
(* rows, handlers, retries and sweeps, is shown to implement it.           *)
(***************************************************************************)
EXTENDS Naturals

CONSTANTS Jobs, Nodes, NoNode

VARIABLES
  phase,       \* of every job
  on,          \* the node it was placed on last, or NoNode
  asked,       \* how often a user has asked for an execution
  executions   \* executions begun
vars == <<phase, on, asked, executions>>

Phases == {"absent", "waiting", "placed", "ended", "removed"}

Init ==
  /\ phase = [j \in Jobs |-> "absent"] /\ on = [j \in Jobs |-> NoNode]
  /\ asked = [j \in Jobs |-> 0] /\ executions = [j \in Jobs |-> 0]

Moves(j, from, to) == phase[j] \in from /\ phase' = [phase EXCEPT ![j] = to]
Asks(j) == asked' = [asked EXCEPT ![j] = @ + 1]

(* A user submits a job, or asks for another execution of one that ended. *)
Submit(j) == Moves(j, {"absent"}, "waiting") /\ Asks(j) /\ UNCHANGED <<on, executions>>
Again(j) ==
  /\ Moves(j, {"ended"}, "waiting") /\ Asks(j)
  /\ on' = [on EXCEPT ![j] = NoNode]
  /\ UNCHANGED executions

(* The system: one execution for one request, on one node, to one end.     *)
Place(j, node) ==
  /\ Moves(j, {"waiting"}, "placed")
  /\ on' = [on EXCEPT ![j] = node]
  /\ executions' = [executions EXCEPT ![j] = @ + 1]
  /\ UNCHANGED asked
End(j) == Moves(j, {"placed"}, "ended") /\ UNCHANGED <<on, asked, executions>>

(* A user withdraws, stops or deletes.  The last two are decided on a read *)
(* and written by the job's identifier: they meet it in any phase.         *)
Withdraw(j) == Moves(j, {"waiting"}, "ended") /\ UNCHANGED <<on, asked, executions>>
Stop(j) == Moves(j, Phases \ {"absent"}, "placed") /\ UNCHANGED <<on, asked, executions>>
Remove(j) == Moves(j, Phases \ {"absent"}, "removed") /\ UNCHANGED <<on, asked, executions>>

Next ==
  \E j \in Jobs :
    \/ Submit(j) \/ Again(j) \/ End(j) \/ Withdraw(j) \/ Stop(j) \/ Remove(j)
    \/ \E node \in Nodes : Place(j, node)
Spec == Init /\ [][Next]_vars

=============================================================================
