------------------------------ MODULE JobTypes ------------------------------
(***************************************************************************)
(* The status vocabulary of a job and the two predicates every other part  *)
(* of the control plane consults (internal/domain/types.go).  The statuses *)
(* are the strings the database stores.                                    *)
(***************************************************************************)

JobStatus == {"QUEUED", "ASSIGNED", "PULLING_IMAGE", "STARTING", "RUNNING",
              "STOPPING", "CANCELLED", "SUCCEEDED", "FAILED", "LOST",
              "DELETING", "DELETED"}

(* The results of an execution: what a rerun starts from. *)
Terminal == {"SUCCEEDED", "FAILED", "CANCELLED"}

(* A job in one of these statuses holds its reservation. *)
Active == {"ASSIGNED", "PULLING_IMAGE", "STARTING", "RUNNING", "STOPPING",
           "LOST"}

IsActive(status) == status \in Active

(* The statuses an agent reports in an event. *)
Reported == {"PULLING_IMAGE", "STARTING", "RUNNING"} \cup Terminal

(* The transition table, one row per source status. *)
Allowed ==
  [s \in JobStatus |->
     CASE s = "QUEUED"        -> {"ASSIGNED", "CANCELLED", "DELETING"}
       [] s = "ASSIGNED"      -> {"PULLING_IMAGE", "STARTING", "RUNNING",
                                  "STOPPING", "FAILED", "LOST"}
       [] s = "PULLING_IMAGE" -> {"STARTING", "STOPPING", "FAILED", "LOST"}
       [] s = "STARTING"      -> {"RUNNING", "STOPPING", "FAILED", "LOST"}
       [] s = "RUNNING"       -> {"STOPPING", "SUCCEEDED", "FAILED", "LOST"}
       [] s = "STOPPING"      -> {"CANCELLED", "FAILED", "LOST"}
       [] s = "LOST"          -> {"RUNNING", "STOPPING"} \cup Terminal
       [] s \in Terminal      -> {"DELETING"}
       [] s = "DELETING"      -> {"DELETED"}
       [] OTHER               -> {}]

CanTransition(from, to) == from = to \/ to \in Allowed[from]

=============================================================================
