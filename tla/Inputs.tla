------------------------------- MODULE Inputs -------------------------------
(***************************************************************************)
(* The input files of a job: uploaded with the request that creates it     *)
(* (decodeJobRequest and createJob in internal/httpapi, StoreInput in      *)
(* internal/filestore), described by the manifest in the job's row, and    *)
(* copied by the agent before its container starts and removed when it has *)
(* ended (internal/agent/inputs.go, execute and fail in agent.go).         *)
(*                                                                         *)
(* A file's content is a sequence; its digest is the content itself.       *)
(***************************************************************************)
EXTENDS Naturals, Sequences, FiniteSetsExt

CONSTANTS
  Names,     \* names of parts, as [raw, clean]
  Contents,  \* what a part may hold
  MaxBytes,  \* the limit of a job's inputs
  MaxFiles,  \* the limit of their number
  MaxFaults, \* bound: disk damage, failed calls
  MaxCrashes \* bound: deaths of the agent

VARIABLES
  request,  \* the creating request: step, whether its spec was read, manifest
  stored,   \* the job's input directory on the server: set of [path, content]
  row,      \* the job's row: whether it is there, and the manifest in it
  agent,    \* the goroutine of the attempt: step and files still to copy
  disk,     \* the attempt's input directory: set of [path, content]
  container, told, completed,  \* its state; terminal event taken; journal
  faults, crashes
vars == <<request, stored, row, agent, disk, container, told, completed, faults, crashes>>

NoRow == [there |-> FALSE, manifest |-> <<>>]
File == [path : {n.clean : n \in Names}, content : Contents]
Damaged(content) == [i \in DOMAIN content |-> 0]
Manifest == {files \in Seq(File) : Len(files) <= MaxFiles}
Paths(files) == {f.path : f \in files}
TotalSize(files) == SumFunctionOnSet([f \in files |-> Len(f.content)], files)

TypeOK ==
  /\ request \in [at : {"open", "refused", "done"}, spec : BOOLEAN, manifest : Manifest]
  /\ stored \subseteq [path : {n.clean : n \in Names},
                      content : Contents \cup {Damaged(c) : c \in Contents}]
  /\ disk \subseteq File
  /\ row \in [there : BOOLEAN, manifest : Manifest]
  /\ agent \in [at : {"off", "copy", "prepare", "run", "clean", "report", "fail",
                     "failed", "end"}, todo : Manifest]
  /\ container \in {"none", "running", "ended"} /\ completed \in BOOLEAN
  /\ told \in {"no", "ended", "failed"}
  /\ faults \in 0 .. MaxFaults /\ crashes \in 0 .. MaxCrashes

Init ==
  /\ request = [at |-> "open", spec |-> FALSE, manifest |-> <<>>]
  /\ stored = {} /\ row = NoRow /\ disk = {}
  /\ agent = [at |-> "off", todo |-> <<>>]
  /\ container = "none" /\ told = "no" /\ completed = FALSE /\ faults = 0 /\ crashes = 0

agentVars == <<agent, disk, container, told, completed, crashes>>
Refuse == request' = [request EXCEPT !.at = "refused"] /\ stored' = {} /\ UNCHANGED row

-----------------------------------------------------------------------------
(* The request: its parts in any order. *)

ReadSpec ==
  /\ request.at = "open"
  /\ IF request.spec THEN Refuse
     ELSE request' = [request EXCEPT !.spec = TRUE] /\ UNCHANGED <<stored, row>>
  /\ UNCHANGED <<agentVars, faults>>

(* StoreInput: a new name and room for all of it; what does not fit is not *)
(* kept.                                                                   *)
StoreInput_NoLstat(path, content) == TotalSize(stored) + Len(content) <= MaxBytes
StoreInput_EachFile(path, content) == path \notin Paths(stored) /\ Len(content) <= MaxBytes
StoreInput(path, content) ==
  path \notin Paths(stored) /\ TotalSize(stored) + Len(content) <= MaxBytes
ReadInput(name, content) ==
  /\ request.at = "open"
  /\ LET file == [path |-> name.clean, content |-> content]
     IN IF /\ Len(request.manifest) < MaxFiles
           /\ name.raw \notin Paths(Range(request.manifest))
           /\ StoreInput(name.clean, content)
        THEN /\ stored' = {f \in stored : f.path # name.clean} \cup {file}
             /\ request' = [request EXCEPT !.manifest = Append(@, file)]
             /\ UNCHANGED row
        ELSE Refuse
  /\ UNCHANGED <<agentVars, faults>>

(* The last part; or the client hangs up, the specification is invalid, a  *)
(* secret is missing, the insertion fails.                                 *)
CreateJob ==
  /\ request.at = "open" /\ request.spec
  /\ row' = [there |-> TRUE, manifest |-> request.manifest]
  /\ request' = [request EXCEPT !.at = "done"]
  /\ UNCHANGED <<stored, agentVars, faults>>
RequestFails == request.at = "open" /\ Refuse /\ UNCHANGED <<agentVars, faults>>

(* External: a stored file is damaged; its size stays. *)
Damage(f) ==
  /\ row.there /\ Len(f.content) > 0 /\ faults < MaxFaults /\ faults' = faults + 1
  /\ stored' = (stored \ {f}) \cup {[f EXCEPT !.content = Damaged(@)]}
  /\ UNCHANGED <<request, row, agentVars>>

-----------------------------------------------------------------------------
(* The agent. *)

serverVars == <<request, stored, row>>
Goes(at) == agent' = [agent EXCEPT !.at = at]

(* A delivery starts from an empty directory. *)
materializeInputs ==
  /\ agent.at = "off" /\ row.there /\ told = "no" /\ container = "none" /\ ~completed
  /\ agent' = [at |-> "copy", todo |-> row.manifest] /\ disk' = {}
  /\ UNCHANGED <<serverVars, container, told, completed, faults, crashes>>

(* getInput answers for a path of the manifest with the manifest's digest  *)
(* and size and the stored bytes; downloadInput keeps what matches.        *)
downloadInput_SizeOnly(expected, received) == Len(received) = Len(expected)
downloadInput(expected, received) == received = expected
Copy ==
  /\ agent.at = "copy" /\ agent.todo # <<>>
  /\ LET file == Head(agent.todo)
     IN \E received \in {f.content : f \in {g \in stored : g.path = file.path}} :
          IF downloadInput(file.content, received)
          THEN /\ agent' = [agent EXCEPT !.todo = Tail(@)]
               /\ disk' = {f \in disk : f.path # file.path} \cup {[file EXCEPT !.content = received]}
          ELSE Goes("fail") /\ disk' = {}
  /\ UNCHANGED <<serverVars, container, told, completed, faults, crashes>>
CopyFails ==
  /\ agent.at = "copy" /\ faults < MaxFaults /\ faults' = faults + 1
  /\ Goes("fail") /\ disk' = {}
  /\ UNCHANGED <<serverVars, container, told, completed, crashes>>
Copied ==
  /\ agent.at = "copy" /\ agent.todo = <<>> /\ Goes("prepare")
  /\ UNCHANGED <<serverVars, disk, container, told, completed, faults, crashes>>

(* Pull, create and start the container, or fail on the way. *)
Start ==
  /\ agent.at = "prepare" /\ Goes("run") /\ container' = "running"
  /\ UNCHANGED <<serverVars, disk, told, completed, faults, crashes>>
Fails ==
  /\ agent.at \in {"prepare", "run"} /\ faults < MaxFaults /\ faults' = faults + 1
  /\ Goes("fail") /\ UNCHANGED <<serverVars, disk, container, told, completed, crashes>>

Ended ==
  /\ agent.at = "run" /\ Goes("clean") /\ container' = "ended"
  /\ UNCHANGED <<serverVars, disk, told, completed, faults, crashes>>
removeMaterializedInputs_Later == Goes("report") /\ UNCHANGED disk
removeMaterializedInputs == Goes("report") /\ disk' = {}
Clean ==
  /\ agent.at = "clean" /\ removeMaterializedInputs
  /\ UNCHANGED <<serverVars, container, told, completed, faults, crashes>>

(* The terminal event, and after it the journal and the container.  fail   *)
(* sends its event while the inputs are there and ignores that the         *)
(* container was not removed; the deferred cleanup of execute follows.     *)
Report ==
  /\ agent.at = "report" /\ told' = IF told = "no" THEN "ended" ELSE told
  /\ Goes("end") /\ completed' = TRUE /\ container' = "none"
  /\ UNCHANGED <<serverVars, disk, faults, crashes>>
fail ==
  /\ agent.at = "fail" /\ told' = IF told = "no" THEN "failed" ELSE told
  /\ Goes("failed") /\ completed' = TRUE
  /\ \/ container' = "none" /\ UNCHANGED faults
     \/ faults < MaxFaults /\ faults' = faults + 1 /\ UNCHANGED container
  /\ UNCHANGED <<serverVars, disk, crashes>>
DeferredCleanup ==
  /\ agent.at = "failed" /\ Goes("end") /\ disk' = {}
  /\ UNCHANGED <<serverVars, container, told, completed, faults, crashes>>

(* The agent dies; a restarted one resumes a container it finds.           *)
Crash ==
  /\ agent.at \notin {"off", "end"} /\ crashes < MaxCrashes /\ crashes' = crashes + 1
  /\ Goes("off") /\ UNCHANGED <<serverVars, disk, container, told, completed, faults>>
reconcile ==
  /\ agent.at = "off" /\ container # "none" /\ ~completed /\ Goes("run")
  /\ UNCHANGED <<serverVars, disk, container, told, completed, faults, crashes>>

Next ==
  \/ ReadSpec \/ (\E n \in Names, c \in Contents : ReadInput(n, c)) \/ CreateJob \/ RequestFails
  \/ \E f \in stored : Damage(f)
  \/ materializeInputs \/ Copy \/ CopyFails \/ Copied \/ Start \/ Fails \/ Ended
  \/ Clean \/ Report \/ fail \/ DeferredCleanup \/ Crash \/ reconcile
Spec == Init /\ [][Next]_vars

-----------------------------------------------------------------------------
(* Properties. *)

(* While nothing damages the disk, every file a job's manifest names is    *)
(* stored as the manifest says, and nothing else is, whatever names and    *)
(* parts the creating request used; a refused request leaves no file.      *)
ManifestIsStored ==
  /\ row.there /\ faults = 0 =>
       Range(row.manifest) = stored /\ Len(row.manifest) = Cardinality(stored)
  /\ request.at = "refused" => stored = {}

(* All files of a job together keep the limit. *)
InputLimitKept == TotalSize(stored) <= MaxBytes

(* Until its job has a result, a running container has exactly the files   *)
(* of the manifest, through damaged storage, interrupted copies,           *)
(* redelivery and resumption.                                              *)
RunsOnItsInputs == container = "running" /\ told = "no" => disk = Range(row.manifest)

(* When the end of the program has been reported no input is left on the   *)
(* node, even if the agent dies at that moment.                            *)
NothingLeftAfterResult == told = "ended" => disk = {}

(* The wider promise of the comment in execute: no reported result leaves  *)
(* inputs behind, failures included.                                       *)
NothingLeftAfterFailure == told # "no" /\ agent.at \in {"off", "end"} => disk = {}

(* Why they hold: the inductive invariant.                                 *)

(* The files of a job have different paths, those of its manifest too: the *)
(* two are the same until a file is damaged.                               *)
Apart(files) == \A f, g \in files : f.path = g.path => f = g
NamesAreApart == IsFiniteSet(stored) /\ Apart(stored) /\ Apart(Range(request.manifest))

(* A row is there when the request is done; before, nothing has begun.     *)
RowIsOfRequest ==
  /\ row.there <=> request.at = "done"
  /\ row.there => row.manifest = request.manifest
  /\ ~row.there => agent.at = "off" /\ disk = {} /\ container = "none" /\ told = "no"
  /\ request.at = "open" => /\ Range(request.manifest) = stored
                            /\ Len(request.manifest) = Cardinality(stored)

(* What is not copied yet is still to copy. *)
CopyGoesOn ==
  /\ agent.at \in {"copy", "prepare"} => container = "none" /\ told = "no"
  /\ agent.at = "copy" => disk \cup Range(agent.todo) = Range(row.manifest)
  /\ agent.at = "prepare" => disk = Range(row.manifest)

(* After the end of the program its inputs go before it is reported. *)
EndIsCleaned ==
  /\ agent.at \in {"clean", "report"} => container = "ended"
  /\ agent.at = "report" => disk = {}
  /\ agent.at = "failed" => told # "no"
  /\ agent.at = "run" => container # "none"

IInv ==
  /\ TypeOK /\ ManifestIsStored /\ InputLimitKept /\ RunsOnItsInputs
  /\ NothingLeftAfterResult /\ NamesAreApart /\ RowIsOfRequest
  /\ CopyGoesOn /\ EndIsCleaned

=============================================================================
