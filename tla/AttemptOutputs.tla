--------------------------- MODULE AttemptOutputs ---------------------------
(***************************************************************************)
(* The outputs of one attempt, uploaded after its container has ended:     *)
(* uploadOutputs in internal/agent/agent.go, putOutput in                  *)
(* internal/httpapi/api.go, appendOutput and OpenAttemptOutput in          *)
(* internal/filestore/filestore.go, and the manifest the terminal event    *)
(* carries.  A file is a number of units, uploaded one by one; the server  *)
(* has a prefix of it.                                                     *)
(***************************************************************************)
EXTENDS Integers, FiniteSetsExt, Functions

CONSTANTS
  Files,      \* the names: 1, 2, ..., in the order of a directory
  MaxLength,  \* bound: units of a file
  MaxBytes,   \* the job's output limit
  MaxFaults,  \* bound: requests and answers lost, failures of the agent
  MaxCrashes  \* bound: deaths of the agent

VARIABLES
  disk,      \* the output directory the container left: lengths
  stored,    \* the attempt's output directory on the server: lengths, or Absent
  pass,      \* uploadOutputs: what is left of the walk, the offset, the list
  manifest,  \* the list of the last terminal event the server has taken, or None
  owner,     \* the attempt is the job's current one
  faults, crashes,
  lost       \* history: a transfer of this attempt was cut off, or the agent
             \* reported a failure of its own
vars == <<disk, stored, pass, manifest, owner, faults, crashes, lost>>

Absent == -1
None == {-1}
Idle == [at |-> "off", todo |-> {}, offset |-> 0, list |-> {}]
Length(f) == IF stored[f] = Absent THEN 0 ELSE stored[f]
Used == SumFunctionOnSet([f \in Files |-> Length(f)], Files)

TypeOK ==
  /\ DOMAIN disk \subseteq Files /\ disk \in [DOMAIN disk -> 0 .. MaxLength]
  /\ stored \in [Files -> {Absent} \cup 0 .. MaxLength]
  /\ pass \in [at : {"off", "walk", "report", "done"}, todo : SUBSET DOMAIN disk,
               offset : 0 .. MaxLength, list : SUBSET DOMAIN disk]
  /\ manifest = None \/ manifest \subseteq DOMAIN disk
  /\ owner \in BOOLEAN /\ faults \in 0 .. MaxFaults /\ crashes \in 0 .. MaxCrashes
  /\ lost \in BOOLEAN

Walk == [at |-> "walk", todo |-> DOMAIN disk, offset |-> 0, list |-> {}]
Init ==
  /\ disk \in UNION {[S -> 0 .. MaxLength] : S \in SUBSET Files}
  /\ stored = [f \in Files |-> Absent]
  /\ pass = Walk
  /\ manifest = None /\ owner = TRUE /\ faults = 0 /\ crashes = 0 /\ lost = FALSE

(* The directory is walked in the order of its names. *)
File == Min(pass.todo)

(* appendOutput: the file is created before its size is compared, and a    *)
(* chunk over the limit is cut.                                            *)
appendOutput_Unlimited(f, offset) ==
  IF ~owner THEN [length |-> stored[f], ok |-> FALSE]
  ELSE IF Length(f) # offset THEN [length |-> Length(f), ok |-> FALSE]
  ELSE [length |-> offset + 1, ok |-> TRUE]
appendOutput_OneShort(f, offset) ==
  IF ~owner THEN [length |-> stored[f], ok |-> FALSE]
  ELSE IF Length(f) # offset \/ Used + 1 >= MaxBytes THEN [length |-> Length(f), ok |-> FALSE]
  ELSE [length |-> offset + 1, ok |-> TRUE]
appendOutput(f, offset) ==
  IF ~owner THEN [length |-> stored[f], ok |-> FALSE]
  ELSE IF Length(f) # offset \/ Used >= MaxBytes THEN [length |-> Length(f), ok |-> FALSE]
  ELSE [length |-> offset + 1, ok |-> TRUE]

(* A file is done: an empty one is listed without a request.  An error     *)
(* ends the walk with the list so far.                                     *)
Listed == [pass EXCEPT !.todo = @ \ {File}, !.offset = 0, !.list = @ \cup {File}]
Abort_ListsFile == pass' = [pass EXCEPT !.at = "report", !.list = @ \cup {File}]
Abort == pass' = [pass EXCEPT !.at = "report"]

UploadChunk ==
  /\ pass.at = "walk" /\ pass.todo # {} /\ pass.offset < disk[File]
  /\ LET reply == appendOutput(File, pass.offset)
     IN /\ stored' = [stored EXCEPT ![File] = reply.length]
        /\ IF reply.ok THEN pass' = [pass EXCEPT !.offset = @ + 1] ELSE Abort
  /\ UNCHANGED <<disk, manifest, owner, faults, crashes, lost>>
FileDone ==
  /\ pass.at = "walk" /\ pass.todo # {} /\ pass.offset = disk[File]
  /\ pass' = Listed
  /\ UNCHANGED <<disk, stored, manifest, owner, faults, crashes, lost>>
WalkDone ==
  /\ pass.at = "walk" /\ pass.todo = {}
  /\ pass' = [pass EXCEPT !.at = "report"]
  /\ UNCHANGED <<disk, stored, manifest, owner, faults, crashes, lost>>

(* The request never arrives, or its answer does not. *)
ChunkLost ==
  /\ pass.at = "walk" /\ pass.todo # {} /\ pass.offset < disk[File] /\ faults < MaxFaults
  /\ stored' \in {stored, [stored EXCEPT ![File] = appendOutput(File, pass.offset).length]}
  /\ Abort /\ faults' = faults + 1 /\ lost' = TRUE
  /\ UNCHANGED <<disk, manifest, owner, crashes>>

(* SetAttemptOutputs: a terminal event of the current attempt replaces the *)
(* list, of which there is none in the events of fail.  One that would     *)
(* change the result, or never arrives, leaves it.                         *)
SetAttemptOutputs(list) == manifest' \in {manifest, IF owner THEN list ELSE manifest}

Report ==
  /\ pass.at = "report" /\ SetAttemptOutputs(pass.list)
  /\ pass' = [pass EXCEPT !.at = "done"]
  /\ UNCHANGED <<disk, stored, owner, faults, crashes, lost>>

(* fail: before the walk, or after it, where the inputs cannot be removed. *)
Fail ==
  /\ pass.at \in {"off", "report"} \/ pass = Walk
  /\ faults < MaxFaults /\ faults' = faults + 1
  /\ SetAttemptOutputs({}) /\ lost' = TRUE
  /\ pass' = [pass EXCEPT !.at = "done"]
  /\ UNCHANGED <<disk, stored, owner, crashes>>

Superseded ==
  /\ owner /\ owner' = FALSE
  /\ UNCHANGED <<disk, stored, pass, manifest, faults, crashes, lost>>

(* Nothing of a pass survives a crash.  The next one begins again, unless  *)
(* the server has the result by now and refuses to take the job for        *)
(* RUNNING (container_started).                                            *)
Crash ==
  /\ pass.at # "off" /\ crashes < MaxCrashes /\ crashes' = crashes + 1
  /\ pass' = Idle /\ lost' = (lost \/ \E f \in Files : stored[f] > 0)
  /\ UNCHANGED <<disk, stored, manifest, owner, faults>>
Restart ==
  /\ pass.at = "off"
  /\ pass' = IF owner /\ manifest = None THEN Walk ELSE [pass EXCEPT !.at = "done"]
  /\ UNCHANGED <<disk, stored, manifest, owner, faults, crashes, lost>>

Next ==
  \/ UploadChunk \/ FileDone \/ WalkDone \/ ChunkLost
  \/ Report \/ Fail \/ Superseded \/ Crash \/ Restart
Spec == Init /\ [][Next]_vars

-----------------------------------------------------------------------------
(* Properties. *)

(* What the terminal event lists was uploaded whole, after whatever was    *)
(* lost, cut by the limit, or begun a second time.                         *)
ListedIsStored ==
  manifest # None => \A f \in manifest : disk[f] > 0 => stored[f] = disk[f]

(* An attempt that lost nothing and fits lists everything it wrote, however *)
(* often its terminal event is taken and the agent begins again.           *)
Written(f) == IF f \in DOMAIN disk THEN disk[f] ELSE 0
Fits == SumFunctionOnSet([f \in Files |-> Written(f)], Files) <= MaxBytes
EverythingIsListed == manifest # None /\ ~lost /\ Fits => manifest = DOMAIN disk

(* The limit holds over all files of the attempt. *)
OutputLimitKept == Used <= MaxBytes

(* Why they hold: the inductive invariant.                                 *)

(* The server has no more of a file than there is, of the one being        *)
(* uploaded as much as was sent, and what the pass has listed is whole.    *)
StoredIsWritten ==
  /\ \A f \in Files : Length(f) <= Written(f)
  /\ (pass.at = "walk" /\ pass.todo # {}) =>
       pass.offset <= disk[File] /\ (pass.offset > 0 => stored[File] = pass.offset)
  /\ \A f \in pass.list : disk[f] > 0 => stored[f] = disk[f]

(* A pass that lost nothing has listed what it is past, and the server has *)
(* nothing of what is ahead.                                               *)
Ahead ==
  /\ pass.list = DOMAIN disk \ pass.todo
  /\ pass.todo # {} => Length(File) = pass.offset
  /\ \A f \in pass.todo : f # File => Length(f) = 0
PassIsComplete ==
  owner /\ ~lost /\ Fits =>
    /\ pass.at = "walk" => Ahead
    /\ pass.at = "report" => pass.list = DOMAIN disk
    /\ pass.at = "off" => \A f \in Files : Length(f) = 0

IInv ==
  /\ TypeOK /\ ListedIsStored /\ EverythingIsListed /\ OutputLimitKept
  /\ StoredIsWritten /\ PassIsComplete

=============================================================================
