------------------------------ MODULE Attempt ------------------------------
(***************************************************************************)
(* The components around one attempt - access of its node, its inputs, its *)
(* logs, outputs, checkpoints and events, the redactor and the keys of     *)
(* requests - share no state the models could race on, so they are checked *)
(* and proved about as one system: the initial state picks the component   *)
(* that moves, and the others stay as they began.                          *)
(***************************************************************************)
EXTENDS Integers, Sequences, FiniteSets

CONSTANTS
  Tokens, NodeIds, Nobody, Revoked, MaxIssued,  \* NodeAccess
  Bytes, Mask, SecretsOfJobs, MaxLog,           \* Redactor
  MaxFrames,                                    \* AttemptLogs
  OutputFiles, MaxLength,                       \* AttemptOutputs
  Syncs, CheckpointFiles, MaxWrites,            \* Checkpoints
  MaxServerEvents,                              \* EventLog
  Requests, Other,                              \* Idempotency
  InputParts, InputContents, MaxInputs,         \* Inputs
  Limit,           \* what each component may store at most
  Faults, Crashes  \* bounds: the faults and deaths each component meets

(* Nobody is no node and no credential (credentials are numbered).         *)
ASSUME AccessAssumption ==
  /\ MaxIssued \in Nat /\ Crashes["access"] \in Nat
  /\ Nobody \notin NodeIds \cup (1 .. MaxIssued)
(* What the events' faults and the server's own events are bounded by.     *)
ASSUME FaultsAssumption == MaxServerEvents \in Nat /\ Faults["events"] \in Nat
(* The files of an output directory and the synchronisations are finitely  *)
(* many.                                                                   *)
ASSUME CheckpointsAssumption ==
  /\ IsFiniteSet(Syncs) /\ IsFiniteSet(CheckpointFiles)
  /\ MaxWrites \in Nat /\ Limit["checkpoints"] \in Nat /\ Faults["checkpoints"] \in Nat
(* An input is a sequence of units, the limits are natural numbers.        *)
ASSUME InputsAssumption ==
  /\ InputContents \subseteq Seq(Nat) /\ MaxInputs \in Nat
  /\ Limit["inputs"] \in Nat /\ Faults["inputs"] \in Nat /\ Crashes["inputs"] \in Nat
(* A job's secrets are not empty (newRedactor leaves empty ones out), and  *)
(* the character that hides them is in none of them.                       *)
ASSUME SecretsAssumption ==
  /\ MaxLog \in Nat
  /\ \A S \in SecretsOfJobs : IsFiniteSet(S) /\ S \subseteq Seq(Bytes \ {Mask}) \ {<<>>}
(* What the logs are bounded by. *)
ASSUME LogsAssumption ==
  /\ MaxFrames \in Nat /\ Limit["logs"] \in Nat
  /\ Faults["logs"] \in Nat /\ Crashes["logs"] \in Nat
(* The files of an output directory are numbered in the order of their     *)
(* names.                                                                  *)
ASSUME OutputsAssumption ==
  /\ IsFiniteSet(OutputFiles) /\ OutputFiles \subseteq Nat /\ MaxLength \in Nat
  /\ Limit["outputs"] \in Nat /\ Faults["outputs"] \in Nat /\ Crashes["outputs"] \in Nat
(* The tries of a request are numbered; 0 stands for no job.              *)
ASSUME RequestsAssumption == Requests \subseteq Nat \ {0}

VARIABLES
  part,   \* the component that moves
  token, accessRow, accessAgent, accessDisk, call, issued, accessCrashes,
  unsaved,
  secrets, written, pending, safe, ended,
  emitted, running, keep, logsAgent, record, logsJournal, local, server,
  logsOwner, logsFaults, logsCrashes,
  outputsDisk, outputsStored, outputsPass, manifest, outputsOwner,
  outputsFaults, outputsCrashes, lost,
  checkpointsDisk, writes, sync, staging, promoted, checkpointsPass,
  active, checkpointsFaults, rounds, tainted,
  log, status, eventsAgent, eventsJournal, viewer, extra, eventsFaults,
  acked, died,
  key, keysRequest, jobs, answer,
  inputsRequest, inputsStored, inputsRow, inputsAgent, inputsDisk,
  container, told, completed, inputsFaults, inputsCrashes

Access == INSTANCE NodeAccess WITH
  None <- Nobody, MaxCrashes <- Crashes["access"], row <- accessRow,
  agent <- accessAgent, disk <- accessDisk, crashes <- accessCrashes
accessVars == <<token, accessRow, accessAgent, accessDisk, call, issued,
  accessCrashes, unsaved>>
Redaction == INSTANCE Redactor WITH
  Jobs <- SecretsOfJobs
redactorVars == <<secrets, written, pending, safe, ended>>
Logs == INSTANCE AttemptLogs WITH
  MaxSize <- Limit["logs"], MaxFaults <- Faults["logs"],
  MaxCrashes <- Crashes["logs"],
  agent <- logsAgent, journal <- logsJournal, owner <- logsOwner,
  faults <- logsFaults, crashes <- logsCrashes
logsVars == <<emitted, running, keep, logsAgent, record, logsJournal,
  local, server, logsOwner, logsFaults, logsCrashes>>
Outputs == INSTANCE AttemptOutputs WITH
  Files <- OutputFiles, MaxBytes <- Limit["outputs"],
  MaxFaults <- Faults["outputs"], MaxCrashes <- Crashes["outputs"],
  disk <- outputsDisk, stored <- outputsStored,
  pass <- outputsPass, owner <- outputsOwner, faults <- outputsFaults,
  crashes <- outputsCrashes
outputsVars == <<outputsDisk, outputsStored, outputsPass, manifest,
  outputsOwner, outputsFaults, outputsCrashes, lost>>
Checkpointing == INSTANCE Checkpoints WITH
  Files <- CheckpointFiles, MaxFaults <- Faults["checkpoints"],
  MaxBytes <- Limit["checkpoints"], disk <- checkpointsDisk, pass <- checkpointsPass,
  faults <- checkpointsFaults
checkpointsVars == <<checkpointsDisk, writes, sync, staging, promoted,
  checkpointsPass, active, checkpointsFaults, rounds, tainted>>
Events == INSTANCE EventLog WITH
  MaxFaults <- Faults["events"], agent <- eventsAgent,
  journal <- eventsJournal, faults <- eventsFaults
eventsVars == <<log, status, eventsAgent, eventsJournal, viewer, extra,
  eventsFaults, acked, died>>
Keys == INSTANCE Idempotency WITH
  request <- keysRequest
keysVars == <<key, keysRequest, jobs, answer>>
InputFiles == INSTANCE Inputs WITH
  Names <- InputParts, Contents <- InputContents, MaxFiles <- MaxInputs,
  MaxBytes <- Limit["inputs"], MaxFaults <- Faults["inputs"],
  MaxCrashes <- Crashes["inputs"],
  request <- inputsRequest, stored <- inputsStored, row <- inputsRow,
  agent <- inputsAgent, disk <- inputsDisk, faults <- inputsFaults,
  crashes <- inputsCrashes
inputsVars == <<inputsRequest, inputsStored, inputsRow, inputsAgent,
  inputsDisk, container, told, completed, inputsFaults, inputsCrashes>>

Init ==
  /\ part \in {"access", "redactor", "logs", "outputs", "checkpoints",
      "events", "keys", "inputs"}
  /\ Access!Init /\ Redaction!Init /\ Logs!Init /\ Outputs!Init
  /\ Checkpointing!Init /\ Events!Init /\ Keys!Init /\ InputFiles!Init
  /\ part # "redactor" => secrets = <<>>
  /\ part # "logs" => keep = 0
  /\ part # "outputs" => DOMAIN outputsDisk = {}
  /\ part # "events" => eventsAgent.result = "SUCCEEDED"

Next ==
  \/ part = "access" /\ Access!Next
     /\ UNCHANGED <<part, redactorVars, logsVars, outputsVars,
         checkpointsVars, eventsVars, keysVars, inputsVars>>
  \/ part = "redactor" /\ Redaction!Next
     /\ UNCHANGED <<part, accessVars, logsVars, outputsVars,
         checkpointsVars, eventsVars, keysVars, inputsVars>>
  \/ part = "logs" /\ Logs!Next
     /\ UNCHANGED <<part, accessVars, redactorVars, outputsVars,
         checkpointsVars, eventsVars, keysVars, inputsVars>>
  \/ part = "outputs" /\ Outputs!Next
     /\ UNCHANGED <<part, accessVars, redactorVars, logsVars,
         checkpointsVars, eventsVars, keysVars, inputsVars>>
  \/ part = "checkpoints" /\ Checkpointing!Next
     /\ UNCHANGED <<part, accessVars, redactorVars, logsVars, outputsVars,
         eventsVars, keysVars, inputsVars>>
  \/ part = "events" /\ Events!Next
     /\ UNCHANGED <<part, accessVars, redactorVars, logsVars, outputsVars,
         checkpointsVars, keysVars, inputsVars>>
  \/ part = "keys" /\ Keys!Next
     /\ UNCHANGED <<part, accessVars, redactorVars, logsVars, outputsVars,
         checkpointsVars, eventsVars, inputsVars>>
  \/ part = "inputs" /\ InputFiles!Next
     /\ UNCHANGED <<part, accessVars, redactorVars, logsVars, outputsVars,
         checkpointsVars, eventsVars, keysVars>>

vars == <<part, accessVars, redactorVars, logsVars, outputsVars,
  checkpointsVars, eventsVars, keysVars, inputsVars>>
Spec == Init /\ [][Next]_vars

-----------------------------------------------------------------------------
(* Properties: of each component its types and the conjunction of what its *)
(* module states.                                                          *)

(* An enrollment token brings one node into the registry, a deleted node   *)
(* never gets a credential again, and an agent keeps its access through a  *)
(* lost answer to a rotation and through its own death.                    *)
AccessIsKept ==
  /\ Access!IInv
  /\ Access!OneNodePerToken
  /\ Access!DeletedKeepsNoCredential
  /\ Access!OneLostReplyIsSurvived
  /\ Access!AccessSurvivesRestart

(* However frames cut the log, no secret is uploaded whole, nothing but    *)
(* secrets is hidden, no offset moves, and masking frame by frame is       *)
(* masking the whole log.                                                  *)
OnlySecretsAreHidden ==
  /\ Redaction!IInv
  /\ Redaction!NoSecretGetsThrough
  /\ Redaction!FramingDoesNotMatter
  /\ Redaction!OnlySecretsHidden

(* The server's copy of a log has no hole, no repetition and not more than *)
(* the limit, what the order file announces can be read, and in the end    *)
(* the combined log is the container's, frame for frame.                   *)
LogIsTheContainers ==
  /\ Logs!IInv
  /\ Logs!ServerHasPrefix
  /\ Logs!LogLimitKept
  /\ Logs!AnnouncedIsReadable
  /\ Logs!CombinedLogIsComplete

(* The manifest of the outputs lists what was stored whole, and everything *)
(* that was written if nothing was lost; the limit holds over all files.   *)
ManifestListsTheOutputs ==
  /\ Outputs!IInv
  /\ Outputs!ListedIsStored
  /\ Outputs!EverythingIsListed
  /\ Outputs!OutputLimitKept

(* A confirmed checkpoint is on the disk with the sizes of its manifest,   *)
(* and every file of one made in one pass is of one write.                 *)
CheckpointIsWhole ==
  /\ Checkpointing!IInv
  /\ Checkpointing!ConfirmedIsPromoted
  /\ Checkpointing!ManifestIsOfGeneration
  /\ Checkpointing!FilesAreWhole

(* A promoted checkpoint never changes. *)
PromotedIsFinal == Checkpointing!PromotedIsFinal

(* The events of a job are numbered without gap or repetition, none is     *)
(* logged twice or out of order, and an acknowledged one is in the log.    *)
EventsAreLoggedOnce ==
  /\ Events!IInv
  /\ Events!OneNumbering
  /\ Events!NoEventTwice
  /\ Events!AcknowledgedIsLogged

(* However often an operation is tried under a key, one job comes of it,   *)
(* and every answer is of that job.                                        *)
KeyGivesOneJob ==
  /\ Keys!IInv
  /\ Keys!OneJobPerKey
  /\ Keys!AnswersAgree

(* The stored inputs are those of the manifest and keep the limit, a       *)
(* container runs on exactly these, and when its end is reported none is   *)
(* left on the node.                                                       *)
JobRunsOnItsInputs ==
  /\ InputFiles!IInv
  /\ InputFiles!ManifestIsStored
  /\ InputFiles!InputLimitKept
  /\ InputFiles!RunsOnItsInputs
  /\ InputFiles!NothingLeftAfterResult

=============================================================================
