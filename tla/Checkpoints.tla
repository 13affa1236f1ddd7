----------------------------- MODULE Checkpoints -----------------------------
(***************************************************************************)
(* Checkpoint synchronisation of one attempt: a request of the SDK         *)
(* (sdkCheckpoint), the agent's pass over the output directory while the   *)
(* program may go on writing it (startCheckpointSync, uploadCheckpoint),   *)
(* the staging directory and its promotion (AppendCheckpoint,              *)
(* ConfirmCheckpoint), and the row that makes it the confirmed one.        *)
(*                                                                         *)
(* A file's content is a sequence of units, each named by the write it     *)
(* comes from; a write stands for its modification time too.               *)
(***************************************************************************)
EXTENDS Integers, Sequences, FiniteSets, Functions

CONSTANTS
  Syncs,      \* the synchronisations the program may ask for: 1, 2, ...
  Files,      \* the names it writes: 1, 2, ..., in the order of a directory
  MaxWrites,  \* bound: writes and removals
  MaxFaults,  \* bound: lost requests and answers, deaths of agent or server
  MaxBytes    \* the job's output limit

VARIABLES
  disk,      \* the output directory: the content of each file, or Absent
  writes,
  sync,      \* rows of checkpoint_syncs: state and manifest
  staging, promoted,  \* the directories on the server
  pass,      \* the agent's pass
  active,    \* the job is active and the attempt its current one
  faults,
  rounds, tainted  \* history: passes over a sync, and syncs a fault has hit
vars == <<disk, writes, sync, staging, promoted, pass, active, faults, rounds, tainted>>

Absent == <<0>>
NoFiles == [f \in {} |-> <<>>]
NoPass == [at |-> "idle", sync |-> 0, todo |-> {}, file |-> 0, size |-> 0, write |-> 0,
           offset |-> 0, manifest |-> NoFiles]
Names(dir) == {f \in DOMAIN dir : dir[f] # Absent}
SizesOf(dir) == [f \in DOMAIN dir |-> Len(dir[f])]
Size(dir) == SumFunctionOnSet(SizesOf(dir), DOMAIN dir)
Content == Seq(1 .. MaxWrites)
IsDirectory(d) == DOMAIN d \subseteq Files /\ d \in [DOMAIN d -> Content]
IsManifest(m) == DOMAIN m \subseteq Files /\ m \in [DOMAIN m -> Nat]

(* Staging of every sync and the promoted generations count.              *)
Used == SumFunctionOnSet([i \in Syncs |-> Size(staging[i]) + Size(promoted[i].files)], Syncs)

(* The limit on what a job may store is a part of it. *)
TypeOK ==
  /\ disk \in [Files -> {Absent} \cup Content]
  /\ writes \in 0 .. MaxWrites /\ faults \in 0 .. MaxFaults
  /\ DOMAIN sync = Syncs /\ DOMAIN staging = Syncs /\ DOMAIN promoted = Syncs
  /\ \A i \in Syncs : /\ sync[i].state \in {"none", "pending", "confirmed"}
                      /\ IsManifest(sync[i].manifest)
                      /\ IsDirectory(staging[i]) /\ IsDirectory(promoted[i].files)
                      /\ promoted[i].there \in BOOLEAN
  /\ pass \in [at : {"idle", "file", "send", "stat", "complete", "record"},
               sync : Syncs \cup {0}, todo : SUBSET Files, file : Files \cup {0},
               size : Nat, write : 0 .. MaxWrites, offset : Nat,
               manifest : {pass.manifest}]
  /\ IsManifest(pass.manifest)
  /\ active \in BOOLEAN /\ rounds \in [Syncs -> 0 .. 2] /\ tainted \subseteq Syncs
  /\ Used <= MaxBytes

Init ==
  /\ disk = [f \in Files |-> Absent] /\ writes = 0
  /\ sync = [i \in Syncs |-> [state |-> "none", manifest |-> NoFiles]]
  /\ staging = [i \in Syncs |-> NoFiles]
  /\ promoted = [i \in Syncs |-> [there |-> FALSE, files |-> NoFiles]]
  /\ pass = NoPass /\ active = TRUE /\ faults = 0
  /\ rounds = [i \in Syncs |-> 0] /\ tainted = {}

-----------------------------------------------------------------------------
(* The program. *)

(* It rewrites a file in place, at most two units long, or removes it.     *)
WriteFile(f) ==
  /\ active /\ writes < MaxWrites /\ writes' = writes + 1
  /\ \E n \in 0 .. 2 : disk' = [disk EXCEPT ![f] = [k \in 1 .. n |-> writes + 1]]
  /\ UNCHANGED <<sync, staging, promoted, pass, active, faults, rounds, tainted>>
RemoveFile(f) ==
  /\ active /\ writes < MaxWrites /\ writes' = writes + 1
  /\ disk[f] # Absent /\ disk' = [disk EXCEPT ![f] = Absent]
  /\ UNCHANGED <<sync, staging, promoted, pass, active, faults, rounds, tainted>>

(* sdkCheckpoint *)
Request(i) ==
  /\ active /\ sync[i].state = "none" /\ \A k \in Syncs : k < i => sync[k].state # "none"
  /\ sync' = [sync EXCEPT ![i] = [state |-> "pending", manifest |-> NoFiles]]
  /\ UNCHANGED <<disk, writes, staging, promoted, pass, active, faults, rounds, tainted>>

(* The job ends, or another attempt takes its place. *)
Inactive ==
  /\ active /\ active' = FALSE
  /\ UNCHANGED <<disk, writes, sync, staging, promoted, pass, faults, rounds, tainted>>

-----------------------------------------------------------------------------
(* The agent.  Pending syncs come with every poll; one pass runs at a time.*)

Begin(i) ==
  /\ pass.at = "idle" /\ active /\ sync[i].state = "pending"
  /\ pass' = [NoPass EXCEPT !.at = "file", !.sync = i,
                            !.todo = Names(disk)]
  /\ rounds' = [rounds EXCEPT ![i] = IF @ < 2 THEN @ + 1 ELSE 2]
  /\ UNCHANGED <<disk, writes, sync, staging, promoted, active, faults, tainted>>

(* The next file of the directory as it was read, in its order; one that   *)
(* has gone since ends the pass.                                           *)
File == pass.file
Written(content) == IF content = <<>> THEN 0 ELSE content[Len(content)]
GiveUp == pass' = NoPass
NextFile ==
  /\ pass.at = "file"
  /\ \/ pass.todo = {} /\ pass' = [pass EXCEPT !.at = "complete"]
     \/ \E f \in pass.todo :
          /\ \A g \in pass.todo : f <= g
          /\ IF disk[f] = Absent THEN GiveUp
             ELSE pass' = [pass EXCEPT !.at = IF disk[f] = <<>> THEN "stat" ELSE "send",
                                       !.file = f, !.size = Len(disk[f]), !.offset = 0,
                                       !.write = Written(disk[f])]
  /\ UNCHANGED <<disk, writes, sync, staging, promoted, active, faults, rounds, tainted>>

(* putCheckpoint and AppendCheckpoint: the offset must be the staged size, *)
(* which is what a refusal answers.  Staging of every sync and the         *)
(* promoted generations count against the limit; the attempt's own         *)
(* outputs, kept elsewhere, do not.                                        *)
Staged(i, f) == IF f \in DOMAIN staging[i] THEN staging[i][f] ELSE <<>>
Authorised(i) == active
AppendCheckpoint(i, f, offset, data) ==
  IF ~Authorised(i) \/ sync[i].state = "confirmed" THEN [staged |-> Staged(i, f), next |-> 0]
  ELSE IF Len(Staged(i, f)) # offset
       THEN [staged |-> Staged(i, f), next |-> Len(Staged(i, f))]
  ELSE IF Used >= MaxBytes THEN [staged |-> Staged(i, f), next |-> offset]
  ELSE [staged |-> Staged(i, f) \o data, next |-> offset + Len(data)]

Staging(i, f, content) ==
  staging' = [staging EXCEPT ![i] = [g \in DOMAIN @ \cup {f} |-> IF g = f THEN content ELSE @[g]]]

(* One chunk, read from the file as it is now.  A chunk cut short by the   *)
(* program, an offset that makes no progress or one beyond the file's size *)
(* ends the pass; an offset further on is where to continue, whoever put   *)
(* it there.                                                               *)
Send ==
  /\ pass.at = "send"
  /\ IF disk[File] = Absent \/ Len(disk[File]) < pass.offset + 1 \/ disk[File] = <<>>
     THEN GiveUp /\ UNCHANGED staging
     ELSE LET data == <<disk[File][pass.offset + 1]>>
              reply == AppendCheckpoint(pass.sync, File, pass.offset, data)
          IN /\ IF Authorised(pass.sync) /\ sync[pass.sync].state = "pending"
                THEN Staging(pass.sync, File, reply.staged) ELSE UNCHANGED staging
             /\ IF reply.next <= pass.offset \/ reply.next > pass.size THEN GiveUp
                ELSE pass' = [pass EXCEPT !.offset = reply.next,
                                          !.at = IF reply.next = pass.size THEN "stat" ELSE "send"]
  /\ UNCHANGED <<disk, writes, sync, promoted, active, faults, rounds, tainted>>

(* The file must be as it was when the pass came to it. *)
Unchanged_SizeOnly == disk[File] # Absent /\ Len(disk[File]) = pass.size
Unchanged == disk[File] # Absent /\ Len(disk[File]) = pass.size /\ Written(disk[File]) = pass.write
Stat ==
  /\ pass.at = "stat"
  /\ IF Unchanged
     THEN pass' = [pass EXCEPT !.at = "file", !.todo = @ \ {File}, !.file = 0,
            !.manifest = [g \in DOMAIN @ \cup {File} |-> IF g = File THEN pass.size ELSE @[g]]]
     ELSE GiveUp
  /\ UNCHANGED <<disk, writes, sync, staging, promoted, active, faults, rounds, tainted>>

-----------------------------------------------------------------------------
(* completeCheckpoint: the directory is promoted, then the row confirmed.  *)

ConfirmCheckpoint_Overwrites(i, manifest) ==
  /\ SizesOf(staging[i]) = manifest
  /\ promoted' = [promoted EXCEPT ![i] = [there |-> TRUE, files |-> staging[i]]]
  /\ staging' = [staging EXCEPT ![i] = NoFiles]
ConfirmCheckpoint_Unchecked(i, manifest) ==
  IF promoted[i].there THEN UNCHANGED <<promoted, staging>>
  ELSE /\ promoted' = [promoted EXCEPT ![i] = [there |-> TRUE, files |-> staging[i]]]
       /\ staging' = [staging EXCEPT ![i] = NoFiles]
ConfirmCheckpoint_NotRenamed(i, manifest) ==
  SizesOf(staging[i]) = manifest /\ UNCHANGED <<promoted, staging>>
ConfirmCheckpoint(i, manifest) ==
  IF promoted[i].there THEN UNCHANGED <<promoted, staging>>
  ELSE /\ SizesOf(staging[i]) = manifest
       /\ promoted' = [promoted EXCEPT ![i] = [there |-> TRUE, files |-> staging[i]]]
       /\ staging' = [staging EXCEPT ![i] = NoFiles]

Accepted == Authorised(pass.sync) /\ sync[pass.sync].state = "pending"
Promote ==
  /\ pass.at = "complete" /\ Accepted
  /\ ConfirmCheckpoint(pass.sync, pass.manifest)
  /\ pass' = [pass EXCEPT !.at = "record"]
  /\ UNCHANGED <<disk, writes, sync, active, faults, rounds, tainted>>
Refused ==
  /\ pass.at = "complete" /\ GiveUp
  /\ ~Accepted \/ (~promoted[pass.sync].there /\ SizesOf(staging[pass.sync]) # pass.manifest)
  /\ UNCHANGED <<disk, writes, sync, staging, promoted, active, faults, rounds, tainted>>
Record ==
  /\ pass.at = "record"
  /\ sync' = [sync EXCEPT ![pass.sync] =
                           [state |-> "confirmed", manifest |-> pass.manifest]]
  /\ GiveUp
  /\ UNCHANGED <<disk, writes, staging, promoted, active, faults, rounds, tainted>>

-----------------------------------------------------------------------------
(* Faults: an answer is lost after a chunk was stored, and the same chunk  *)
(* is sent again; the agent, or the server in the middle of a completion,  *)
(* dies.                                                                   *)

Fault == faults < MaxFaults /\ faults' = faults + 1 /\ tainted' = tainted \cup {pass.sync}
AnswerLost ==
  /\ pass.at = "send" /\ disk[File] # Absent /\ Len(disk[File]) > pass.offset
  /\ Authorised(pass.sync) /\ sync[pass.sync].state = "pending"
  /\ Staging(pass.sync, File,
       AppendCheckpoint(pass.sync, File, pass.offset, <<disk[File][pass.offset + 1]>>).staged)
  /\ Fault
  /\ UNCHANGED <<disk, writes, sync, promoted, pass, active, rounds>>
PassDies ==
  /\ pass.at # "idle" /\ Fault /\ GiveUp
  /\ UNCHANGED <<disk, writes, sync, staging, promoted, active, rounds>>

Next ==
  \/ \E f \in Files : WriteFile(f) \/ RemoveFile(f)
  \/ \E i \in Syncs : Request(i) \/ Begin(i)
  \/ Inactive \/ NextFile \/ Send \/ Stat \/ Promote \/ Refused \/ Record
  \/ AnswerLost \/ PassDies

Spec == Init /\ [][Next]_vars

-----------------------------------------------------------------------------
(* Properties. *)

Confirmed(i) == sync[i].state = "confirmed"

(* What the row calls confirmed is on the disk: the archive of the latest  *)
(* confirmed checkpoint can be made, whatever died on the way.             *)
ConfirmedIsPromoted == \A i \in Syncs : Confirmed(i) => promoted[i].there

(* "A partially uploaded generation never replaces the last confirmed      *)
(* checkpoint": a promoted generation never changes again.                 *)
PromotedIsFinal ==
  [][\A i \in Syncs : promoted[i].there => promoted'[i] = promoted[i]]_vars

(* A sync that was not disturbed is confirmed with the sizes it promoted.  *)
ManifestIsOfGeneration ==
  \A i \in Syncs : Confirmed(i) /\ i \notin tainted =>
    SizesOf(promoted[i].files) = sync[i].manifest

(* In a sync done in one pass, every file is of one write, although the    *)
(* program rewrites files in place while they are read.                    *)
OfOneWrite(content) == \A k, l \in DOMAIN content : content[k] = content[l]
FilesAreWhole ==
  \A i \in Syncs : promoted[i].there /\ rounds[i] = 1 =>
    \A f \in DOMAIN promoted[i].files : OfOneWrite(promoted[i].files[f])

(* The same for any confirmed checkpoint: what a pass left in staging is   *)
(* of the file as it is now ("checkpoint file changed during sync").       *)
NoMixedFiles ==
  \A i \in Syncs : Confirmed(i) =>
    \A f \in DOMAIN promoted[i].files : OfOneWrite(promoted[i].files[f])

(* Why they hold: the inductive invariant.                                 *)

(* The pass is over a sync that is not yet confirmed, each of its files is *)
(* still to do or in the manifest, and what it records is promoted.        *)
PassGoesOn ==
  /\ pass.at = "idle" => pass = NoPass
  /\ pass.at # "idle" => /\ pass.sync \in Syncs /\ rounds[pass.sync] # 0
                         /\ sync[pass.sync].state = "pending"
  /\ pass.at \in {"send", "stat"} => pass.file \in pass.todo
  /\ pass.at = "complete" => pass.todo = {}
  /\ \A f \in pass.todo : f \notin DOMAIN pass.manifest
  /\ pass.at = "record" => promoted[pass.sync].there

(* Undisturbed, a generation is promoted once, under the sizes of its pass.*)
PromotedIsRecorded ==
  \A i \in Syncs \ tainted : promoted[i].there =>
    \/ sync[i].state = "confirmed"
    \/ pass.at = "record" /\ pass.sync = i /\ SizesOf(promoted[i].files) = pass.manifest

(* A write fills a file with units of its own number, and numbers grow.    *)
WritesAreWhole ==
  \A f \in Files : disk[f] # Absent =>
    \A k \in DOMAIN disk[f] : disk[f][k] = Written(disk[f]) /\ disk[f][k] <= writes

(* What is staged in the first pass over a sync: nothing before it, ...    *)
NothingBefore ==
  \A i \in Syncs : rounds[i] = 0 => staging[i] = NoFiles /\ ~promoted[i].there

(* ... in it the files of the manifest and the one that is being sent, ... *)
FirstPass == pass.at # "idle" /\ rounds[pass.sync] = 1
Sending == pass.at \in {"send", "stat"}
StagedIsListed ==
  FirstPass => DOMAIN staging[pass.sync] \subseteq
                 DOMAIN pass.manifest \cup (IF Sending THEN {File} ELSE {})

(* ... of which the former are of one write, ...                           *)
ListedIsWhole ==
  FirstPass => \A f \in DOMAIN staging[pass.sync] \cap DOMAIN pass.manifest :
    OfOneWrite(staging[pass.sync][f])

(* ... and the latter not older than the pass's look at it, nor newer than *)
(* the file is now.                                                        *)
SentIsRecent ==
  FirstPass /\ Sending =>
    /\ pass.size = 0 => pass.at = "stat" /\ File \notin DOMAIN staging[pass.sync]
    /\ pass.size > 0 => pass.write > 0
    /\ pass.write <= writes
    /\ disk[File] \notin {Absent, <<>>} => pass.write <= Written(disk[File])
    /\ File \in DOMAIN staging[pass.sync] =>
         \A k \in DOMAIN staging[pass.sync][File] :
           /\ pass.write <= staging[pass.sync][File][k]
           /\ staging[pass.sync][File][k] <= writes
           /\ disk[File] \notin {Absent, <<>>} =>
                staging[pass.sync][File][k] <= Written(disk[File])

IInv ==
  /\ TypeOK /\ ConfirmedIsPromoted /\ ManifestIsOfGeneration /\ FilesAreWhole
  /\ PassGoesOn /\ PromotedIsRecorded /\ WritesAreWhole
  /\ NothingBefore /\ StagedIsListed /\ ListedIsWhole /\ SentIsRecent

=============================================================================
