----------------------------- MODULE AttemptLogs -----------------------------
(***************************************************************************)
(* The logs of one attempt on their way from the container to the server:  *)
(* streamLogs, appendOrderedLog and syncLog in internal/agent/agent.go,    *)
(* putLog in internal/httpapi/api.go and appendLog in                      *)
(* internal/filestore/filestore.go.                                        *)
(*                                                                         *)
(* A frame of the container is one unit of its stream; it is known by its  *)
(* number.  The agent keeps three local files, the two streams and the     *)
(* order of the frames across them, and uploads each from the offset in    *)
(* its journal.  Requests are lost, cut off, or answered without the       *)
(* answer arriving; the agent dies and starts again from the first frame.  *)
(***************************************************************************)
EXTENDS Integers, Sequences, SequencesExt

CONSTANTS
  MaxFrames,  \* bound: frames the container writes
  MaxSize,    \* what the three server files may hold together
  MaxFaults,  \* bound: failed transfers, broken followers, changes of owner
  MaxCrashes  \* bound: deaths of the agent

VARIABLES
  emitted,   \* Docker's log: the stream of each frame
  running,   \* the container still runs
  keep,      \* frames of a stream the redactor holds back
  agent,     \* where streamLogs is, and what it holds in memory
  record,    \* offsets and sequence number, in memory
  journal,   \* the same, as last saved
  local, server,
  owner,     \* the server still takes this attempt for the job's current one
  faults, crashes
vars == <<emitted, running, keep, agent, record, journal, local, server, owner, faults, crashes>>

Stream == {"stdout", "stderr"}
File == Stream \cup {"order"}
OrderRecord == [sequence : Nat, stream : Stream, start : Nat, next : Nat]

TypeOK ==
  /\ emitted \in Seq(Stream) /\ Len(emitted) <= MaxFrames /\ running \in BOOLEAN
  /\ keep \in 0 .. 1
  /\ agent \in [at : {"off", "follow", "write", "note", "stream", "order", "tail", "last", "done"},
                round : 0 .. 2, pos : 0 .. MaxFrames, stream : Stream,
                safe : Seq(1 .. MaxFrames), held : [Stream -> Seq(1 .. MaxFrames)]]
  /\ {record, journal} \subseteq [offset : [File -> Nat], sequence : Nat]
  /\ \A f \in {local, server} :
       /\ f = [g \in File |-> f[g]]
       /\ \A s \in Stream : f[s] \in Seq(1 .. MaxFrames)
       /\ f["order"] \in Seq(OrderRecord)
  /\ owner \in BOOLEAN /\ faults \in 0 .. MaxFaults /\ crashes \in 0 .. MaxCrashes
  /\ \A f \in File : journal.offset[f] <= record.offset[f] /\ record.offset[f] <= Len(server[f])

Off == [at |-> "off", round |-> 0, pos |-> 0, stream |-> "stdout",
        safe |-> <<>>, held |-> [s \in Stream |-> <<>>]]
Nothing == [f \in File |-> <<>>]

Init ==
  /\ emitted = <<>> /\ running = TRUE /\ keep \in 0 .. 1
  /\ agent = [Off EXCEPT !.at = "follow"]
  /\ record = [offset |-> [f \in File |-> 0], sequence |-> 0] /\ journal = record
  /\ local = Nothing /\ server = Nothing
  /\ owner = TRUE /\ faults = 0 /\ crashes = 0

-----------------------------------------------------------------------------
(* The container. *)

Write(s) ==
  /\ running /\ Len(emitted) < MaxFrames
  /\ emitted' = Append(emitted, s)
  /\ UNCHANGED <<running, keep, agent, record, journal, local, server, owner, faults, crashes>>
Exit ==
  /\ running /\ running' = FALSE
  /\ UNCHANGED <<emitted, keep, agent, record, journal, local, server, owner, faults, crashes>>

-----------------------------------------------------------------------------
(* streamLogs: follow Docker's log, then flush both redactors. *)

(* The next frame goes through its stream's redactor. *)
Push ==
  /\ agent.at = "follow" /\ agent.pos < Len(emitted)
  /\ LET s == emitted[agent.pos + 1]
         all == Append(agent.held[s], agent.pos + 1)
         cut == IF Len(all) > keep THEN Len(all) - keep ELSE 0
     IN agent' = [agent EXCEPT !.pos = @ + 1, !.stream = s,
                    !.safe = SubSeq(all, 1, cut),
                    !.held[s] = SubSeq(all, cut + 1, Len(all)),
                    !.at = IF cut = 0 THEN "follow" ELSE "write"]
  /\ UNCHANGED <<emitted, running, keep, record, journal, local, server, owner, faults, crashes>>

(* The log ends with the container; or the follower breaks. *)
FollowEnds ==
  /\ agent.at = "follow"
  /\ \/ agent.pos = Len(emitted) /\ ~running /\ UNCHANGED faults
     \/ faults < MaxFaults /\ faults' = faults + 1
  /\ agent' = [agent EXCEPT !.at = "tail", !.round = 1]
  /\ UNCHANGED <<emitted, running, keep, record, journal, local, server, owner, crashes>>

(* Round 1 flushes stdout, round 2 stderr. *)
Flush_Forgotten == agent' = [agent EXCEPT !.at = "last"]
Flush ==
  LET s == IF agent.round = 1 THEN "stdout" ELSE "stderr"
  IN agent' = [agent EXCEPT !.stream = s, !.safe = agent.held[s], !.held[s] = <<>>,
                            !.at = IF agent.held[s] = <<>> THEN "last" ELSE "write"]
FlushNext ==
  /\ agent.at = "tail" /\ Flush
  /\ UNCHANGED <<emitted, running, keep, record, journal, local, server, owner, faults, crashes>>

-----------------------------------------------------------------------------
(* appendOrderedLog: the stream's file, the order file, then both uploads. *)

AppendLocal ==
  /\ agent.at = "write"
  /\ local' = [local EXCEPT ![agent.stream] = @ \o agent.safe]
  /\ agent' = [agent EXCEPT !.at = "note"]
  /\ UNCHANGED <<emitted, running, keep, record, journal, server, owner, faults, crashes>>

(* The range is measured on the file, before the write. *)
Order ==
  [sequence |-> record.sequence + 1, stream |-> agent.stream,
   start |-> Len(local[agent.stream]) - Len(agent.safe), next |-> Len(local[agent.stream])]
AppendOrder ==
  /\ agent.at = "note"
  /\ local' = [local EXCEPT !["order"] = Append(@, Order)]
  /\ record' = [record EXCEPT !.sequence = @ + 1]
  /\ agent' = [agent EXCEPT !.at = "stream", !.safe = <<>>]
  /\ UNCHANGED <<emitted, running, keep, journal, server, owner, faults, crashes>>

(* What comes after a file is synced, or could not be: an error while      *)
(* following ends the follower, while flushing it is ignored.              *)
After(ok) ==
  IF agent.at = "last"
  THEN IF agent.round = 1 THEN [agent EXCEPT !.at = "tail", !.round = 2]
       ELSE [agent EXCEPT !.at = "done"]
  ELSE IF agent.at = "stream" /\ ok THEN [agent EXCEPT !.at = "order"]
  ELSE IF agent.round # 0 THEN [agent EXCEPT !.at = "last"]
  ELSE IF ok THEN [agent EXCEPT !.at = "follow"]
  ELSE [agent EXCEPT !.at = "tail", !.round = 1]
Target_OrderFirst ==
  CASE agent.at = "stream" -> "order"
    [] agent.at = "order" -> agent.stream
    [] OTHER -> IF agent.round = 1 THEN "stdout" ELSE "stderr"
Target ==
  CASE agent.at = "stream" -> agent.stream
    [] agent.at = "order" -> "order"
    [] OTHER -> IF agent.round = 1 THEN "stdout" ELSE "stderr"
Syncing == agent.at \in {"stream", "order", "last"}
Pending(f) == SubSeq(local[f], record.offset[f] + 1, Len(local[f]))

-----------------------------------------------------------------------------
(* putLog and appendLog: what the server makes of a chunk. *)

Used == Len(server["stdout"]) + Len(server["stderr"]) + Len(server["order"])
Room == MaxSize - Used
Take(data, n) == SubSeq(data, 1, Min({n, Len(data)}))
appendLog_AnyOffset(f, offset, data) ==
  IF ~owner \/ Room <= 0 THEN [file |-> server[f], ok |-> FALSE]
  ELSE [file |-> server[f] \o Take(data, Room), ok |-> Len(data) <= Room]
appendLog_NoTruncate(f, offset, data) ==
  IF ~owner \/ Len(server[f]) # offset \/ Room <= 0 THEN [file |-> server[f], ok |-> FALSE]
  ELSE [file |-> server[f] \o Take(data, Room + 1), ok |-> Len(data) <= Room]
appendLog(f, offset, data) ==
  IF ~owner \/ Len(server[f]) # offset \/ Room <= 0 THEN [file |-> server[f], ok |-> FALSE]
  ELSE [file |-> server[f] \o Take(data, Room), ok |-> Len(data) <= Room]

(* syncLog: nothing to send. *)
Synced ==
  /\ Syncing /\ Pending(Target) = <<>>
  /\ agent' = After(TRUE)
  /\ UNCHANGED <<emitted, running, keep, record, journal, local, server, owner, faults, crashes>>

(* One chunk, of up to a buffer; the answer moves the offset, which is     *)
(* saved.  The offset that comes with a refusal is not used.               *)
NextOffset(offset, n, ok) == IF ok THEN offset + n ELSE offset
Upload ==
  /\ Syncing /\ Pending(Target) # <<>>
  /\ \E n \in 1 .. Len(Pending(Target)) :
       LET offset == record.offset[Target]
           reply == appendLog(Target, offset, SubSeq(Pending(Target), 1, n))
       IN /\ server' = [server EXCEPT ![Target] = reply.file]
          /\ record' = [record EXCEPT !.offset[Target] = NextOffset(offset, n, reply.ok)]
          /\ IF reply.ok THEN journal' = record' /\ UNCHANGED agent
             ELSE agent' = After(FALSE) /\ UNCHANGED journal
  /\ UNCHANGED <<emitted, running, keep, local, owner, faults, crashes>>

(* The request is lost, it is cut off in its body, or its answer is lost.  *)
UploadFails ==
  /\ Syncing /\ Pending(Target) # <<>> /\ faults < MaxFaults
  /\ \E n \in 0 .. Len(Pending(Target)) :
       server' = IF n = 0 THEN server
                 ELSE [server EXCEPT ![Target] =
                         appendLog(Target, record.offset[Target], SubSeq(Pending(Target), 1, n)).file]
  /\ agent' = After(FALSE) /\ faults' = faults + 1
  /\ UNCHANGED <<emitted, running, keep, record, journal, local, owner, crashes>>

(* The attempt is no longer the job's current one, or the job no longer    *)
(* this node's.                                                            *)
Superseded ==
  /\ owner /\ faults < MaxFaults
  /\ owner' = FALSE /\ faults' = faults + 1
  /\ UNCHANGED <<emitted, running, keep, agent, record, journal, local, server, crashes>>

(* The agent dies: files stay, Docker's log stays. *)
Crash ==
  /\ agent.at # "off" /\ crashes < MaxCrashes
  /\ agent' = Off /\ record' = journal /\ crashes' = crashes + 1
  /\ UNCHANGED <<emitted, running, keep, journal, local, server, owner, faults>>
Restart ==
  /\ agent.at = "off"
  /\ agent' = [Off EXCEPT !.at = "follow"]
  /\ UNCHANGED <<emitted, running, keep, record, journal, local, server, owner, faults, crashes>>

Next ==
  \/ \E s \in Stream : Write(s)
  \/ Exit \/ Push \/ FollowEnds \/ FlushNext \/ AppendLocal \/ AppendOrder
  \/ Synced \/ Upload \/ UploadFails \/ Superseded \/ Crash \/ Restart

Spec == Init /\ [][Next]_vars

-----------------------------------------------------------------------------
(* Properties. *)

(* What the server has of a stream is what the agent wrote, from the       *)
(* beginning and without a hole or a repetition, whatever was lost on the  *)
(* way: the offset of a chunk must be the size of the file it goes to.     *)
ServerHasPrefix == \A f \in File : IsPrefix(server[f], local[f])

(* The limit holds for the chunk that crosses it too. *)
LogLimitKept == Used <= MaxSize

Readable(r) == r.next <= Len(server[r.stream])
Shown(files, r) == SubSeq(files[r.stream], r.start + 1, r.next)
Combined(files) ==
  FoldLeft(LAMBDA shown, r : shown \o Shown(files, r), <<>>, files["order"])

(* While nothing has failed, a viewer of the combined log can read every   *)
(* frame the order file announces: streams are uploaded before the order.  *)
Clean == faults = 0 /\ crashes = 0 /\ Used < MaxSize
AnnouncedIsReadable ==
  Clean => \A i \in DOMAIN server["order"] : Readable(server["order"][i])

(* And in the end the combined log is the container's, frame for frame;    *)
(* a redactor only delays the frames of one stream against the other.      *)
InOrder(frames) ==
  \A i, j \in DOMAIN frames :
    i < j /\ emitted[frames[i]] = emitted[frames[j]] => frames[i] < frames[j]
CombinedLogIsComplete ==
  agent.at = "done" /\ Clean =>
    LET combined == Combined(server)
    IN /\ ToSet(combined) = 1 .. Len(emitted) /\ InOrder(combined)
       /\ keep = 0 => combined = [i \in 1 .. Len(emitted) |-> i]
       /\ \A s \in Stream : /\ ToSet(server[s]) = {i \in 1 .. Len(emitted) : emitted[i] = s}
                            /\ InOrder(server[s])

(* "If connectivity fails, the next frame resumes the stream first and     *)
(* then publishes every pending order record, so no emitted frame          *)
(* disappears from the combined timeline" (appendOrderedLog).              *)
NoFrameDisappears ==
  (agent.at = "done" /\ owner /\ crashes = 0 /\ Used < MaxSize) =>
    \A i \in 1 .. agent.pos : \E k \in DOMAIN server["order"] :
      i \in ToSet(Shown(server, server["order"][k]))

(* Why they hold: the inductive invariant.                                 *)

(* Only what is about to be written is out of the redactors, and each of   *)
(* them is empty once flushed.                                             *)
RedactorsAreFlushed ==
  /\ agent.pos <= Len(emitted)
  /\ agent.safe # <<>> <=> agent.at \in {"write", "note"}
  /\ agent.at = "follow" => agent.round = 0
  /\ agent.at \in {"tail", "last", "done"} => agent.round # 0
  /\ agent.at = "done" => agent.round = 2
  /\ (agent.round = 1 /\ agent.at # "tail") \/ agent.round = 2 =>
       agent.held["stdout"] = <<>>
  /\ agent.round = 2 /\ agent.at # "tail" => agent.held["stderr"] = <<>>

(* An order record is of a range of its stream's file, the next one of the *)
(* range just written.                                                     *)
RangesAreWritten ==
  /\ \A i \in DOMAIN local["order"] :
       local["order"][i].next <= Len(local[local["order"][i].stream])
  /\ agent.at = "note" => /\ Order.start >= 0
                          /\ Shown(local, Order) = agent.safe

(* While nothing has failed, everything but what is being synced has been, *)
(* and the flush begins at the end of the log.                             *)
InSync(f) == server[f] = local[f]
SyncedInTurn ==
  Clean =>
    /\ owner /\ agent.at # "off"
    /\ \A f \in File : Len(server[f]) = record.offset[f]
    /\ \A f \in File : CASE agent.at = "note" -> f # agent.stream => InSync(f)
                         [] agent.at = "stream" -> f \notin {agent.stream, "order"} => InSync(f)
                         [] agent.at = "order" -> f # "order" => InSync(f)
                         [] OTHER -> InSync(f)
    /\ agent.round # 0 => agent.pos = Len(emitted) /\ ~running

(* And the frames so far are in the combined log, on their way to it, or   *)
(* held back, each stream's in their order.                                *)
Precede(before, after) ==
  \A x \in ToSet(before), y \in ToSet(after) : emitted[x] = emitted[y] => x < y
Written(s) ==
  {x \in ToSet(Combined(local)) \cup (IF agent.at = "note" THEN ToSet(agent.safe) ELSE {}) :
     emitted[x] = s}
FramesKeepTheirOrder ==
  Clean =>
    LET shown == Combined(local)
    IN /\ ToSet(shown) \cup ToSet(agent.safe)
            \cup UNION {ToSet(agent.held[s]) : s \in Stream} = 1 .. agent.pos
       /\ InOrder(shown) /\ InOrder(agent.safe) /\ Precede(shown, agent.safe)
       /\ \A x \in ToSet(agent.safe) : emitted[x] = agent.stream
       /\ \A s \in Stream :
            /\ InOrder(agent.held[s]) /\ \A x \in ToSet(agent.held[s]) : emitted[x] = s
            /\ Precede(shown, agent.held[s]) /\ Precede(agent.safe, agent.held[s])
            /\ ToSet(local[s]) = Written(s) /\ InOrder(local[s])
            /\ keep = 0 => agent.held[s] = <<>>
       /\ keep = 0 => shown \o agent.safe = [i \in 1 .. agent.pos |-> i]

IInv ==
  /\ TypeOK /\ ServerHasPrefix /\ LogLimitKept /\ AnnouncedIsReadable
  /\ RedactorsAreFlushed /\ RangesAreWritten /\ SyncedInTurn /\ FramesKeepTheirOrder

=============================================================================
