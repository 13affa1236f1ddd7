------------------------------ MODULE Telemetry ------------------------------
(***************************************************************************)
(* The resource samples of an attempt over time: one every five seconds    *)
(* from the agent (telemetry in internal/agent/agent.go, agentTelemetry in *)
(* internal/httpapi/api.go), averaged into buckets and forgotten           *)
(* (MaintainResourceTelemetry in internal/store/telemetry.go, every five   *)
(* minutes and at every start of the server), and drawn over the life of   *)
(* the job (jobResources and resourceResolution in                         *)
(* internal/httpapi/series.go).                                            *)
(***************************************************************************)
EXTENDS Integers, FiniteSets, FiniteSetsExt

CONSTANTS
  MaxTime,      \* bound: length of the run; a unit is the five seconds of a sample
  Bucket,       \* samples in a bucket, 300 s
  RawRetention, \* JOBDOCK_TELEMETRY_RAW_RETENTION
  Retention,    \* JOBDOCK_TELEMETRY_RETENTION
  Limit         \* points the page asks for, 2000

VARIABLES
  now,     \* the clock
  raw,     \* the rows of five seconds, by their time
  average, \* the rows of five minutes, by their time: sample_count, or 0 for none
  cutoff,  \* history: what lies before it has been forgotten
  stored   \* history: every sample the server has taken
vars == <<now, raw, average, cutoff, stored>>

Times == 0 .. MaxTime
StartOf(t) == (t \div Bucket) * Bucket
InBucket(some, b) == {t \in some : StartOf(t) = b}

TypeOK ==
  /\ now \in Times /\ raw \subseteq Times /\ stored \subseteq Times
  /\ average \in [Times -> 0 .. Bucket]
  /\ cutoff \in 0 .. MaxTime

Init == now = 0 /\ raw = {} /\ average = [t \in Times |-> 0] /\ cutoff = 0 /\ stored = {}

Tick == now < MaxTime /\ now' = now + 1 /\ UNCHANGED <<raw, average, cutoff, stored>>

(* The agent does not repeat an upload that fails; the server stamps the   *)
(* sample, and a second one of that second is dropped (ON CONFLICT).       *)
AppendResourceSample ==
  /\ now \notin stored
  /\ raw' = raw \cup {now} /\ stored' = stored \cup {now}
  /\ UNCHANGED <<now, average, cutoff>>

(* One transaction of three statements: old rows go into the average of    *)
(* their bucket, unless it has one, and are deleted; then what is too old. *)
RawCutoff == now - RawRetention
RetentionCutoff == now - Retention
Old == {t \in raw : t < RawCutoff /\ t >= RetentionCutoff}
Compacted_Again(b) == average[b] + Cardinality(InBucket(raw, b))
Compacted(b) == IF average[b] # 0 THEN average[b] ELSE Cardinality(InBucket(Old, b))
KeptRaw_Shorter == {t \in raw : t > RawCutoff}
KeptRaw == {t \in raw : t >= RawCutoff}
Forgotten_ByCompaction(b) == b < RawCutoff
Forgotten(b) == b < RetentionCutoff
MaintainResourceTelemetry ==
  /\ average' = [b \in Times |-> IF Forgotten(b) THEN 0 ELSE Compacted(b)]
  /\ raw' = {t \in KeptRaw : ~Forgotten(t)}
  /\ cutoff' = Max({cutoff, RetentionCutoff})
  /\ UNCHANGED <<now, stored>>

Next == Tick \/ AppendResourceSample \/ MaintainResourceTelemetry
Spec == Init /\ [][Next]_vars

(* jobResources over the life of the job: rows of one resolution, and of   *)
(* the other one only when the finer one has none.                         *)
Fine == IF now <= Limit THEN raw ELSE {}
Points == IF Fine # {} THEN Fine ELSE {b \in Times : average[b] # 0}

-----------------------------------------------------------------------------
(* Properties. *)

(* Compaction runs at any time, again over a bucket it has cut in two: no  *)
(* sample is counted in the average and drawn beside it.                   *)
NoSampleCountedTwice ==
  \A b \in Times :
    average[b] + Cardinality(InBucket(raw, b)) <= Cardinality(InBucket(stored, b))

(* A sample is there as itself until it is old enough...                   *)
RecentIsRaw == \A t \in stored : t >= RawCutoff => t \in raw

(* ...and then, until its bucket begins before the end of retention, there *)
(* is an average of its five minutes: compaction leaves no gap.            *)
NoGap == \A t \in stored : StartOf(t) >= cutoff => t \in raw \/ average[StartOf(t)] # 0

(* What makes them hold from step to step: samples are stamped when they   *)
(* are taken, and none is kept that was not taken.                         *)
IInv ==
  /\ TypeOK
  /\ raw \subseteq stored /\ stored \subseteq 0 .. now
  /\ NoSampleCountedTwice /\ RecentIsRaw /\ NoGap

(* internal/store/telemetry.go:94 and docs/operations.md:105, old samples  *)
(* are averaged into five-minute buckets.  Not so: of a bucket that is cut *)
(* in two the later part is deleted without being counted.                 *)
AverageIsOfAllSamples ==
  \A b \in Times :
    average[b] # 0 =>
      average[b] + Cardinality(InBucket(raw, b)) = Cardinality(InBucket(stored, b))

(* The page draws what is there.  Not so for a job of more than Limit      *)
(* samples before its first compaction.                                    *)
SomethingIsDrawn == raw # {} => Points # {}

=============================================================================
