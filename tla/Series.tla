------------------------------- MODULE Series -------------------------------
(***************************************************************************)
(* The metrics and resource samples of one attempt as a live chart shows   *)
(* them: AppendMetricSamples and metricSeries in                           *)
(* internal/store/metrics.go, AppendResourceSample and resourceSamples in  *)
(* internal/store/telemetry.go, internal/store/series_updates.go, the      *)
(* handlers of internal/httpapi/series.go, and the client that puts        *)
(* snapshot and stream together (web/src/components/metrics-panel.tsx,     *)
(* web/src/lib/series.ts).                                                 *)
(*                                                                         *)
(* A snapshot is bounded three times: by the cursor, by a window of time   *)
(* and by a number of points, for which metrics are averaged and long      *)
(* windows of resources read from the compacted rows, those of Telemetry.  *)
(* The stream goes on behind the smaller cursor of the two snapshots, and  *)
(* a series grows to the same number of points.                            *)
(***************************************************************************)
EXTENDS Integers, Sequences, FiniteSetsExt

CONSTANTS
  MaxTime,    \* bound: length of the run, in units of the clock
  MaxBatches, \* bound: rows of job_series_updates
  Page,       \* updates one poll of the stream sends, 100
  Limit,      \* points of an answer and of a live series, 2000
  RawSeconds, \* seconds of a resource row before its compaction, 5
  MaxFaults   \* bound: broken streams

VARIABLES
  now,      \* the clock
  updates,  \* job_series_updates: the cursor of a batch is its place
  query,    \* the two requests of the page for its snapshots
  stream,   \* the handler jobSeriesStream and what it has sent last
  shown,    \* how often the page was given a sample
  chart,    \* the points of each series: <<0, bucket>> and <<cursor, time>>
  faults
vars == <<now, updates, query, stream, shown, chart, faults>>

Kinds == {"metrics", "resources"}
Names == 0 .. 2   \* the resources, and two metrics in the order of their names
Kind(name) == IF name = 0 THEN "resources" ELSE "metrics"
Times == 0 .. MaxTime + 1
Begin == 1   \* started_at of the job: samples may be stamped before
Never == -1

TypeOK ==
  /\ now \in 0 .. MaxTime
  /\ updates \in Seq([name : Names, times : SUBSET Times])
  /\ query \in [Kinds -> [at : {"wait", "cursor", "end"}, to : {Never} \cup Times,
                         cursor : Nat, truncated : BOOLEAN]]
  /\ stream \in [at : {"off", "on", "broken"}, from : Nat, after : Nat]
  /\ shown \in [(1 .. MaxBatches) \X Times -> 0 .. 2]
  /\ chart \in [Names -> SUBSET ((0 .. MaxBatches) \X Times)]
  /\ faults \in 0 .. MaxFaults

Init ==
  /\ now = Begin /\ updates = <<>> /\ faults = 0
  /\ query = [k \in Kinds |-> [at |-> "wait", to |-> Never, cursor |-> 0, truncated |-> FALSE]]
  /\ stream = [at |-> "off", from |-> 0, after |-> 0]
  /\ shown = [s \in (1 .. MaxBatches) \X Times |-> 0]
  /\ chart = [n \in Names |-> {}]

LatestSeriesCursor == Len(updates)
IsSample(s) == s[1] \in DOMAIN updates /\ s[2] \in updates[s[1]].times
Samples == {s \in DOMAIN shown : IsSample(s)}
Name(s) == updates[s[1]].name
Show(some) ==
  shown' = [s \in DOMAIN shown |-> IF s \in some THEN Min({2, shown[s] + 1}) ELSE shown[s]]

Tick == now < MaxTime /\ now' = now + 1 /\ UNCHANGED <<updates, query, stream, shown, chart, faults>>

(* sdkMetricSamples: the samples of a batch carry the job's own stamps, no *)
(* more than five minutes ahead.  (A batch of several names is here one of *)
(* each.)                                                                  *)
AppendMetricSamples(name, times) ==
  /\ Len(updates) < MaxBatches /\ Kind(name) = "metrics"
  /\ \A t \in times : t <= now + 1
  /\ updates' = Append(updates, [name |-> name, times |-> times])
  /\ UNCHANGED <<now, query, stream, shown, chart, faults>>

(* The server stamps a resource sample; the second one of a second goes,   *)
(* and its cursor with it.                                                 *)
AppendResourceSample ==
  /\ Len(updates) < MaxBatches
  /\ \A i \in DOMAIN updates : Kind(updates[i].name) = "resources" => now \notin updates[i].times
  /\ updates' = Append(updates, [name |-> 0, times |-> {now}])
  /\ UNCHANGED <<now, query, stream, shown, chart, faults>>

(* The page opens: the end of the window of both requests is that moment.  *)
OpenPage ==
  /\ query["metrics"].to = Never
  /\ query' = [k \in Kinds |-> [query[k] EXCEPT !.to = now]]
  /\ UNCHANGED <<now, updates, stream, shown, chart, faults>>

(* parseSeriesWindow takes the cursor; then the rows up to it are read.    *)
ParseSeriesWindow(k) ==
  /\ query[k].at = "wait" /\ query[k].to # Never
  /\ query' = [query EXCEPT ![k].at = "cursor", ![k].cursor = LatestSeriesCursor]
  /\ UNCHANGED <<now, updates, stream, shown, chart, faults>>

InWindow(k, s) == Begin <= s[2] /\ s[2] <= query[k].to
Window_NoCursor(k) == {s \in Samples : Kind(Name(s)) = k /\ InWindow(k, s)}
Window(k) ==
  {s \in Samples : Kind(Name(s)) = k /\ InWindow(k, s) /\ s[1] <= query[k].cursor}

(* "auto" asks for about Limit points: averages of metrics over buckets of *)
(* one of these lengths, and of resources the raw rows or the compacted.   *)
Seconds(k) == query[k].to - Begin
niceResolution(seconds) ==
  LET candidates == {1, 5, 15, 60, 300, 900, 3600, 21600, 86400}
  IN  Min({r \in candidates : seconds <= r} \cup {86400})
metricResolution == niceResolution((Seconds("metrics") + Limit - 1) \div Limit)
resourceResolutionIsRaw == Seconds("resources") <= Limit * RawSeconds
Averaged(k) == k = "resources" /\ ~resourceResolutionIsRaw
BucketOf(k, s) == IF k = "metrics" THEN s[2] \div metricResolution ELSE s[2]

(* Pairs are ordered by the first component, then by the second.           *)
Before(p, q) == p[1] < q[1] \/ (p[1] = q[1] /\ p[2] < q[2])

(* A query returns its rows in order, no more than Limit, and says whether *)
(* there were more.  A row is the name of its series and its bucket.       *)
Row(k, s) == <<Name(s), BucketOf(k, s)>>
Rows(k) == {Row(k, s) : s \in {x \in Window(k) : ~Averaged(k)}}
Oldest(pairs) == {p \in pairs : Cardinality({q \in pairs : Before(q, p)}) < Limit}
SeriesAt(k) == {s \in Window(k) : ~Averaged(k) /\ Row(k, s) \in Oldest(Rows(k))}
ReadSeries(k) ==
  /\ query[k].at = "cursor"
  /\ query' = [query EXCEPT ![k].at = "end", ![k].truncated = Cardinality(Rows(k)) > Limit]
  /\ Show(SeriesAt(k))
  /\ chart' = [n \in Names |->
       IF Kind(n) = k THEN {<<0, BucketOf(k, s)>> : s \in {x \in SeriesAt(k) : Name(x) = n}}
                      ELSE chart[n]]
  /\ UNCHANGED <<now, updates, stream, faults>>

(* With both answers the page follows the stream, behind the smaller       *)
(* cursor; the browser connects again with the last id it has received.    *)
ParseSeriesCursor_Latest(last) == LatestSeriesCursor
ParseSeriesCursor(last) == Max({stream.from, last})
OpenStream ==
  /\ \A k \in Kinds : query[k].at = "end"
  /\ \/ stream.at = "off"
        /\ LET least == Min({query[k].cursor : k \in Kinds})
           IN  stream' = [at |-> "on", from |-> least, after |-> least]
     \/ stream.at = "broken"
        /\ stream' = [stream EXCEPT !.at = "on", !.after = ParseSeriesCursor(stream.after)]
  /\ UNCHANGED <<now, updates, query, shown, chart, faults>>

(* appendMetricUpdate and appendResourceUpdate put a point behind those of *)
(* its series, and take the first ones off beyond the limit.               *)
Newest_NoneLeaves(pairs) == pairs
Newest(pairs) == {p \in pairs : Cardinality({q \in pairs : Before(p, q)}) < Limit}

(* One poll.  The page drops what a snapshot of its kind has already.      *)
Applied(s) == s[1] > query[Kind(Name(s))].cursor
SeriesUpdates == {i \in DOMAIN updates : stream.after < i /\ i <= stream.after + Page}
Arrived(last) == {s \in Samples : stream.after < s[1] /\ s[1] <= last /\ Applied(s)}
Poll(last) ==
  /\ stream.at = "on" /\ last \in SeriesUpdates \cup {stream.after}
  /\ \/ last = Max(SeriesUpdates \cup {stream.after}) /\ last # stream.after
        /\ stream' = [stream EXCEPT !.after = last] /\ UNCHANGED faults
     \/ faults < MaxFaults /\ faults' = faults + 1        \* the rest is lost
        /\ stream' = [stream EXCEPT !.at = "broken", !.after = last]
  /\ Show(Arrived(last))
  /\ chart' = [n \in Names |->
       Newest(chart[n] \cup {s \in Arrived(last) : Name(s) = n})]
  /\ UNCHANGED <<now, updates, query>>

Next ==
  \/ Tick \/ AppendResourceSample \/ OpenPage \/ OpenStream
  \/ AppendMetricSamples(1, {now - 1, now + 1}) \/ AppendMetricSamples(2, {now})
  \/ \E k \in Kinds : ParseSeriesWindow(k) \/ ReadSeries(k)
  \/ \E last \in 0 .. MaxBatches : Poll(last)
Spec == Init /\ [][Next]_vars

-----------------------------------------------------------------------------
(* Properties. *)

(* No sample reaches the page twice, though two snapshots of different     *)
(* cursors and a stream that starts at the smaller one overlap.            *)
NothingTwice == \A s \in DOMAIN shown : shown[s] <= 1

Passed == {s \in Samples : stream.at # "off" /\ s[1] <= stream.after}

(* The point a sample is drawn in: of the snapshot, or its own.            *)
PointOf(s) == IF Applied(s) THEN s ELSE <<0, BucketOf(Kind(Name(s)), s)>>

(* A series has its points, or of more than it may have those at the end.  *)
AreNewest(kept, points) ==
  /\ kept \subseteq points /\ Cardinality(kept) <= Limit
  /\ \A p \in points \ kept :
       Cardinality(kept) = Limit /\ \A q \in kept : Before(p, q)

(* What lies in the window, or was stored behind its snapshot, is drawn    *)
(* when the stream has passed it, through any number of broken streams.    *)
(* It is not when Limit newer points have taken its place; and when it is  *)
(* of a snapshot that was cut at Limit points, which the page then says    *)
(* (metrics-panel.tsx:86), or of a window so long that the snapshot is one *)
(* of compacted rows.                                                      *)
NothingInWindowMissed ==
  \A s \in Passed : LET k == Kind(Name(s)) IN
    (InWindow(k, s) \/ Applied(s)) =>
      \/ shown[s] = 1 /\ AreNewest(chart[Name(s)], chart[Name(s)] \cup {PointOf(s)})
      \/ ~Applied(s) /\ (query[k].truncated \/ Averaged(k))

(* What makes both hold from step to step: how often the page was given a  *)
(* sample follows from the cursors alone - once if its snapshot had it or  *)
(* the stream has passed it behind its snapshot, and not at all otherwise; *)
(* and a series has the newest of the points of what was given.            *)
InTail(s) == stream.at # "off" /\ s[1] <= stream.after /\ Applied(s)
Given ==
  (UNION {SeriesAt(k) : k \in {l \in Kinds : query[l].at = "end"}})
    \cup {s \in Samples : InTail(s)}
IInv ==
  /\ TypeOK /\ now >= Begin /\ Len(updates) <= MaxBatches
  /\ \A k \in Kinds :
       /\ query[k].cursor <= Len(updates)
       /\ query[k].at # "wait" => query[k].to # Never
       /\ query[k].at = "end" => (query[k].truncated <=> Cardinality(Rows(k)) > Limit)
       /\ \A l \in Kinds : query[k].to = query[l].to
       /\ stream.at # "off" => query[k].at = "end" /\ stream.from <= query[k].cursor
  /\ stream.from <= stream.after /\ stream.after <= Len(updates)
  /\ LET given == Given IN
       /\ \A s \in DOMAIN shown : shown[s] = IF s \in given THEN 1 ELSE 0
       /\ \A n \in Names :
            AreNewest(chart[n], {PointOf(s) : s \in {x \in given : Name(x) = n}})

(* docs/architecture.md:133 and docs/api.md:168 of the two together: a     *)
(* consistent snapshot, and a tail with what is committed after it.  Not   *)
(* so even of the samples the server stamps itself: one stored after the   *)
(* page opened and before its request arrives is in neither.               *)
SnapshotAndTailAreComplete ==
  \A s \in Passed : Name(s) = 0 => shown[s] = 1

=============================================================================
