----------------------------- MODULE Observables -----------------------------
(***************************************************************************)
(* What the sources of one attempt mean: the manifest a program declares   *)
(* (internal/store/observability_manifest.go), the descriptors its metrics *)
(* and matrices bring along (ensureMetricDescriptor, AppendMatrix) and the *)
(* catalog made of both.                                                   *)
(*                                                                         *)
(* A unit stands for unit, tags and metadata, which the code treats alike  *)
(* for metrics; "" is one that was not given.  Matrices stand for the      *)
(* richer kinds: the others keep no unit at all.                           *)
(***************************************************************************)
EXTENDS Sequences, SequencesExt

CONSTANTS
  Names,   \* of sources
  Phases,  \* of the pipeline
  Units,   \* what a source can be measured in
  Titles,  \* display names of a phase
  MaxBatch \* samples of one upload

VARIABLES
  declared,  \* job_observability_manifest_sources
  phase,     \* job_observability_phases
  metric,    \* job_metric_descriptors
  matrix,    \* job_rich_observable_descriptors
  samples    \* the metric samples stored, as given
vars == <<declared, phase, metric, matrix, samples>>

Types == {"metric", "matrix"}
Given == Units \cup {""}
Sources == [type : Types, unit : Given]
Samples == [name : Names, unit : Given]
Partial(D, R) == UNION {[S -> R] : S \in SUBSET D}
With(table, name, value) == [n \in DOMAIN table \cup {name} |-> IF n = name THEN value ELSE table[n]]

TypeOK ==
  /\ declared \in Partial(Names, Sources) /\ phase \in Partial(Phases, Titles)
  /\ metric \in Partial(Names, Given) /\ matrix \in Partial(Names, Given)
  /\ samples \subseteq Samples

Init == declared = <<>> /\ phase = <<>> /\ metric = <<>> /\ matrix = <<>> /\ samples = {}

Conflict(a, b) == a # "" /\ b # "" /\ a # b

(* compatibleObservedDescriptor: the unit of a matrix is not looked at.    *)
Compatible(name, source) ==
  /\ name \in DOMAIN metric => source.type = "metric" /\ ~Conflict(source.unit, metric[name])
  /\ name \in DOMAIN matrix => source.type = "matrix"
(* declareObservableSource, declareObservabilityPhase: once and for all.   *)
Declarable(name, source) ==
  Compatible(name, source) /\ (name \in DOMAIN declared => declared[name] = source)
Merged(table, entries) ==
  [n \in DOMAIN table \cup DOMAIN entries |-> IF n \in DOMAIN table THEN table[n] ELSE entries[n]]
ApplyObservabilityManifest(sources, phases) ==
  /\ DOMAIN sources \cup DOMAIN phases # {}
  /\ \A n \in DOMAIN sources : Declarable(n, sources[n])
  /\ \A p \in DOMAIN phases \cap DOMAIN phase : phase[p] = phases[p]
  /\ declared' = Merged(declared, sources) /\ phase' = Merged(phase, phases)
  /\ UNCHANGED <<metric, matrix, samples>>

(* ensureMetricDescriptor, on the descriptors as the samples before it in  *)
(* the batch have left them.                                               *)
Inherited(sample) ==
  IF sample.unit = "" /\ sample.name \in DOMAIN declared THEN declared[sample.name].unit ELSE sample.unit
Fits_TypeOnly(table, sample) == sample.name \in DOMAIN declared => declared[sample.name].type = "metric"
Fits(table, sample) ==
  /\ sample.name \in DOMAIN declared =>
       declared[sample.name].type = "metric" /\ ~Conflict(sample.unit, declared[sample.name].unit)
  /\ sample.name \in DOMAIN table => ~Conflict(Inherited(sample), table[sample.name])
Described_Latest(table, sample) ==
  With(table, sample.name, IF sample.unit # "" THEN sample.unit ELSE Inherited(sample))
Described(table, sample) ==
  With(table, sample.name,
    IF sample.name \in DOMAIN table /\ table[sample.name] # ""
    THEN table[sample.name] ELSE Inherited(sample))
After(batch, i) == FoldLeft(Described, metric, SubSeq(batch, 1, i))
(* One sample that does not fit refuses the batch.                         *)
Accepted_ByFirst(batch) == \A i \in DOMAIN batch : Fits(metric, batch[i])
Accepted(batch) == \A i \in DOMAIN batch : Fits(After(batch, i - 1), batch[i])
AppendMetricSamples(batch) ==
  /\ Accepted(batch)
  /\ metric' = After(batch, Len(batch))
  /\ samples' = samples \cup ToSet(batch)
  /\ UNCHANGED <<declared, phase, matrix>>

(* AppendMatrix: its unit is that of the first one, to the letter; what    *)
(* was declared counts for the type only.                                  *)
MatrixFits(name, unit) ==
  /\ name \in DOMAIN declared => declared[name].type = "matrix"
  /\ name \in DOMAIN matrix /\ matrix[name] # "" => unit = matrix[name]
AppendMatrix(name, unit) ==
  /\ MatrixFits(name, unit)
  /\ matrix' = With(matrix, name, unit)
  /\ UNCHANGED <<declared, phase, metric, samples>>

Next ==
  \/ \E sources \in Partial(Names, Sources), phases \in Partial(Phases, Titles) :
       ApplyObservabilityManifest(sources, phases)
  \/ \E n \in 1 .. MaxBatch : \E batch \in [1 .. n -> Samples] : AppendMetricSamples(batch)
  \/ \E name \in Names, unit \in Given : AppendMatrix(name, unit)
Spec == Init /\ [][Next]_vars

-----------------------------------------------------------------------------
(* Properties. *)

(* mergeObservableDescriptors: what is observed, completed by what was     *)
(* declared.                                                               *)
Shown(table, type, declarations, name) ==
  IF name \in DOMAIN table /\ table[name] # "" THEN table[name]
  ELSE IF name \in DOMAIN declarations /\ declarations[name].type = type
       THEN declarations[name].unit ELSE ""

(* The catalog does not change its mind about a metric, whatever comes     *)
(* first: samples, a declaration, samples that say more than the first.    *)
MeaningIsStable ==
  [][\A n \in Names : LET before == Shown(metric, "metric", declared, n) IN
       before # "" => Shown(metric', "metric", declared', n) = before]_vars

(* docs/api.md:50 "conflicting explicit descriptor rejects the entire      *)
(* batch": no sample is stored whose unit is not the one the catalog shows *)
(* for it, be the conflict with another batch, the same or a declaration.  *)
SamplesFitTheirMetric ==
  \A s \in samples : s.unit # "" => Shown(metric, "metric", declared, s.name) = s.unit

(* docs/api.md:93 "retries of an identical request emit nothing": what was *)
(* declared once is never refused as incompatible with what has been       *)
(* observed since.                                                         *)
RetriesAreAccepted == \A n \in DOMAIN declared : Declarable(n, declared[n])

(* What makes them hold from step to step: a descriptor has the unit of    *)
(* the samples that gave one.                                              *)
IInv ==
  /\ TypeOK /\ RetriesAreAccepted
  /\ \A s \in samples : s.unit # "" => s.name \in DOMAIN metric /\ metric[s.name] = s.unit

(* docs/api.md:94 "Incompatible changes to an existing source type/unit/   *)
(* tags [...] return 409 rather than rewriting meaning".  Not for a        *)
(* matrix: the unit it comes with replaces the declared one in the catalog *)
MatrixMeaningIsStable ==
  [][\A n \in Names : LET before == Shown(matrix, "matrix", declared, n) IN
       before # "" => Shown(matrix', "matrix", declared', n) = before]_vars

(* docs/api.md:49 "omitting them inherits the descriptor", as for metrics: *)
(* a matrix without a unit is taken.  Not once one with a unit was stored. *)
OmittedIsInherited == \A n \in DOMAIN matrix : MatrixFits(n, "")

=============================================================================
