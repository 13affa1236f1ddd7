------------------------ MODULE BuildPipeline_proofs ------------------------
(***************************************************************************)
(* Theorems of BuildPipeline, for any number of builds, builders, images   *)
(* and jobs and for every bound.  The inductive invariant is IInv of       *)
(* BuildPipeline; its conjuncts about builders, about assignments and      *)
(* about rows, archives and uploads are carried on one after the other.    *)
(***************************************************************************)
EXTENDS BuildPipeline, TLAPS

(* Writing a row of a table keeps its type and the other rows.             *)
LEMMA RowWrite ==
  ASSUME NEW S, NEW T, NEW f \in [S -> T], NEW i \in S, NEW r \in T,
         NEW g, g = [f EXCEPT ![i] = r]
  PROVE  /\ g \in [S -> T] /\ g[i] = r
         /\ \A k \in S \ {i} : g[k] = f[k]
OBVIOUS

(* Writing columns of a row yields a row. *)
LEMMA BuildColumns ==
  ASSUME NEW r \in BuildRow, NEW s \in BuildStatus \cup {"absent", "deleted"},
         NEW m \in {"RAILPACK", "DOCKERFILE"}, NEW g \in Digests \cup {None}
  PROVE  /\ [r EXCEPT !.status = s] \in BuildRow
         /\ [r EXCEPT !.status = s, !.mode = m] \in BuildRow
         /\ [r EXCEPT !.status = s, !.oci = g] \in BuildRow
BY DEF BuildRow

(* What a change of a build's status does to the table. *)
LEMMA StatusWrite ==
  ASSUME TypeOK, NEW b \in Builds, NEW s \in BuildStatus,
         build' = [build EXCEPT ![b].status = s]
  PROVE  /\ build' \in [Builds -> BuildRow]
         /\ build'[b].status = s /\ build'[b].mode = build[b].mode
         /\ build'[b].oci = build[b].oci
         /\ \A c \in Builds \ {b} : build'[c] = build[c]
<1>1. build[b] \in BuildRow /\ build \in [Builds -> BuildRow]
  BY DEF TypeOK
<1>2. [build[b] EXCEPT !.status = s] \in BuildRow
  BY <1>1 DEF BuildRow
<1>. QED BY <1>1, <1>2, RowWrite DEF BuildRow

(* What the other writes leave in the tables. *)
LEMMA CreateWrite ==
  ASSUME TypeOK, NEW b \in Builds, CreateBuild(b)
  PROVE  /\ build' \in [Builds -> BuildRow]
         /\ build[b].status = "absent" /\ build'[b].status = "CREATED"
         /\ \A c \in Builds \ {b} : build'[c] = build[c]
<1>1. build[b] \in BuildRow /\ build \in [Builds -> BuildRow]
  BY DEF TypeOK
<1>2. PICK m \in {"RAILPACK", "DOCKERFILE"} :
        build' = [build EXCEPT ![b].status = "CREATED", ![b].mode = m]
  BY DEF CreateBuild
<1>3. [build[b] EXCEPT !.status = "CREATED", !.mode = m] \in BuildRow
  BY <1>1 DEF BuildRow, BuildStatus
<1>4. build' = [build EXCEPT ![b] = [build[b] EXCEPT !.status = "CREATED", !.mode = m]]
  BY <1>1, <1>2
<1>. QED BY <1>1, <1>3, <1>4, RowWrite DEF BuildRow, CreateBuild

LEMMA AssignmentColumns ==
  ASSUME NEW r \in Assignment, NEW s \in {"PENDING", "RUNNING"} \cup Results, NEW l \in BOOLEAN
  PROVE  /\ [r EXCEPT !.status = s] \in Assignment
         /\ [r EXCEPT !.status = s, !.lease = l] \in Assignment
         /\ [r EXCEPT !.lease = l] \in Assignment
BY DEF Assignment

LEMMA ConfirmWrite ==
  ASSUME TypeOK, NEW b \in Builds, ConfirmBuild(b)
  PROVE  /\ build' \in [Builds -> BuildRow] /\ asg' \in [Builds -> Assignment]
         /\ build'[b].status = "BUILDING" /\ build'[b].mode = build[b].mode
         /\ build'[b].oci = build[b].oci
         /\ asg'[b].status = "PENDING" /\ asg'[b].cancel = asg[b].cancel
         /\ asg'[b].builder = asg[b].builder
         /\ \A c \in Builds \ {b} : build'[c] = build[c] /\ asg'[c] = asg[c]
<1>1. asg[b] \in Assignment /\ asg \in [Builds -> Assignment]
  BY DEF TypeOK
<1>2. [asg[b] EXCEPT !.status = "PENDING"] \in Assignment
  BY <1>1, AssignmentColumns
<1>3. asg' = [asg EXCEPT ![b] = [asg[b] EXCEPT !.status = "PENDING"]]
  BY DEF ConfirmBuild
<1>4. "BUILDING" \in BuildStatus /\ build' = [build EXCEPT ![b].status = "BUILDING"]
  BY DEF ConfirmBuild, BuildStatus
<1>5. /\ asg' \in [Builds -> Assignment] /\ asg'[b] = [asg[b] EXCEPT !.status = "PENDING"]
      /\ \A c \in Builds \ {b} : asg'[c] = asg[c]
  BY <1>1, <1>2, <1>3, RowWrite
<1>. QED BY <1>1, <1>4, <1>5, StatusWrite DEF Assignment

LEMMA CancellationWrite ==
  ASSUME TypeOK, NEW b \in Builds, RequestBuildCancellation(b)
  PROVE  /\ build' \in [Builds -> BuildRow] /\ asg' \in [Builds -> Assignment]
         /\ build'[b].status = "CANCELLED" /\ build'[b].mode = build[b].mode
         /\ build'[b].oci = build[b].oci
         /\ asg'[b].status = IF asg[b].status = "PENDING" THEN "CANCELLED" ELSE asg[b].status
         /\ asg'[b].builder = asg[b].builder
         /\ \A c \in Builds \ {b} : build'[c] = build[c] /\ asg'[c] = asg[c]
<1>. DEFINE s == IF asg[b].status = "PENDING" THEN "CANCELLED" ELSE asg[b].status
            r == [asg[b] EXCEPT !.cancel = TRUE, !.status = s]
<1>1. asg[b] \in Assignment /\ asg \in [Builds -> Assignment]
  BY DEF TypeOK
<1>2. r \in Assignment
  BY <1>1 DEF Assignment, Results
<1>3. asg' = [asg EXCEPT ![b] = r]
  BY <1>1 DEF RequestBuildCancellation, Assignment
<1>4. "CANCELLED" \in BuildStatus /\ build' = [build EXCEPT ![b].status = "CANCELLED"]
  BY DEF RequestBuildCancellation, BuildStatus
<1>5. /\ asg' \in [Builds -> Assignment] /\ asg'[b] = r
      /\ \A c \in Builds \ {b} : asg'[c] = asg[c]
  <2>. HIDE DEF r
  <2>. QED BY <1>1, <1>2, <1>3, RowWrite
<1>. QED BY <1>1, <1>4, <1>5, StatusWrite DEF Assignment

LEMMA DeleteWrite ==
  ASSUME TypeOK, NEW b \in Builds, DeleteBuildRows(b)
  PROVE  /\ build' \in [Builds -> BuildRow] /\ asg' \in [Builds -> Assignment]
         /\ row' \in [Builds -> ArtifactRow]
         /\ build'[b].status = "deleted" /\ build'[b].mode = build[b].mode
         /\ asg'[b] = NoAssignment /\ row'[b] = NoRow
         /\ \A c \in Builds \ {b} :
              build'[c] = build[c] /\ asg'[c] = asg[c] /\ row'[c] = row[c]
<1>1. /\ build[b] \in BuildRow /\ build \in [Builds -> BuildRow]
      /\ asg \in [Builds -> Assignment] /\ row \in [Builds -> ArtifactRow]
  BY DEF TypeOK
<1>2. /\ [build[b] EXCEPT !.status = "deleted", !.oci = None] \in BuildRow
      /\ NoAssignment \in Assignment /\ NoRow \in ArtifactRow
  BY <1>1 DEF BuildRow, NoAssignment, Assignment, NoRow, ArtifactRow
<1>3. /\ build' = [build EXCEPT ![b] = [build[b] EXCEPT !.status = "deleted", !.oci = None]]
      /\ asg' = [asg EXCEPT ![b] = NoAssignment] /\ row' = [row EXCEPT ![b] = NoRow]
  BY <1>1 DEF DeleteBuildRows
<1>4. /\ build' \in [Builds -> BuildRow]
      /\ build'[b] = [build[b] EXCEPT !.status = "deleted", !.oci = None]
      /\ \A c \in Builds \ {b} : build'[c] = build[c]
  BY <1>1, <1>2, <1>3, RowWrite
<1>5. /\ asg' \in [Builds -> Assignment] /\ asg'[b] = NoAssignment
      /\ \A c \in Builds \ {b} : asg'[c] = asg[c]
  BY <1>1, <1>2, <1>3, RowWrite
<1>6. /\ row' \in [Builds -> ArtifactRow] /\ row'[b] = NoRow
      /\ \A c \in Builds \ {b} : row'[c] = row[c]
  BY <1>1, <1>2, <1>3, RowWrite
<1>. QED BY <1>1, <1>4, <1>5, <1>6 DEF BuildRow

LEMMA ClaimWrite ==
  ASSUME TypeOK, NEW d \in Builders, NEW b \in Builds, Poll(d, b) \/ PollLost(d, b)
  PROVE  /\ asg' \in [Builds -> Assignment] /\ builder' \in [Builders -> Builder]
         /\ asg'[b].status = "RUNNING" /\ ~asg'[b].cancel /\ asg'[b].builder = d
         /\ \A c \in Builds \ {b} : asg'[c] = asg[c]
         /\ \/ builder' = builder
            \/ builder'[d].at = "solve" /\ builder'[d].build = b
         /\ \A e \in Builders \ {d} : builder'[e] = builder[e]
<1>. DEFINE r == [status |-> "RUNNING", cancel |-> FALSE, builder |-> d, lease |-> TRUE]
            w == [Free EXCEPT !.at = "solve", !.build = b]
<1>1. asg \in [Builds -> Assignment] /\ builder \in [Builders -> Builder]
  BY DEF TypeOK
<1>2. r \in Assignment /\ w \in Builder /\ w.at = "solve" /\ w.build = b
  BY DEF Assignment, Builder, Free
<1>3. asg' = [asg EXCEPT ![b] = r] /\ builder' \in {builder, [builder EXCEPT ![d] = w]}
  BY DEF Poll, PollLost
<1>4. /\ r.status = "RUNNING" /\ ~r.cancel /\ r.builder = d
  OBVIOUS
<1>. HIDE DEF r, w
<1>5. asg' \in [Builds -> Assignment] /\ asg'[b] = r /\ \A c \in Builds \ {b} : asg'[c] = asg[c]
  BY <1>1, <1>2, <1>3, RowWrite
<1>6. CASE builder' = builder
  BY <1>1, <1>4, <1>5, <1>6
<1>7. CASE builder' = [builder EXCEPT ![d] = w]
  <2>1. /\ builder' \in [Builders -> Builder] /\ builder'[d] = w
        /\ \A e \in Builders \ {d} : builder'[e] = builder[e]
    BY <1>1, <1>2, <1>7, RowWrite
  <2>. QED BY <1>2, <1>4, <1>5, <2>1
<1>. QED BY <1>3, <1>6, <1>7

LEMMA LeaseWrite ==
  ASSUME TypeOK, NEW b \in Builds, NEW l \in BOOLEAN, asg' = [asg EXCEPT ![b].lease = l]
  PROVE  /\ asg' \in [Builds -> Assignment]
         /\ \A c \in Builds : /\ asg'[c].status = asg[c].status /\ asg'[c].cancel = asg[c].cancel
                              /\ asg'[c].builder = asg[c].builder
         /\ asg[b] # NoAssignment => asg'[b] # NoAssignment \/ asg[b].status = None
         /\ \A c \in Builds \ {b} : asg'[c] = asg[c]
<1>1. asg[b] \in Assignment /\ asg \in [Builds -> Assignment]
  BY DEF TypeOK
<1>2. [asg[b] EXCEPT !.lease = l] \in Assignment
  BY <1>1, AssignmentColumns DEF Assignment
<1>3. asg' = [asg EXCEPT ![b] = [asg[b] EXCEPT !.lease = l]]
  BY <1>1
<1>4. /\ asg' \in [Builds -> Assignment] /\ asg'[b] = [asg[b] EXCEPT !.lease = l]
      /\ \A c \in Builds \ {b} : asg'[c] = asg[c]
  BY <1>1, <1>2, <1>3, RowWrite
<1>. QED BY <1>1, <1>4 DEF Assignment, NoAssignment

LEMMA BuilderColumns ==
  ASSUME NEW w \in Builder, NEW s \in Results \cup {None}, NEW g \in Digests \cup {None},
         NEW a \in {"idle", "solve", "publish", "wait", "flush", "finish"}
  PROVE  /\ [w EXCEPT !.at = a, !.status = s] \in Builder
         /\ [w EXCEPT !.at = a, !.digest = g] \in Builder
BY DEF Builder

(* What a step of one builder may leave of its record. *)
Steps(d, at, status) ==
  /\ builder' \in [Builders -> Builder]
  /\ builder'[d].at = at /\ builder'[d].status = status
  /\ builder'[d].build = builder[d].build /\ builder'[d].digest = builder[d].digest
  /\ \A e \in Builders \ {d} : builder'[e] = builder[e]

LEMMA GoesWrite ==
  ASSUME TypeOK, NEW d \in Builders, NEW s \in Results \cup {None},
         NEW a \in {"idle", "solve", "publish", "wait", "flush", "finish"}, Goes(d, a, s)
  PROVE  Steps(d, a, s)
<1>1. builder[d] \in Builder /\ builder \in [Builders -> Builder]
  BY DEF TypeOK
<1>2. [builder[d] EXCEPT !.at = a, !.status = s] \in Builder
  BY <1>1, BuilderColumns
<1>3. builder' = [builder EXCEPT ![d] = [builder[d] EXCEPT !.at = a, !.status = s]]
  BY <1>1 DEF Goes
<1>4. /\ builder' \in [Builders -> Builder]
      /\ builder'[d] = [builder[d] EXCEPT !.at = a, !.status = s]
      /\ \A e \in Builders \ {d} : builder'[e] = builder[e]
  BY <1>1, <1>2, <1>3, RowWrite
<1>. QED BY <1>1, <1>4 DEF Builder, Steps

LEMMA HeartbeatWrite ==
  ASSUME TypeOK, NEW d \in Builders, Heartbeat(d)
  PROVE  /\ builder' \in [Builders -> Builder]
         /\ builder'[d].build = builder[d].build /\ builder'[d].digest = builder[d].digest
         /\ \/ builder'[d].at = builder[d].at /\ builder'[d].status = builder[d].status
            \/ builder'[d].at = "flush" /\ builder'[d].status = "CANCELLED"
         /\ \A e \in Builders \ {d} : builder'[e] = builder[e]
<1>1. builder[d] \in Builder /\ builder \in [Builders -> Builder]
  BY DEF TypeOK
<1>. DEFINE solving == builder[d].at = "solve"
            w == [builder[d] EXCEPT !.told = TRUE,
                    !.at = IF solving THEN "flush" ELSE builder[d].at,
                    !.status = IF solving THEN "CANCELLED" ELSE builder[d].status]
<1>2. builder' = builder \/ builder' = [builder EXCEPT ![d] = w]
  BY <1>1 DEF Heartbeat
<1>3. w \in Builder
  BY <1>1 DEF Builder, Results
<1>4. /\ w.build = builder[d].build /\ w.digest = builder[d].digest
      /\ \/ w.at = builder[d].at /\ w.status = builder[d].status
         \/ w.at = "flush" /\ w.status = "CANCELLED"
  BY <1>1 DEF Builder
<1>5. CASE builder' = builder
  BY <1>1, <1>5
<1>6. CASE builder' = [builder EXCEPT ![d] = w]
  <2>. HIDE DEF w
  <2>1. /\ builder' \in [Builders -> Builder] /\ builder'[d] = w
        /\ \A e \in Builders \ {d} : builder'[e] = builder[e]
    BY <1>1, <1>3, <1>6, RowWrite
  <2>. QED BY <1>4, <2>1
<1>. QED BY <1>2, <1>5, <1>6

LEMMA SolvedWrite ==
  ASSUME TypeOK, NEW d \in Builders, Solved(d)
  PROVE  \/ Steps(d, "flush", "FAILED")
         \/ /\ builder' \in [Builders -> Builder]
            /\ builder'[d].at = "publish" /\ builder'[d].build = builder[d].build
            /\ builder'[d].digest \in Digests
            /\ \A e \in Builders \ {d} : builder'[e] = builder[e]
<1>1. builder[d] \in Builder /\ builder \in [Builders -> Builder]
  BY DEF TypeOK
<1>2. ASSUME NEW g \in Digests,
             builder' = [builder EXCEPT ![d].at = "publish", ![d].digest = g]
      PROVE  /\ builder' \in [Builders -> Builder]
             /\ builder'[d].at = "publish" /\ builder'[d].build = builder[d].build
             /\ builder'[d].digest \in Digests
             /\ \A e \in Builders \ {d} : builder'[e] = builder[e]
  <2>1. [builder[d] EXCEPT !.at = "publish", !.digest = g] \in Builder
    BY <1>1, BuilderColumns
  <2>2. builder' = [builder EXCEPT ![d] = [builder[d] EXCEPT !.at = "publish", !.digest = g]]
    BY <1>1, <1>2
  <2>3. /\ builder' \in [Builders -> Builder]
        /\ builder'[d] = [builder[d] EXCEPT !.at = "publish", !.digest = g]
        /\ \A e \in Builders \ {d} : builder'[e] = builder[e]
    BY <1>1, <2>1, <2>2, RowWrite
  <2>. QED BY <1>1, <2>3 DEF Builder
<1>3. CASE Goes(d, "flush", "FAILED")
  BY <1>3, GoesWrite DEF Results
<1>. QED BY <1>2, <1>3 DEF Solved

LEMMA FinishWrite ==
  ASSUME TypeOK, NEW d \in Builders, BuilderOK(d), Finish(d),
         NEW b, b = builder[d].build, NEW s, s = Result(b, builder[d].status)
  PROVE  /\ b \in Builds /\ s \in Results
         /\ build' \in [Builds -> BuildRow] /\ asg' \in [Builds -> Assignment]
         /\ builder' \in [Builders -> Builder]
         /\ IF build[b].status # "BUILDING" THEN build' = build
            ELSE /\ build'[b].status = s /\ build'[b].mode = build[b].mode
                 /\ s = "SUCCEEDED" => build'[b].oci = builder[d].digest
         /\ asg'[b].status = s /\ asg'[b].cancel = asg[b].cancel
         /\ asg'[b].builder = asg[b].builder
         /\ \A c \in Builds \ {b} : build'[c] = build[c] /\ asg'[c] = asg[c]
         /\ builder'[d].at # "solve"
         /\ builder' = builder \/ builder' = [builder EXCEPT ![d] = Free]
<1>1. /\ asg \in [Builds -> Assignment] /\ build \in [Builds -> BuildRow]
      /\ builder \in [Builders -> Builder] /\ builder[d] \in Builder
  BY DEF TypeOK
<1>2. b \in Builds /\ builder[d].status \in Results
  BY DEF BuilderOK, Finish
<1>3. s \in Results /\ Free \in Builder
  BY <1>2 DEF Result, Results, Free, Builder
<1>4. asg[b] \in Assignment /\ build[b] \in BuildRow
  BY <1>1, <1>2
<1>. DEFINE g == IF s = "SUCCEEDED" THEN builder[d].digest ELSE None
            r == [build[b] EXCEPT !.status = s, !.oci = g]
            a == [asg[b] EXCEPT !.status = s, !.lease = FALSE]
<1>5. g \in Digests \cup {None} /\ s \in BuildStatus
  BY <1>1, <1>3 DEF Builder, Results, BuildStatus
<1>6. r \in BuildRow /\ a \in Assignment
  BY <1>3, <1>4, <1>5, BuildColumns, AssignmentColumns
<1>7. /\ asg' = [asg EXCEPT ![b] = a]
      /\ IF build[b].status # "BUILDING" THEN build' = build
         ELSE build' = [build EXCEPT ![b] = r]
      /\ builder' = builder \/ builder' = [builder EXCEPT ![d] = Free]
  BY <1>1, <1>2, <1>4 DEF Finish
<1>8. /\ r.status = s /\ r.mode = build[b].mode /\ r.oci = g
      /\ a.status = s /\ a.cancel = asg[b].cancel /\ a.builder = asg[b].builder
  BY <1>4 DEF BuildRow, Assignment
<1>9. s = "SUCCEEDED" => g = builder[d].digest
  OBVIOUS
<1>10. builder' \in [Builders -> Builder] /\ builder'[d].at # "solve"
  <2>1. builder[d].at = "finish" /\ Free.at = "idle"
    BY DEF Finish, Free
  <2>2. CASE builder' = builder
    BY <1>1, <2>1, <2>2
  <2>3. CASE builder' = [builder EXCEPT ![d] = Free]
    BY <1>1, <1>3, <2>1, <2>3, RowWrite
  <2>. QED BY <1>7, <2>2, <2>3
<1>. HIDE DEF g, r, a
<1>11. asg' \in [Builds -> Assignment] /\ asg'[b] = a /\ \A c \in Builds \ {b} : asg'[c] = asg[c]
  BY <1>1, <1>2, <1>6, <1>7, RowWrite
<1>12. CASE build[b].status # "BUILDING"
  BY <1>1, <1>2, <1>3, <1>7, <1>8, <1>10, <1>11, <1>12
<1>13. CASE build[b].status = "BUILDING"
  <2>1. /\ build' \in [Builds -> BuildRow] /\ build'[b] = r
        /\ \A c \in Builds \ {b} : build'[c] = build[c]
    BY <1>1, <1>2, <1>6, <1>7, <1>13, RowWrite
  <2>. QED BY <1>2, <1>3, <1>7, <1>8, <1>9, <1>10, <1>11, <1>13, <2>1
<1>. QED BY <1>12, <1>13

(* An answer ends a builder's waiting, and a death of the server every one. *)
Answered ==
  /\ builder' \in [Builders -> Builder]
  /\ \A d \in Builders :
       \/ builder'[d] = builder[d]
       \/ /\ builder[d].at = "wait" /\ builder'[d].at = "flush"
          /\ builder'[d].status \in Results /\ builder'[d].build = builder[d].build

LEMMA AnswerWrite ==
  ASSUME TypeOK, NEW u \in uploads, NEW s \in Results, Answer(u, "flush", s)
  PROVE  Answered
<1>. DEFINE d == u.by
            w == [builder[d] EXCEPT !.at = "flush", !.status = s]
<1>1. /\ d \in Builders /\ builder[d] \in Builder /\ builder \in [Builders -> Builder]
  BY DEF TypeOK, Upload
<1>2. w \in Builder /\ w.at = "flush" /\ w.status = s /\ w.build = builder[d].build
  BY <1>1 DEF Builder
<1>3. builder' = builder \/ (builder' = [builder EXCEPT ![d] = w] /\ builder[d].at = "wait")
  BY <1>1 DEF Answer
<1>4. CASE builder' = builder
  BY <1>1, <1>4 DEF Answered
<1>5. CASE builder' = [builder EXCEPT ![d] = w] /\ builder[d].at = "wait"
  <2>. HIDE DEF w, d
  <2>1. /\ builder' \in [Builders -> Builder] /\ builder'[d] = w
        /\ \A e \in Builders \ {d} : builder'[e] = builder[e]
    BY <1>1, <1>2, <1>5, RowWrite
  <2>. QED BY <1>2, <1>5, <2>1 DEF Answered
<1>. QED BY <1>3, <1>4, <1>5

LEMMA FailsWrite ==
  ASSUME TypeOK, NEW u \in uploads, Fails(u)
  PROVE  Answered
<1>1. Failure(u.by) \in Results
  BY DEF Failure, Results
<1>. QED BY <1>1, AnswerWrite DEF Fails

LEMMA DeathWrite ==
  ASSUME TypeOK, ServerDies
  PROVE  Answered
<1>1. builder \in [Builders -> Builder] /\ \A d \in Builders : Failure(d) \in Results
  BY DEF TypeOK, Failure, Results
<1>. DEFINE w(d) == [builder[d] EXCEPT !.at = "flush", !.status = Failure(d)]
<1>2. \A d \in Builders : /\ w(d) \in Builder /\ w(d).at = "flush"
                          /\ w(d).status = Failure(d) /\ w(d).build = builder[d].build
  <2>1. TAKE d \in Builders
  <2>2. builder[d] \in Builder /\ Failure(d) \in Results
    BY <1>1
  <2>. QED BY <2>2 DEF Builder
<1>3. builder' = [d \in Builders |-> IF builder[d].at = "wait" THEN w(d) ELSE builder[d]]
  BY DEF ServerDies
<1>. HIDE DEF w
<1>. QED BY <1>1, <1>2, <1>3 DEF Answered

(* Every step keeps the types. *)
LEMMA CreationType ==
  ASSUME TypeOK, NEW b \in Builds, Creation(b)
  PROVE  TypeOK'
<1>1. CASE CreateBuild(b)
  <2>1. build' \in [Builds -> BuildRow]
    BY <1>1, CreateWrite
  <2>2. analysis' \in [Builds -> {"no", "created", "analyzing"}]
    BY <1>1 DEF CreateBuild, TypeOK
  <2>. QED BY <1>1, <2>1, <2>2 DEF CreateBuild, TypeOK
<1>2. ASSUME AnalysisStarts(b) \/ AnalysisFails(b) PROVE TypeOK'
  <2>1. \/ build' = build \/ build' = [build EXCEPT ![b].status = "ANALYZING"]
        \/ build' = [build EXCEPT ![b].status = "FAILED"]
    BY <1>2 DEF AnalysisStarts, AnalysisFails
  <2>2. build' \in [Builds -> BuildRow]
    BY <2>1, StatusWrite DEF TypeOK, BuildStatus
  <2>3. analysis' \in [Builds -> {"no", "created", "analyzing"}]
    BY <1>2 DEF AnalysisStarts, AnalysisFails, TypeOK
  <2>. QED BY <1>2, <2>2, <2>3 DEF AnalysisStarts, AnalysisFails, TypeOK
<1>3. CASE AnalysisSucceeds(b)
  BY <1>3 DEF AnalysisSucceeds, TypeOK
<1>. QED BY <1>1, <1>2, <1>3 DEF Creation

LEMMA RequestType ==
  ASSUME TypeOK, NEW b \in Builds, Request(b) \/ CancelEnds(b) \/ RemoveFiles(b)
  PROVE  TypeOK'
<1>1. CASE ConfirmBuild(b)
  <2>1. build' \in [Builds -> BuildRow] /\ asg' \in [Builds -> Assignment]
    BY <1>1, ConfirmWrite
  <2>. QED BY <1>1, <2>1 DEF ConfirmBuild, TypeOK
<1>2. CASE BeginCancel(b)
  <2>1. cancelling' \in [Builds -> BuildStatus \cup {None}]
    BY <1>2 DEF BeginCancel, TypeOK, Exists
  <2>2. cancels' \in 0 .. MaxCancels
    BY <1>2, BoundsAssumption DEF BeginCancel, TypeOK
  <2>. QED BY <1>2, <2>1, <2>2 DEF BeginCancel, TypeOK, server
<1>3. CASE DeleteBuildRows(b)
  <2>1. /\ build' \in [Builds -> BuildRow] /\ asg' \in [Builds -> Assignment]
        /\ row' \in [Builds -> ArtifactRow]
    BY <1>3, DeleteWrite
  <2>. QED BY <1>3, <2>1 DEF DeleteBuildRows, TypeOK
<1>4. CASE Collect(b)
  <2>1. row' \in [Builds -> ArtifactRow]
    BY <1>4 DEF Collect, TypeOK, NoRow, ArtifactRow
  <2>. QED BY <1>4, <2>1 DEF Collect, TypeOK
<1>5. CASE CancelBuilding(b)
  <2>1. build' \in [Builds -> BuildRow] /\ asg' \in [Builds -> Assignment]
    BY <1>5, CancellationWrite DEF CancelBuilding, TypeOK
  <2>2. cancelling' \in [Builds -> BuildStatus \cup {None}]
    BY <1>5 DEF CancelBuilding, TypeOK
  <2>. QED BY <1>5, <2>1, <2>2 DEF CancelBuilding, TypeOK
<1>6. CASE CancelOther(b)
  <2>1. build' = build \/ build' = [build EXCEPT ![b].status = "CANCELLED"]
    BY <1>6 DEF CancelOther
  <2>2. build' \in [Builds -> BuildRow]
    BY <2>1, StatusWrite DEF TypeOK, BuildStatus
  <2>3. cancelling' \in [Builds -> BuildStatus \cup {None}]
    BY <1>6 DEF CancelOther, TypeOK
  <2>. QED BY <1>6, <2>2, <2>3 DEF CancelOther, TypeOK
<1>7. CASE RemoveFiles(b)
  BY <1>7 DEF RemoveFiles, TypeOK
<1>. QED BY <1>1, <1>2, <1>3, <1>4, <1>5, <1>6, <1>7 DEF Request, CancelEnds

LEMMA JobType ==
  ASSUME TypeOK, NEW j \in Jobs,
         DeleteJob(j) \/ \E b \in Builds : CreateJobWithManagedArtifact(j, b)
  PROVE  TypeOK'
<1>1. job' \in [Jobs -> [status : {"absent", "live", "DELETED"}, build : Builds \cup {None}]]
  BY DEF DeleteJob, CreateJobWithManagedArtifact, TypeOK
<1>. QED BY <1>1 DEF DeleteJob, CreateJobWithManagedArtifact, TypeOK

LEMMA FaultType ==
  ASSUME TypeOK, Fault
  PROVE  faults' \in 0 .. MaxFaults
BY BoundsAssumption DEF TypeOK, Fault

LEMMA BuilderType ==
  ASSUME TypeOK, NEW d \in Builders, BuilderOK(d),
         Build(d) \/ BuilderDies(d) \/ \E b \in Builds : Poll(d, b) \/ PollLost(d, b)
  PROVE  TypeOK'
<1>1. ASSUME NEW b \in Builds, Poll(d, b) \/ PollLost(d, b) PROVE TypeOK'
  <2>1. asg' \in [Builds -> Assignment] /\ builder' \in [Builders -> Builder]
    BY <1>1, ClaimWrite
  <2>2. faults' \in 0 .. MaxFaults
    BY <1>1, FaultType DEF Poll, PollLost, TypeOK
  <2>. QED BY <1>1, <2>1, <2>2 DEF Poll, PollLost, TypeOK
<1>2. CASE BuilderDies(d)
  <2>1. builder' \in [Builders -> Builder]
    BY <1>2 DEF BuilderDies, TypeOK, Free, Builder
  <2>2. faults' \in 0 .. MaxFaults
    BY <1>2, FaultType DEF BuilderDies
  <2>. QED BY <1>2, <2>1, <2>2 DEF BuilderDies, TypeOK, server
<1>3. CASE Heartbeat(d)
  <2>1. builder' \in [Builders -> Builder]
    BY <1>3, HeartbeatWrite
  <2>2. builder[d].build \in Builds
    BY <1>3 DEF Heartbeat, Works, BuilderOK
  <2>3. asg' \in [Builds -> Assignment]
    BY <1>3, <2>2, LeaseWrite DEF Heartbeat
  <2>. QED BY <1>3, <2>1, <2>3 DEF Heartbeat, TypeOK
<1>4. CASE Solved(d)
  <2>1. builder' \in [Builders -> Builder]
    BY <1>4, SolvedWrite DEF Steps
  <2>. QED BY <1>4, <2>1 DEF Solved, TypeOK, server
<1>5. CASE FlushLog(d)
  <2>1. builder[d].status \in Results \cup {None}
    BY DEF TypeOK, Builder
  <2>2. builder' \in [Builders -> Builder]
    BY <1>5, <2>1, GoesWrite DEF FlushLog, Steps
  <2>. QED BY <1>5, <2>2 DEF FlushLog, TypeOK, server
<1>6. CASE Publish(d)
  <2>1. builder' \in [Builders -> Builder]
    BY <1>6, GoesWrite DEF Publish, Steps, Failure, Results
  <2>2. uploads' \subseteq Upload /\ raced' \subseteq Builds
    <3>1. builder[d].build \in Builds /\ builder[d].digest \in Digests
      BY <1>6 DEF Publish, BuilderOK
    <3>2. [build |-> builder[d].build, by |-> d, digest |-> builder[d].digest, at |-> "look",
           sha |-> None, created |-> FALSE] \in Upload
      BY <3>1 DEF Upload
    <3>. QED BY <1>6, <3>1, <3>2 DEF Publish, TypeOK
  <2>. QED BY <1>6, <2>1, <2>2 DEF Publish, TypeOK, server
<1>7. CASE Finish(d)
  <2>1. /\ build' \in [Builds -> BuildRow] /\ asg' \in [Builds -> Assignment]
        /\ builder' \in [Builders -> Builder]
    BY <1>7, FinishWrite
  <2>2. faults' \in 0 .. MaxFaults
    BY <1>7, FaultType DEF Finish, TypeOK
  <2>. QED BY <1>7, <2>1, <2>2 DEF Finish, TypeOK
<1>. QED BY <1>1, <1>2, <1>3, <1>4, <1>5, <1>6, <1>7 DEF Build

LEMMA UploadType ==
  ASSUME TypeOK, NEW u \in uploads, Serve(u) \/ UploadFails(u)
  PROVE  TypeOK'
<1>1. u \in Upload /\ u.build \in Builds /\ u.digest \in Digests
      /\ file[u.build] \in Digests \cup {None} /\ u.sha \in Digests \cup {None}
  BY DEF TypeOK, Upload
<1>2. /\ [u EXCEPT !.at = "write"] \in Upload /\ [u EXCEPT !.at = "undo"] \in Upload
      /\ [u EXCEPT !.at = "save", !.sha = file[u.build]] \in Upload
  BY <1>1 DEF Upload
<1>3. [u EXCEPT !.at = "save", !.sha = u.digest, !.created = TRUE] \in Upload
  BY <1>1 DEF Upload
<1>4. CASE Look(u)
  <2>1. uploads' \subseteq Upload
    BY <1>2, <1>4 DEF Look, Becomes, TypeOK
  <2>. QED BY <1>4, <2>1 DEF Look, TypeOK, server
<1>5. CASE Write(u)
  <2>1. uploads' \subseteq Upload
    BY <1>3, <1>5 DEF Write, Becomes, TypeOK
  <2>2. file' \in [Builds -> Digests \cup {None}]
    BY <1>1, <1>5 DEF Write, TypeOK
  <2>. QED BY <1>5, <2>1, <2>2 DEF Write, TypeOK
<1>6. CASE Save(u)
  <2>1. uploads' \subseteq Upload
    BY <1>2, <1>6 DEF Save, Becomes, Leave, TypeOK
  <2>2. builder' \in [Builders -> Builder]
    BY <1>6, AnswerWrite, FailsWrite DEF Save, Answered, TypeOK, Results
  <2>3. row' \in [Builds -> ArtifactRow]
    <3>1. [digest |-> u.digest, sha |-> u.sha] \in ArtifactRow
      BY <1>1 DEF ArtifactRow
    <3>. QED BY <1>1, <1>6, <3>1 DEF Save, TypeOK
  <2>. QED BY <1>6, <2>1, <2>2, <2>3 DEF Save, TypeOK
<1>7. CASE Undo(u)
  <2>1. uploads' \subseteq Upload /\ file' \in [Builds -> Digests \cup {None}]
    BY <1>7 DEF Undo, Leave, TypeOK
  <2>2. builder' \in [Builders -> Builder]
    BY <1>7, FailsWrite DEF Undo, Answered
  <2>. QED BY <1>7, <2>1, <2>2 DEF Undo, TypeOK
<1>8. CASE UploadFails(u)
  <2>1. uploads' \subseteq Upload
    BY <1>2, <1>8 DEF UploadFails, Becomes, Leave, TypeOK
  <2>2. builder' \in [Builders -> Builder]
    BY <1>8, FailsWrite DEF UploadFails, Answered, TypeOK
  <2>3. faults' \in 0 .. MaxFaults
    BY <1>8, FaultType DEF UploadFails
  <2>. QED BY <1>8, <2>1, <2>2, <2>3 DEF UploadFails, TypeOK, server
<1>. QED BY <1>4, <1>5, <1>6, <1>7, <1>8 DEF Serve

LEMMA NextType ==
  ASSUME TypeOK, \A d \in Builders : BuilderOK(d), [Next]_vars
  PROVE  TypeOK'
<1>1. ASSUME NEW b \in Builds, LeaseExpires(b) \/ LogLimit(b) PROVE TypeOK'
  <2>1. asg' \in [Builds -> Assignment]
    BY <1>1, LeaseWrite DEF LeaseExpires, LogLimit, TypeOK
  <2>2. faults' \in 0 .. MaxFaults
    BY <1>1, FaultType DEF LeaseExpires, LogLimit
  <2>. QED BY <1>1, <2>1, <2>2 DEF LeaseExpires, LogLimit, TypeOK
<1>2. CASE ServerDies
  <2>1. builder' \in [Builders -> Builder]
    BY <1>2, DeathWrite DEF Answered
  <2>2. faults' \in 0 .. MaxFaults
    BY <1>2, FaultType DEF ServerDies
  <2>3. /\ analysis' \in [Builds -> {"no", "created", "analyzing"}]
        /\ cancelling' \in [Builds -> BuildStatus \cup {None}]
        /\ uploads' \subseteq Upload /\ doomed' \subseteq Builds /\ raced' \subseteq Builds
    BY <1>2 DEF ServerDies, TypeOK
  <2>. QED BY <1>2, <2>1, <2>2, <2>3 DEF ServerDies, TypeOK
<1>3. CASE UNCHANGED vars
  BY <1>3 DEF vars, server, TypeOK
<1>. QED BY <1>1, <1>2, <1>3, CreationType, RequestType, JobType, BuilderType, UploadType DEF Next

(* The builders. *)
LEMMA NextBuilders ==
  ASSUME TypeOK, \A d \in Builders : BuilderOK(d), [Next]_vars
  PROVE  \A d \in Builders : BuilderOK(d)'
<1>1. CASE builder' = builder
  BY <1>1 DEF BuilderOK
<1>2. CASE Answered
  BY <1>2 DEF Answered, BuilderOK
<1>3. ASSUME NEW d \in Builders, BuilderOK(d)',
             \A e \in Builders \ {d} : builder'[e] = builder[e]
      PROVE  \A e \in Builders : BuilderOK(e)'
  BY <1>3 DEF BuilderOK
<1>4. ASSUME NEW d \in Builders, NEW b \in Builds, Poll(d, b) \/ PollLost(d, b)
      PROVE  \A e \in Builders : BuilderOK(e)'
  <2>1. CASE builder' = builder
    BY <1>1, <2>1
  <2>2. CASE builder'[d].at = "solve" /\ builder'[d].build = b
    BY <1>3, <1>4, <2>2, ClaimWrite DEF BuilderOK
  <2>. QED BY <1>4, <2>1, <2>2, ClaimWrite
<1>5. ASSUME NEW d \in Builders, BuilderDies(d) \/ Finish(d)
      PROVE  \A e \in Builders : BuilderOK(e)'
  <2>1. CASE builder' = [builder EXCEPT ![d] = Free]
    <3>1. builder \in [Builders -> Builder] /\ Free \in Builder /\ Free.at = "idle"
      BY DEF TypeOK, Builder, Free
    <3>2. builder'[d] = Free /\ \A e \in Builders \ {d} : builder'[e] = builder[e]
      BY <2>1, <3>1, RowWrite
    <3>. QED BY <1>3, <3>1, <3>2 DEF BuilderOK
  <2>. QED BY <1>1, <1>5, <2>1 DEF BuilderDies, Finish
<1>6. ASSUME NEW d \in Builders, Heartbeat(d)
      PROVE  \A e \in Builders : BuilderOK(e)'
  <2>1. builder[d].at # "idle" /\ builder[d].at \notin {"flush", "finish"}
    BY <1>6 DEF Heartbeat, Works
  <2>2. builder[d].build \in Builds
    BY <2>1 DEF BuilderOK
  <2>3. BuilderOK(d)'
    BY <1>6, <2>1, <2>2, HeartbeatWrite DEF BuilderOK, Results
  <2>. QED BY <1>3, <1>6, <2>3, HeartbeatWrite
<1>7. ASSUME NEW d \in Builders, Solved(d)
      PROVE  \A e \in Builders : BuilderOK(e)'
  <2>1. builder[d].build \in Builds
    BY <1>7 DEF Solved, BuilderOK
  <2>2. BuilderOK(d)'
    BY <1>7, <2>1, SolvedWrite DEF Steps, BuilderOK, Results
  <2>. QED BY <1>3, <1>7, <2>2, SolvedWrite DEF Steps
<1>8. ASSUME NEW d \in Builders, FlushLog(d)
      PROVE  \A e \in Builders : BuilderOK(e)'
  <2>1. builder[d].build \in Builds /\ builder[d].status \in Results
    BY <1>8 DEF FlushLog, BuilderOK
  <2>2. Steps(d, "finish", builder[d].status)
    BY <1>8, <2>1, GoesWrite DEF FlushLog
  <2>. QED BY <1>3, <2>1, <2>2 DEF Steps, BuilderOK
<1>9. ASSUME NEW d \in Builders, Publish(d)
      PROVE  \A e \in Builders : BuilderOK(e)'
  <2>1. builder[d].build \in Builds /\ builder[d].digest \in Digests
    BY <1>9 DEF Publish, BuilderOK
  <2>2. Failure(d) \in Results
    BY DEF Failure, Results
  <2>3. Steps(d, "wait", None) \/ Steps(d, "flush", Failure(d))
    BY <1>9, <2>2, GoesWrite DEF Publish
  <2>. QED BY <1>3, <2>1, <2>2, <2>3 DEF Steps, BuilderOK
<1>10. ASSUME NEW u \in uploads, Serve(u) \/ UploadFails(u)
       PROVE  \A e \in Builders : BuilderOK(e)'
  <2>1. Answered \/ builder' = builder
    BY <1>10, AnswerWrite, FailsWrite
       DEF Serve, Look, Write, Save, Undo, UploadFails, Results
  <2>. QED BY <1>1, <1>2, <2>1
<1>11. CASE ServerDies
  BY <1>2, <1>11, DeathWrite
<1>12. ASSUME NEW b \in Builds,
              Creation(b) \/ Request(b) \/ CancelEnds(b) \/ RemoveFiles(b)
                \/ LeaseExpires(b) \/ LogLimit(b)
       PROVE  builder' = builder
  BY <1>12 DEF Creation, CreateBuild, AnalysisStarts, AnalysisFails, AnalysisSucceeds,
     Request, ConfirmBuild, BeginCancel, DeleteBuildRows, Collect, CancelEnds,
     CancelBuilding, CancelOther, RemoveFiles, LeaseExpires, LogLimit
<1>13. ASSUME NEW j \in Jobs, DeleteJob(j) \/ \E b \in Builds : CreateJobWithManagedArtifact(j, b)
       PROVE  builder' = builder
  BY <1>13 DEF DeleteJob, CreateJobWithManagedArtifact
<1>14. CASE UNCHANGED vars
  BY <1>1, <1>14 DEF vars
<1>. QED BY <1>1, <1>4, <1>5, <1>6, <1>7, <1>8, <1>9, <1>10, <1>11, <1>12, <1>13, <1>14
        DEF Next, Build

(* Builds, plans and assignments. *)
AssignmentInv ==
  /\ BuildAgreesWithAssignment
  /\ \A b \in Builds : AnalysisOK(b) /\ AssignmentOK(b)

(* A step that leaves the rows of other builds alone has only its own      *)
(* build to account for.                                                   *)
BuildInv(b) ==
  /\ build[b].status = "BUILDING"
       => asg[b].status \in {"PENDING", "RUNNING"} /\ ~asg[b].cancel
  /\ asg[b].status \in {"PENDING", "RUNNING"} => build[b].status \in {"BUILDING", "CANCELLED"}
  /\ build[b].status = "SUCCEEDED" <=> asg[b].status = "SUCCEEDED"
  /\ AnalysisOK(b) /\ AssignmentOK(b)
Other(b, c) ==
  /\ build'[c] = build[c] /\ asg'[c] = asg[c] /\ analysis'[c] = analysis[c]
  /\ c \in plans' <=> c \in plans

LEMMA OnBuilds == AssignmentInv <=> \A b \in Builds : BuildInv(b)
BY DEF AssignmentInv, BuildAgreesWithAssignment, BuildInv

LEMMA OneBuild ==
  ASSUME AssignmentInv, NEW b \in Builds, BuildInv(b)', \A c \in Builds \ {b} : Other(b, c)
  PROVE  AssignmentInv'
<1>1. ASSUME NEW c \in Builds \ {b} PROVE BuildInv(c)'
  <2>1. BuildInv(c) /\ Other(b, c)
    BY OnBuilds
  <2>. QED BY <2>1 DEF Other, BuildInv, AnalysisOK, AssignmentOK, Railpack
<1>2. \A c \in Builds : BuildInv(c)'
  BY <1>1
<1>. QED BY <1>2 DEF AssignmentInv, BuildAgreesWithAssignment, BuildInv

LEMMA SameBuilds ==
  ASSUME AssignmentInv, UNCHANGED <<build, asg, analysis, plans>>
  PROVE  AssignmentInv'
BY DEF AssignmentInv, BuildAgreesWithAssignment, AnalysisOK, AssignmentOK, Railpack

(* A build that is not confirmed has no assignment to disagree with.       *)
LEMMA NoAssignmentOpen ==
  /\ NoAssignment.status \notin {"PENDING", "RUNNING"} \cup Results
  /\ ~NoAssignment.cancel
BY StatusAssumption DEF NoAssignment, BuildStatus, Results

LEMMA CreationAssignments ==
  ASSUME TypeOK, AssignmentInv, NEW b \in Builds, Creation(b)
  PROVE  AssignmentInv'
<1>1. /\ BuildInv(b) /\ build[b] \in BuildRow
      /\ analysis \in [Builds -> {"no", "created", "analyzing"}]
  BY OnBuilds DEF TypeOK
<1>2. CASE CreateBuild(b)
  <2>1. analysis'[b] # "no" => build'[b].mode = "RAILPACK"
    BY <1>1, <1>2 DEF CreateBuild, Railpack
  <2>2. /\ asg[b] = NoAssignment /\ b \notin plans
        /\ build[b].status = "absent" /\ build'[b].status = "CREATED"
    BY <1>1, <1>2, CreateWrite DEF BuildInv, AnalysisOK, AssignmentOK, Unconfirmed
  <2>3. BuildInv(b)'
    <3>1. asg'[b] = NoAssignment /\ plans' = plans
      BY <1>2, <2>2 DEF CreateBuild
    <3>. QED BY <2>1, <2>2, <3>1, NoAssignmentOpen
            DEF BuildInv, AnalysisOK, AssignmentOK, Unconfirmed, Railpack, Results
  <2>4. \A c \in Builds \ {b} : Other(b, c)
    BY <1>1, <1>2, CreateWrite DEF CreateBuild, Other
  <2>. QED BY <2>3, <2>4, OneBuild
<1>3. CASE AnalysisStarts(b)
  <2>1. CASE build' = [build EXCEPT ![b].status = "ANALYZING"] /\ CanUpdate(b, "ANALYZING")
    <3>1. /\ build'[b].status = "ANALYZING" /\ build'[b].mode = build[b].mode
          /\ \A c \in Builds \ {b} : build'[c] = build[c]
      BY <2>1, StatusWrite DEF BuildStatus
    <3>2. build[b].status \in {"CREATED", "ANALYZING"}
      BY <2>1 DEF CanUpdate, Exists, CanBuildTransition, Allowed, BuildStatus, Results
    <3>3. asg[b] = NoAssignment
      BY <1>1, <3>2 DEF BuildInv, AssignmentOK, Unconfirmed
    <3>4. BuildInv(b)'
      <4>1. asg'[b] = NoAssignment /\ plans' = plans /\ analysis[b] # "no"
        BY <1>3, <3>3 DEF AnalysisStarts
      <4>2. Railpack(b)' /\ b \notin plans'
        BY <1>1, <3>1, <4>1 DEF BuildInv, AnalysisOK, Railpack
      <4>. QED BY <3>1, <4>1, <4>2, NoAssignmentOpen
              DEF BuildInv, AnalysisOK, AssignmentOK, Unconfirmed, Results
    <3>5. \A c \in Builds \ {b} : Other(b, c)
      BY <1>1, <1>3, <3>1 DEF AnalysisStarts, Other
    <3>. QED BY <3>4, <3>5, OneBuild
  <2>2. CASE build' = build
    <3>1. BuildInv(b)'
      BY <1>1, <1>3, <2>2 DEF AnalysisStarts, BuildInv, AnalysisOK, AssignmentOK, Railpack
    <3>2. \A c \in Builds \ {b} : Other(b, c)
      BY <1>1, <1>3, <2>2 DEF AnalysisStarts, Other
    <3>. QED BY <3>1, <3>2, OneBuild
  <2>. QED BY <1>3, <2>1, <2>2 DEF AnalysisStarts
<1>4. CASE AnalysisFails(b)
  <2>1. CASE build' = [build EXCEPT ![b].status = "FAILED"] /\ CanUpdate(b, "FAILED")
    <3>1. /\ build'[b].status = "FAILED" /\ build'[b].mode = build[b].mode
          /\ \A c \in Builds \ {b} : build'[c] = build[c]
      BY <2>1, StatusWrite DEF BuildStatus
    <3>2. build[b].status \in {"CREATED", "ANALYZING", "BUILDING", "FAILED"}
      BY <2>1 DEF CanUpdate, Exists, CanBuildTransition, Allowed, BuildStatus, Results
    <3>3. build[b].status # "BUILDING"
      BY <1>1, <1>4, NoAssignmentOpen DEF AnalysisFails, BuildInv, AnalysisOK, AssignmentOK
    <3>4. asg[b].status \notin {"PENDING", "RUNNING", "SUCCEEDED"} /\ ~asg[b].cancel
      BY <1>1, <3>2, <3>3 DEF BuildInv, AssignmentOK
    <3>5. BuildInv(b)'
      BY <1>1, <1>4, <3>1, <3>4
         DEF AnalysisFails, BuildInv, AnalysisOK, AssignmentOK, Unconfirmed, Railpack
    <3>6. \A c \in Builds \ {b} : Other(b, c)
      BY <1>1, <1>4, <3>1 DEF AnalysisFails, Other
    <3>. QED BY <3>5, <3>6, OneBuild
  <2>2. CASE build' = build
    <3>1. BuildInv(b)'
      BY <1>1, <1>4, <2>2 DEF AnalysisFails, BuildInv, AnalysisOK, AssignmentOK, Railpack
    <3>2. \A c \in Builds \ {b} : Other(b, c)
      BY <1>1, <1>4, <2>2 DEF AnalysisFails, Other
    <3>. QED BY <3>1, <3>2, OneBuild
  <2>. QED BY <1>4, <2>1, <2>2 DEF AnalysisFails
<1>5. CASE AnalysisSucceeds(b)
  <2>1. BuildInv(b)'
    BY <1>1, <1>5 DEF AnalysisSucceeds, SaveBuildPlan, BuildInv, AnalysisOK, AssignmentOK, Railpack
  <2>2. \A c \in Builds \ {b} : Other(b, c)
    BY <1>1, <1>5 DEF AnalysisSucceeds, Other
  <2>. QED BY <2>1, <2>2, OneBuild
<1>. QED BY <1>2, <1>3, <1>4, <1>5 DEF Creation

LEMMA RequestAssignments ==
  ASSUME TypeOK, AssignmentInv, NEW b \in Builds, Request(b) \/ CancelEnds(b)
  PROVE  AssignmentInv'
<1>1. BuildInv(b) /\ build[b] \in BuildRow
  BY OnBuilds DEF TypeOK
<1>2. CASE ConfirmBuild(b)
  <2>1. /\ asg[b] = NoAssignment /\ build[b].status \in {"ANALYZING", "CREATED"}
        /\ Railpack(b) => b \in plans
    BY <1>2 DEF ConfirmBuild, QueueBuild
  <2>2. BuildInv(b)'
    BY <1>1, <1>2, <2>1, ConfirmWrite, NoAssignmentOpen
       DEF ConfirmBuild, BuildInv, AnalysisOK, AssignmentOK, Unconfirmed, Railpack
  <2>3. \A c \in Builds \ {b} : Other(b, c)
    BY <1>2, ConfirmWrite DEF ConfirmBuild, Other
  <2>. QED BY <2>2, <2>3, OneBuild
<1>3. CASE DeleteBuildRows(b)
  <2>1. BuildInv(b)'
    <3>1. asg'[b] = NoAssignment /\ build'[b].status = "deleted" /\ b \notin plans'
          /\ analysis' = analysis /\ build'[b].mode = build[b].mode
      BY <1>3, DeleteWrite DEF DeleteBuildRows
    <3>2. AnalysisOK(b)'
      BY <1>1, <3>1 DEF BuildInv, AnalysisOK, Railpack
    <3>. QED BY <3>1, <3>2, NoAssignmentOpen
            DEF BuildInv, AssignmentOK, Unconfirmed, Results
  <2>2. \A c \in Builds \ {b} : Other(b, c)
    BY <1>3, DeleteWrite DEF DeleteBuildRows, Other
  <2>. QED BY <2>1, <2>2, OneBuild
<1>4. CASE CancelBuilding(b) /\ RequestBuildCancellation(b) /\ build[b].status = "BUILDING"
  <2>1. BuildInv(b)'
    BY <1>1, <1>4, CancellationWrite, NoAssignmentOpen
       DEF CancelBuilding, BuildInv, AnalysisOK, AssignmentOK, Unconfirmed, Railpack
  <2>2. \A c \in Builds \ {b} : Other(b, c)
    BY <1>4, CancellationWrite DEF CancelBuilding, Other
  <2>. QED BY <2>1, <2>2, OneBuild
<1>5. CASE CancelOther(b) /\ build' = [build EXCEPT ![b].status = "CANCELLED"]
           /\ CanUpdate(b, "CANCELLED")
  <2>1. /\ build'[b].status = "CANCELLED" /\ build'[b].mode = build[b].mode
        /\ \A c \in Builds \ {b} : build'[c] = build[c]
    BY <1>5, StatusWrite DEF BuildStatus
  <2>2. build[b].status \in {"CREATED", "ANALYZING", "BUILDING", "CANCELLED"}
    BY <1>5 DEF CanUpdate, Exists, CanBuildTransition, Allowed, BuildStatus, Results
  <2>3. BuildInv(b)'
    BY <1>1, <1>5, <2>1, <2>2
       DEF CancelOther, BuildInv, AnalysisOK, AssignmentOK, Unconfirmed, Railpack
  <2>4. \A c \in Builds \ {b} : Other(b, c)
    BY <1>5, <2>1 DEF CancelOther, Other
  <2>. QED BY <2>3, <2>4, OneBuild
<1>6. CASE UNCHANGED <<build, asg, analysis, plans>>
  BY <1>6, SameBuilds
<1>. QED BY <1>2, <1>3, <1>4, <1>5, <1>6
        DEF Request, BeginCancel, Collect, CancelEnds, CancelBuilding, CancelOther, server

LEMMA BuilderAssignments ==
  ASSUME TypeOK, AssignmentInv, NEW d \in Builders, BuilderOK(d),
         Build(d) \/ \E b \in Builds : Poll(d, b) \/ PollLost(d, b)
  PROVE  AssignmentInv'
<1>1. ASSUME NEW b \in Builds, Poll(d, b) \/ PollLost(d, b) PROVE AssignmentInv'
  <2>1. BuildInv(b) /\ asg[b].status \in {"PENDING", "RUNNING"} /\ ~asg[b].cancel
    BY <1>1, OnBuilds DEF Poll, PollLost, Claimable
  <2>2. asg[b] # NoAssignment /\ UNCHANGED <<build, analysis, plans>>
    BY <1>1, <2>1, NoAssignmentOpen DEF Poll, PollLost
  <2>3. BuildInv(b)'
    BY <1>1, <2>1, <2>2, ClaimWrite, NoAssignmentOpen
       DEF BuildInv, AnalysisOK, AssignmentOK, Railpack
  <2>4. \A c \in Builds \ {b} : Other(b, c)
    BY <1>1, <2>2, ClaimWrite DEF Other
  <2>. QED BY <2>3, <2>4, OneBuild
<1>2. CASE Heartbeat(d)
  <2>0. PICK b \in Builds : b = builder[d].build
    BY <1>2 DEF Heartbeat, Works, BuilderOK
  <2>1. asg[b].status = "RUNNING" /\ asg' = [asg EXCEPT ![b].lease = TRUE]
        /\ UNCHANGED <<build, analysis, plans>>
    BY <1>2, <2>0 DEF Heartbeat
  <2>2. BuildInv(b) /\ asg[b] # NoAssignment
    BY <2>1, OnBuilds, NoAssignmentOpen
  <2>3. /\ asg'[b].status = asg[b].status /\ asg'[b].cancel = asg[b].cancel
        /\ asg'[b] # NoAssignment /\ \A c \in Builds \ {b} : asg'[c] = asg[c]
    BY <2>1, LeaseWrite, NoAssignmentOpen
  <2>4. BuildInv(b)'
    BY <2>1, <2>2, <2>3 DEF BuildInv, AnalysisOK, AssignmentOK, Railpack
  <2>5. \A c \in Builds \ {b} : Other(b, c)
    BY <2>1, <2>3 DEF Other
  <2>. QED BY <2>1, <2>4, <2>5, OneBuild
<1>3. CASE Finish(d)
  <2>0. PICK b \in Builds : b = builder[d].build
    BY <1>3 DEF Finish, BuilderOK
  <2>9. PICK s : s = Result(b, builder[d].status)
    OBVIOUS
  <2>1. UNCHANGED <<analysis, plans>> /\ asg[b].status \in {"RUNNING", builder[d].status}
    BY <1>3, <2>0 DEF Finish
  <2>2. /\ s \in Results
        /\ IF build[b].status # "BUILDING" THEN build' = build
           ELSE build'[b].status = s /\ build'[b].mode = build[b].mode
        /\ asg'[b].status = s /\ asg'[b].cancel = asg[b].cancel
        /\ \A c \in Builds \ {b} : build'[c] = build[c] /\ asg'[c] = asg[c]
    BY <1>3, <2>0, <2>9, FinishWrite
  <2>3. /\ asg[b].cancel \/ build[b].status = "CANCELLED" => s = "CANCELLED"
        /\ ~asg[b].cancel /\ build[b].status # "CANCELLED" => s = builder[d].status
        /\ builder[d].status \in Results
    BY <1>3, <2>9 DEF Result, Finish, BuilderOK
  <2>4. BuildInv(b) /\ asg[b] # NoAssignment /\ asg'[b] # NoAssignment
    BY <2>1, <2>2, <2>3, OnBuilds, NoAssignmentOpen
  <2>6. BuildInv(b)'
    <3>1. CASE build[b].status = "BUILDING"
      BY <2>1, <2>2, <2>3, <2>4, <3>1
         DEF BuildInv, AnalysisOK, AssignmentOK, Railpack, Results, Unconfirmed
    <3>2. CASE build[b].status # "BUILDING"
      BY <2>1, <2>2, <2>3, <2>4, <3>2
         DEF BuildInv, AnalysisOK, AssignmentOK, Railpack, Results, Unconfirmed
    <3>. QED BY <3>1, <3>2
  <2>7. \A c \in Builds \ {b} : Other(b, c)
    BY <2>1, <2>2 DEF Other
  <2>. QED BY <2>2, <2>6, <2>7, OneBuild
<1>4. CASE UNCHANGED <<build, asg, analysis, plans>>
  BY <1>4, SameBuilds
<1>. QED BY <1>1, <1>2, <1>3, <1>4 DEF Build, Solved, Publish, FlushLog, server

LEMMA NextAssignments ==
  ASSUME TypeOK, \A d \in Builders : BuilderOK(d), AssignmentInv, [Next]_vars
  PROVE  AssignmentInv'
<1>1. CASE UNCHANGED <<build, asg, analysis, plans>>
  BY <1>1, SameBuilds
<1>2. ASSUME NEW b \in Builds, LeaseExpires(b) PROVE AssignmentInv'
  <2>1. asg[b].status = "RUNNING" /\ asg' = [asg EXCEPT ![b].lease = FALSE]
        /\ UNCHANGED <<build, analysis, plans>>
    BY <1>2 DEF LeaseExpires
  <2>2. BuildInv(b) /\ asg[b] # NoAssignment
    BY <2>1, OnBuilds, NoAssignmentOpen
  <2>3. /\ asg'[b].status = asg[b].status /\ asg'[b].cancel = asg[b].cancel
        /\ asg'[b] # NoAssignment /\ \A c \in Builds \ {b} : asg'[c] = asg[c]
    BY <2>1, LeaseWrite, NoAssignmentOpen
  <2>4. BuildInv(b)'
    BY <2>1, <2>2, <2>3 DEF BuildInv, AnalysisOK, AssignmentOK, Railpack
  <2>5. \A c \in Builds \ {b} : Other(b, c)
    BY <2>1, <2>3 DEF Other
  <2>. QED BY <2>4, <2>5, OneBuild
<1>3. CASE ServerDies
  <2>1. UNCHANGED <<build, asg, plans>> /\ \A b \in Builds : analysis'[b] = "no"
    BY <1>3 DEF ServerDies
  <2>. QED BY <2>1 DEF AssignmentInv, BuildAgreesWithAssignment, AnalysisOK, AssignmentOK, Railpack
<1>4. ASSUME NEW u \in uploads, Serve(u) \/ UploadFails(u)
      PROVE  UNCHANGED <<build, asg, analysis, plans>>
  BY <1>4 DEF Serve, Look, Write, Save, Undo, UploadFails, server
<1>5. ASSUME NEW j \in Jobs, DeleteJob(j) \/ \E b \in Builds : CreateJobWithManagedArtifact(j, b)
      PROVE  UNCHANGED <<build, asg, analysis, plans>>
  BY <1>5 DEF DeleteJob, CreateJobWithManagedArtifact
<1>6. ASSUME NEW b \in Builds, RemoveFiles(b) \/ LogLimit(b)
      PROVE  UNCHANGED <<build, asg, analysis, plans>>
  BY <1>6 DEF RemoveFiles, LogLimit
<1>7. ASSUME NEW d \in Builders, BuilderDies(d)
      PROVE  UNCHANGED <<build, asg, analysis, plans>>
  BY <1>7 DEF BuilderDies, server
<1>8. CASE UNCHANGED vars
  BY <1>1, <1>8 DEF vars, server
<1>. QED BY <1>1, <1>2, <1>3, <1>4, <1>5, <1>6, <1>7, <1>8,
            CreationAssignments, RequestAssignments, BuilderAssignments DEF Next

(* Rows, archives and uploads. *)
ImageInv ==
  /\ \A b \in Builds : RowOK(b) /\ ArchiveOK(b)
  /\ \A u \in uploads : UploadOK(u)

Elsewhere(c) ==
  /\ build'[c] = build[c] /\ row'[c] = row[c] /\ file'[c] = file[c]
  /\ (c \in doomed' <=> c \in doomed) /\ (c \in raced' <=> c \in raced)
  /\ Referenced(c)' <=> Referenced(c)
  /\ \A v \in Upload : v.build = c => (v \in uploads' <=> v \in uploads)

LEMMA OneImage ==
  ASSUME TypeOK, TypeOK', ImageInv, NEW b \in Builds,
         RowOK(b)', ArchiveOK(b)', \A u \in uploads' : u.build = b => UploadOK(u)',
         \A c \in Builds \ {b} : Elsewhere(c)
  PROVE  ImageInv'
<1>1. ASSUME NEW c \in Builds \ {b} PROVE RowOK(c)'
  BY <1>1 DEF ImageInv, Elsewhere, RowOK
<1>2. ASSUME NEW c \in Builds \ {b} PROVE ArchiveOK(c)'
  <2>1. /\ \A v \in Upload : v.build = c => (v \in uploads' <=> v \in uploads)
        /\ uploads \subseteq Upload /\ uploads' \subseteq Upload
        /\ build'[c] = build[c] /\ row'[c] = row[c] /\ file'[c] = file[c]
        /\ c \in raced' <=> c \in raced
    BY <1>2 DEF Elsewhere, TypeOK
  <2>2. CASE c \notin raced
    <3>1. Alone(c) /\ Published(c) /\ Publishing(c) /\ Unpublished(c)
      BY <2>2 DEF ImageInv, ArchiveOK
    <3>2. Alone(c)'
      BY <2>1, <3>1 DEF Alone
    <3>3. Published(c)'
      BY <2>1, <3>1 DEF Published
    <3>4. Publishing(c)'
      BY <2>1, <3>1 DEF Publishing
    <3>5. Unpublished(c)'
      BY <2>1, <3>1 DEF Unpublished
    <3>. QED BY <3>2, <3>3, <3>4, <3>5 DEF ArchiveOK
  <2>. QED BY <2>1, <2>2 DEF ArchiveOK
<1>3. ASSUME NEW u \in uploads' PROVE UploadOK(u)'
  <2>1. u \in Upload /\ u.build \in Builds
    BY <1>3 DEF TypeOK, Upload
  <2>2. CASE u.build # b
    BY <2>1, <2>2 DEF ImageInv, Elsewhere, UploadOK
  <2>. QED BY <1>3, <2>2
<1>. QED BY <1>1, <1>2, <1>3 DEF ImageInv

LEMMA SameImages ==
  ASSUME ImageInv, UNCHANGED <<build, row, file, doomed, job, uploads, raced>>
  PROVE  ImageInv'
BY DEF ImageInv, RowOK, ArchiveOK, Alone, Published, Publishing, Unpublished, UploadOK,
   Referenced, Refers

(* A build moves on: from what is not confirmed to BUILDING, and from      *)
(* there to its result.                                                    *)
LEMMA BuildMoves ==
  ASSUME TypeOK, TypeOK', ImageInv, NEW b \in Builds,
         UNCHANGED <<row, file, doomed, job, uploads, raced>>,
         \A c \in Builds \ {b} : build'[c] = build[c],
         build[b].status \in Unconfirmed \cup {"BUILDING"},
         build'[b].status \in BuildStatus,
         build[b].status = "BUILDING" => build'[b].status \in Results,
         build'[b].status = "SUCCEEDED" =>
           row[b] # NoRow /\ row[b].digest = build'[b].oci
  PROVE  ImageInv'
<1>1. \A c \in Builds \ {b} : Elsewhere(c)
  BY DEF Elsewhere, Referenced, Refers
<1>2. RowOK(b) /\ ArchiveOK(b) /\ (Referenced(b)' <=> Referenced(b))
  BY DEF ImageInv, Referenced, Refers
<1>3. RowOK(b)'
  BY <1>2 DEF RowOK, Unconfirmed, Results
<1>4. ASSUME NEW u \in uploads', u.build = b PROVE UploadOK(u)'
  BY <1>4 DEF ImageInv, UploadOK, Unconfirmed, Results
<1>5. ArchiveOK(b)'
  <2>1. SUFFICES ASSUME b \notin raced
                 PROVE  (Alone(b) /\ Published(b) /\ Publishing(b) /\ Unpublished(b))'
    BY DEF ArchiveOK
  <2>2. Alone(b) /\ Published(b) /\ Publishing(b) /\ Unpublished(b)
    BY <1>2, <2>1 DEF ArchiveOK
  <2>3. build'[b].status = "BUILDING" => \A u \in uploads : u.build # b
    BY DEF ImageInv, UploadOK, Results
  <2>4. Alone(b)' /\ Published(b)'
    BY <2>2 DEF Alone, Published
  <2>5. Publishing(b)'
    BY <2>3 DEF Publishing
  <2>6. Unpublished(b)'
    BY <2>2 DEF Unpublished
  <2>. QED BY <2>4, <2>5, <2>6
<1>. QED BY <1>1, <1>3, <1>4, <1>5, OneImage

LEMMA StatusImages ==
  ASSUME TypeOK, TypeOK', ImageInv, NEW b \in Builds,
         NEW s \in {"ANALYZING", "FAILED", "CANCELLED"}, CanUpdate(b, s), build' = [build EXCEPT ![b].status = s],
         UNCHANGED <<row, file, doomed, job, uploads, raced>>
  PROVE  ImageInv'
<1>1. /\ build'[b].status = s /\ build'[b].mode = build[b].mode
      /\ build'[b].oci = build[b].oci /\ \A c \in Builds \ {b} : build'[c] = build[c]
  BY StatusWrite DEF BuildStatus
<1>2. build[b].status = s \/ (build[b].status \in Unconfirmed \cup {"BUILDING"}
        /\ (build[b].status = "BUILDING" => s \in Results))
  BY DEF CanUpdate, Exists, CanBuildTransition, Allowed, BuildStatus, Results, Unconfirmed
<1>3. CASE build[b].status = s
  <2>1. build[b] \in BuildRow /\ build'[b] \in BuildRow
    BY DEF TypeOK
  <2>2. build'[b] = build[b]
    BY <1>1, <1>3, <2>1 DEF BuildRow
  <2>3. build' = build
    BY <1>1, <2>2 DEF TypeOK
  <2>. QED BY <2>3, SameImages
<1>4. CASE build[b].status \in Unconfirmed \cup {"BUILDING"}
           /\ (build[b].status = "BUILDING" => s \in Results)
  BY <1>1, <1>4, BuildMoves DEF BuildStatus
<1>. QED BY <1>2, <1>3, <1>4

LEMMA RequestImages ==
  ASSUME TypeOK, TypeOK', ImageInv, NEW b \in Builds,
         Creation(b) \/ Request(b) \/ CancelEnds(b) \/ RemoveFiles(b)
  PROVE  ImageInv'
<1>1. CASE CreateBuild(b)
  BY <1>1, CreateWrite, BuildMoves DEF CreateBuild, Unconfirmed, BuildStatus
<1>2. CASE AnalysisStarts(b)
  BY <1>2, StatusImages, SameImages DEF AnalysisStarts
<1>3. CASE AnalysisFails(b)
  BY <1>3, StatusImages, SameImages DEF AnalysisFails
<1>4. CASE AnalysisSucceeds(b) \/ BeginCancel(b)
  BY <1>4, SameImages DEF AnalysisSucceeds, BeginCancel, server
<1>5. CASE ConfirmBuild(b)
  <2>1. build[b].status \in Unconfirmed
    BY <1>5 DEF ConfirmBuild, QueueBuild, Unconfirmed
  <2>2. build[b].status # "BUILDING"
    BY <2>1 DEF Unconfirmed
  <2>. QED BY <1>5, <2>1, <2>2, ConfirmWrite, BuildMoves DEF ConfirmBuild, BuildStatus
<1>6. CASE CancelBuilding(b)
  <2>1. CASE RequestBuildCancellation(b) /\ build[b].status = "BUILDING"
    BY <1>6, <2>1, CancellationWrite, BuildMoves DEF CancelBuilding, BuildStatus, Results
  <2>2. CASE build' = build
    BY <1>6, <2>2, SameImages DEF CancelBuilding
  <2>. QED BY <1>6, <2>1, <2>2 DEF CancelBuilding
<1>7. CASE CancelOther(b)
  BY <1>7, StatusImages, SameImages DEF CancelOther
<1>8. CASE DeleteBuildRows(b)
  <2>1. /\ build'[b].status = "deleted" /\ row'[b] = NoRow
        /\ \A c \in Builds \ {b} : build'[c] = build[c] /\ row'[c] = row[c]
    BY <1>8, DeleteWrite
  <2>2. UNCHANGED <<file, job, uploads, raced>> /\ doomed' = doomed \cup {b}
    BY <1>8 DEF DeleteBuildRows
  <2>3. RowOK(b) /\ ~Referenced(b)
    BY <1>8, NamesAssumption DEF ImageInv, RowOK, DeleteBuildRows, DeleteBuild
  <2>4. RowOK(b)'
    BY <2>1, <2>2, <2>3 DEF RowOK, Referenced, Refers, Results
  <2>5. ArchiveOK(b)'
    BY <2>1, <2>2 DEF ImageInv, ArchiveOK, Alone, Published, Publishing, Unpublished, Unconfirmed
  <2>6. \A u \in uploads' : u.build = b => UploadOK(u)'
    BY <2>1, <2>2 DEF ImageInv, UploadOK, Unconfirmed
  <2>7. \A c \in Builds \ {b} : Elsewhere(c)
    BY <2>1, <2>2 DEF Elsewhere, Referenced, Refers
  <2>. QED BY <2>4, <2>5, <2>6, <2>7, OneImage
<1>9. CASE Collect(b)
  <2>1. /\ UNCHANGED <<build, file, job, uploads>> /\ doomed' = doomed \cup {b}
        /\ row' = [row EXCEPT ![b] = NoRow]
        /\ \A c \in Builds \ {b} : c \in raced' <=> c \in raced
        /\ b \in raced' <=> b \in raced \/ build[b].status = "BUILDING"
    BY <1>9 DEF Collect
  <2>2. row'[b] = NoRow /\ \A c \in Builds \ {b} : row'[c] = row[c]
    BY <2>1 DEF TypeOK
  <2>3. RowOK(b) /\ build[b].status \in {"BUILDING"} \cup Results /\ ~Referenced(b)
    BY <1>9 DEF ImageInv, RowOK, Collect, Collectable
  <2>4. RowOK(b)'
    BY <2>1, <2>2, <2>3 DEF RowOK, Referenced, Refers
  <2>5. ArchiveOK(b)'
    BY <2>1, <2>2, <2>3
       DEF ImageInv, ArchiveOK, Alone, Published, Publishing, Unpublished, Unconfirmed, Results
  <2>6. \A u \in uploads' : u.build = b => UploadOK(u)'
    BY <2>1 DEF ImageInv, UploadOK
  <2>7. \A c \in Builds \ {b} : Elsewhere(c)
    BY <2>1, <2>2 DEF Elsewhere, Referenced, Refers
  <2>. QED BY <2>4, <2>5, <2>6, <2>7, OneImage
<1>10. CASE RemoveFiles(b)
  <2>1. /\ UNCHANGED <<build, row, job, uploads, raced>> /\ doomed' = doomed \ {b}
        /\ file' = [file EXCEPT ![b] = None] /\ b \in doomed
    BY <1>10 DEF RemoveFiles
  <2>2. file'[b] = None /\ \A c \in Builds \ {b} : file'[c] = file[c]
    BY <2>1 DEF TypeOK
  <2>3. /\ RowOK(b)
        /\ b \notin raced => build[b].status \in Results \cup {"deleted"} /\ row[b] = NoRow
    BY <2>1 DEF ImageInv, RowOK
  <2>4. RowOK(b)'
    BY <2>1, <2>3 DEF RowOK, Referenced, Refers
  <2>5. ArchiveOK(b)'
    BY <2>1, <2>2, <2>3
       DEF ImageInv, ArchiveOK, Alone, Published, Publishing, Unpublished, Unconfirmed, Results
  <2>6. \A u \in uploads' : u.build = b => UploadOK(u)'
    BY <2>1 DEF ImageInv, UploadOK
  <2>7. \A c \in Builds \ {b} : Elsewhere(c)
    BY <2>1, <2>2 DEF Elsewhere, Referenced, Refers
  <2>. QED BY <2>4, <2>5, <2>6, <2>7, OneImage
<1>. QED BY <1>1, <1>2, <1>3, <1>4, <1>5, <1>6, <1>7, <1>8, <1>9, <1>10
        DEF Creation, Request, CancelEnds

LEMMA JobImages ==
  ASSUME TypeOK, TypeOK', ImageInv, NEW j \in Jobs,
         DeleteJob(j) \/ \E b \in Builds : CreateJobWithManagedArtifact(j, b)
  PROVE  ImageInv'
<1>1. UNCHANGED <<build, row, file, doomed, uploads, raced>>
  BY DEF DeleteJob, CreateJobWithManagedArtifact
<1>2. \A c \in Builds : ArchiveOK(c)'
  BY <1>1 DEF ImageInv, ArchiveOK, Alone, Published, Publishing, Unpublished
<1>3. \A u \in uploads' : UploadOK(u)'
  BY <1>1 DEF ImageInv, UploadOK
<1>4. ASSUME NEW c \in Builds, Referenced(c)'
      PROVE  build[c].status = "SUCCEEDED" /\ row[c] # NoRow
  <2>1. CASE Referenced(c)
    BY <2>1 DEF ImageInv, RowOK
  <2>2. CASE ~Referenced(c)
    <3>1. PICK i \in Jobs : job'[i].status = "live" /\ job'[i].build = c
      BY <1>4 DEF Referenced, Refers
    <3>2. ~(job[i].status = "live" /\ job[i].build = c)
      BY <2>2 DEF Referenced, Refers
    <3>3. CASE DeleteJob(j)
      BY <3>1, <3>2, <3>3 DEF DeleteJob, TypeOK
    <3>4. ASSUME NEW b \in Builds, CreateJobWithManagedArtifact(j, b)
          PROVE  build[c].status = "SUCCEEDED" /\ row[c] # NoRow
      <4>1. i = j /\ c = b
        BY <3>1, <3>2, <3>4 DEF CreateJobWithManagedArtifact, TypeOK
      <4>. QED BY <3>4, <4>1 DEF CreateJobWithManagedArtifact, NoRow
    <3>. QED BY <3>3, <3>4
  <2>. QED BY <2>1, <2>2
<1>5. \A c \in Builds : RowOK(c)'
  BY <1>1, <1>4 DEF ImageInv, RowOK
<1>. QED BY <1>2, <1>3, <1>5 DEF ImageInv

LEMMA BuilderImages ==
  ASSUME TypeOK, TypeOK', AssignmentInv, ImageInv, NEW d \in Builders, BuilderOK(d), Build(d)
  PROVE  ImageInv'
<1>1. CASE UNCHANGED <<build, row, file, doomed, job, uploads, raced>>
  BY <1>1, SameImages
<1>2. CASE Finish(d)
  <2>1. PICK b \in Builds : b = builder[d].build
    BY <1>2 DEF Finish, BuilderOK
  <2>2. PICK s : s = Result(b, builder[d].status)
    OBVIOUS
  <2>3. /\ s \in Results
        /\ IF build[b].status # "BUILDING" THEN build' = build
           ELSE /\ build'[b].status = s
                /\ s = "SUCCEEDED" => build'[b].oci = builder[d].digest
        /\ \A c \in Builds \ {b} : build'[c] = build[c]
    BY <1>2, <2>1, <2>2, FinishWrite
  <2>4. UNCHANGED <<row, file, doomed, job, uploads, raced>>
    BY <1>2 DEF Finish
  <2>5. s = "SUCCEEDED" => row[b] # NoRow /\ row[b].digest = builder[d].digest
    BY <1>2, <2>1, <2>2 DEF Finish, Complete
  <2>6. CASE build[b].status = "BUILDING"
    BY <2>3, <2>4, <2>5, <2>6, BuildMoves DEF Results, BuildStatus
  <2>. QED BY <2>3, <2>4, <2>6, SameImages
<1>3. CASE Publish(d)
  <2>1. PICK b \in Builds : b = builder[d].build
    BY <1>3 DEF Publish, BuilderOK
  <2>2. PICK u : u = [build |-> b, by |-> d, digest |-> builder[d].digest, at |-> "look",
                      sha |-> None, created |-> FALSE]
    OBVIOUS
  <2>3. u.build = b /\ u.at = "look" /\ ~u.created
    BY <2>2
  <2>4. CASE Holds(d) /\ uploads' = uploads \cup {u}
             /\ raced' = IF Others(u) = {} THEN raced ELSE raced \cup {b}
    <3>1. UNCHANGED <<build, row, file, doomed, job>>
      BY <1>3 DEF Publish, server
    <3>2. build[b].status \notin Unconfirmed
      BY <2>1, <2>4, NamesAssumption DEF Holds, AssignmentInv, AssignmentOK, NoAssignment
    <3>3. \A c \in Builds \ {b} : Elsewhere(c)
      BY <2>3, <2>4, <3>1 DEF Elsewhere, Referenced, Refers
    <3>4. RowOK(b)'
      BY <2>4, <3>1 DEF ImageInv, RowOK, Referenced, Refers
    <3>5. ASSUME NEW v \in uploads', v.build = b PROVE UploadOK(v)'
      BY <2>3, <2>4, <3>1, <3>2, <3>5 DEF ImageInv, UploadOK
    <3>6. ArchiveOK(b)'
      <4>1. SUFFICES ASSUME b \notin raced'
                     PROVE  (Alone(b) /\ Published(b) /\ Publishing(b) /\ Unpublished(b))'
        BY DEF ArchiveOK
      <4>2. b \notin raced /\ \A v \in uploads : v.build = b => v = u
        BY <2>3, <2>4, <4>1 DEF Others
      <4>3. Published(b) /\ Publishing(b) /\ Unpublished(b)
        BY <4>2 DEF ImageInv, ArchiveOK
      <4>4. Alone(b)'
        BY <2>4, <4>2 DEF Alone
      <4>5. Published(b)'
        BY <2>3, <2>4, <3>1, <4>3 DEF Published
      <4>6. Publishing(b)'
        BY <2>3, <2>4, <3>1, <4>3 DEF Publishing
      <4>7. Unpublished(b)'
        BY <2>4, <3>1, <4>3 DEF Unpublished
      <4>. QED BY <4>4, <4>5, <4>6, <4>7
    <3>. QED BY <3>3, <3>4, <3>5, <3>6, OneImage
  <2>. QED BY <1>1, <1>3, <2>1, <2>2, <2>4 DEF Publish, server
<1>. QED BY <1>1, <1>2, <1>3 DEF Build, Heartbeat, Solved, FlushLog, server

(* An upload that goes on or leaves has only its own build to account for. *)
LEMMA OneUpload ==
  ASSUME TypeOK, NEW u \in uploads, NEW v \in Upload, v.build = u.build,
         uploads' = uploads \ {u} \/ uploads' = (uploads \ {u}) \cup {v},
         UNCHANGED <<build, doomed, job, raced>>,
         \A c \in Builds \ {u.build} : row'[c] = row[c] /\ file'[c] = file[c]
  PROVE  \A c \in Builds \ {u.build} : Elsewhere(c)
BY DEF Elsewhere, Referenced, Refers

LEMMA LeaveImages ==
  ASSUME TypeOK, TypeOK', ImageInv, NEW u \in uploads, ~u.created, Leave(u),
         UNCHANGED <<build, row, file, doomed, job, raced>>
  PROVE  ImageInv'
<1>1. u \in Upload /\ u.build \in Builds
  BY DEF TypeOK, Upload
<1>. DEFINE b == u.build
<1>2. \A c \in Builds \ {b} : Elsewhere(c)
  BY <1>1, OneUpload DEF Leave
<1>3. RowOK(b)'
  BY <1>1 DEF ImageInv, RowOK, Referenced, Refers
<1>4. \A v \in uploads' : v.build = b => UploadOK(v)'
  BY DEF ImageInv, UploadOK, Leave
<1>5. ArchiveOK(b)'
  BY <1>1 DEF ImageInv, ArchiveOK, Alone, Published, Publishing, Unpublished, Leave
<1>. QED BY <1>1, <1>2, <1>3, <1>4, <1>5, OneImage

LEMMA UndoBegins ==
  ASSUME TypeOK, TypeOK', ImageInv, NEW u \in uploads, u.created,
         Becomes(u, [u EXCEPT !.at = "undo"]),
         UNCHANGED <<build, row, file, doomed, job, raced>>
  PROVE  ImageInv'
<1>1. u \in Upload /\ u.build \in Builds
  BY DEF TypeOK, Upload
<1>. DEFINE b == u.build
<1>2. PICK v : v = [u EXCEPT !.at = "undo"]
  OBVIOUS
<1>3. v \in Upload /\ v.build = b /\ v.at = "undo" /\ v.created
      /\ uploads' = (uploads \ {u}) \cup {v}
  BY <1>1, <1>2 DEF Upload, Becomes
<1>4. \A c \in Builds \ {b} : Elsewhere(c)
  BY <1>3, OneUpload
<1>5. RowOK(b)'
  BY <1>1 DEF ImageInv, RowOK, Referenced, Refers
<1>6. \A w \in uploads' : w.build = b => UploadOK(w)'
  BY <1>3 DEF ImageInv, UploadOK
<1>7. ArchiveOK(b)'
  <2>1. SUFFICES ASSUME b \notin raced
                 PROVE  (Alone(b) /\ Published(b) /\ Publishing(b) /\ Unpublished(b))'
    BY DEF ArchiveOK
  <2>2. Alone(b) /\ Published(b) /\ Publishing(b) /\ Unpublished(b)
    BY <1>1, <2>1 DEF ImageInv, ArchiveOK
  <2>3. Alone(b)'
    BY <1>3, <2>2 DEF Alone
  <2>4. Published(b)' /\ Publishing(b)' /\ Unpublished(b)'
    BY <1>3, <2>2 DEF Published, Publishing, Unpublished
  <2>. QED BY <2>3, <2>4
<1>. QED BY <1>1, <1>4, <1>5, <1>6, <1>7, OneImage

LEMMA UploadImages ==
  ASSUME TypeOK, TypeOK', ImageInv, NEW u \in uploads, Serve(u) \/ UploadFails(u)
  PROVE  ImageInv'
<1>1. u \in Upload /\ u.build \in Builds /\ UploadOK(u)
  BY DEF TypeOK, Upload, ImageInv
<1>2. PICK b \in Builds : b = u.build
  BY <1>1
<1>3. CASE Look(u)
  <2>1. PICK v : v = IF file[b] = None THEN [u EXCEPT !.at = "write"]
                     ELSE [u EXCEPT !.at = "save", !.sha = file[b]]
    OBVIOUS
  <2>2. uploads' = (uploads \ {u}) \cup {v} /\ UNCHANGED <<build, row, file, doomed, job, raced>>
    BY <1>2, <1>3, <2>1 DEF Look, Becomes, server
  <2>3. ~u.created /\ file[b] \in Digests \cup {None}
    BY <1>1, <1>3 DEF Look, UploadOK, TypeOK
  <2>4. /\ v \in Upload /\ v.build = b /\ ~v.created /\ v.digest = u.digest
        /\ \/ v.at = "write" /\ file[b] = None
           \/ v.at = "save" /\ v.sha = file[b] /\ file[b] # None
    <3>1. CASE file[b] = None
      <4>1. v = [u EXCEPT !.at = "write"]
        BY <2>1, <3>1
      <4>. QED BY <1>1, <1>2, <2>3, <3>1, <4>1 DEF Upload
    <3>2. CASE file[b] # None
      <4>1. v = [u EXCEPT !.at = "save", !.sha = file[b]]
        BY <2>1, <3>2
      <4>. QED BY <1>1, <1>2, <2>3, <3>2, <4>1 DEF Upload
    <3>. QED BY <3>1, <3>2
  <2>5. \A c \in Builds \ {b} : Elsewhere(c)
    BY <1>2, <2>2, <2>4, OneUpload
  <2>6. RowOK(b)'
    BY <2>2 DEF ImageInv, RowOK, Referenced, Refers
  <2>7. \A w \in uploads' : w.build = b => UploadOK(w)'
    BY <1>1, <1>2, <2>2, <2>3, <2>4 DEF ImageInv, UploadOK
  <2>8. ArchiveOK(b)'
    <3>1. SUFFICES ASSUME b \notin raced
                   PROVE  (Alone(b) /\ Published(b) /\ Publishing(b) /\ Unpublished(b))'
      BY <2>2 DEF ArchiveOK
    <3>2. /\ Alone(b) /\ Published(b) /\ Publishing(b) /\ Unpublished(b)
          /\ \A w \in uploads : w.build = b => w = u
          /\ \A w \in uploads' : w.build = b => w = v
      BY <1>2, <2>2, <3>1 DEF ImageInv, ArchiveOK, Alone
    <3>3. RowOK(b)
      BY DEF ImageInv
    <3>4. Alone(b)'
      BY <3>2 DEF Alone
    <3>5. Published(b)'
      BY <2>2, <2>4, <3>2, <3>3, NamesAssumption DEF Published, RowOK
    <3>6. Publishing(b)' /\ Unpublished(b)'
      BY <2>2, <2>3, <2>4, <3>2 DEF Publishing, Unpublished
    <3>. QED BY <3>4, <3>5, <3>6
  <2>. QED BY <2>5, <2>6, <2>7, <2>8, OneImage
<1>4. CASE Write(u)
  <2>1. PICK v : v = [u EXCEPT !.at = "save", !.sha = u.digest, !.created = TRUE]
    OBVIOUS
  <2>2. /\ uploads' = (uploads \ {u}) \cup {v} /\ UNCHANGED <<build, row, doomed, job, raced>>
        /\ file' = [file EXCEPT ![b] = u.digest] /\ u.at = "write"
    BY <1>2, <1>4, <2>1 DEF Write, Becomes
  <2>3. file'[b] = u.digest /\ \A c \in Builds \ {b} : file'[c] = file[c]
    BY <2>2 DEF TypeOK
  <2>4. /\ v \in Upload /\ v.build = b /\ v.created /\ v.digest = u.digest
        /\ v.at = "save" /\ v.sha = u.digest /\ u.digest \in Digests
    BY <1>1, <1>2, <2>1 DEF Upload
  <2>5. \A c \in Builds \ {b} : Elsewhere(c)
    BY <1>2, <2>2, <2>3, <2>4, OneUpload
  <2>6. RowOK(b)'
    BY <2>2 DEF ImageInv, RowOK, Referenced, Refers
  <2>7. \A w \in uploads' : w.build = b => UploadOK(w)'
    BY <1>1, <1>2, <2>2, <2>4 DEF ImageInv, UploadOK
  <2>8. ArchiveOK(b)'
    <3>1. SUFFICES ASSUME b \notin raced
                   PROVE  (Alone(b) /\ Published(b) /\ Publishing(b) /\ Unpublished(b))'
      BY <2>2 DEF ArchiveOK
    <3>2. /\ Published(b) /\ \A w \in uploads' : w.build = b => w = v
      BY <1>2, <2>2, <3>1 DEF ImageInv, ArchiveOK, Alone
    <3>3. row[b] = NoRow
      BY <1>2, <2>2, <3>2 DEF Published
    <3>4. Alone(b)'
      BY <3>2 DEF Alone
    <3>5. Published(b)' /\ Publishing(b)' /\ Unpublished(b)'
      BY <2>2, <2>3, <2>4, <3>2, <3>3 DEF Published, Publishing, Unpublished
    <3>. QED BY <3>4, <3>5
  <2>. QED BY <2>5, <2>6, <2>7, <2>8, OneImage
<1>5. CASE Save(u)
  <2>1. CASE SaveManagedArtifact(u)
    <3>1. PICK r : r = [digest |-> u.digest, sha |-> u.sha]
      OBVIOUS
    <3>2. /\ uploads' = uploads \ {u} /\ UNCHANGED <<build, file, doomed, job, raced>>
          /\ row' = [row EXCEPT ![b] = r] /\ u.at = "save"
          /\ build[b].status = "BUILDING" /\ row[b] \in {NoRow, r}
      BY <1>2, <1>5, <2>1, <3>1 DEF Save, SaveManagedArtifact, Leave
    <3>3. row'[b] = r /\ \A c \in Builds \ {b} : row'[c] = row[c]
      BY <3>2 DEF TypeOK
    <3>4. u.sha \in Digests /\ u.digest \in Digests /\ r.sha = u.sha /\ r.digest = u.digest
      BY <1>1, <3>1, <3>2 DEF UploadOK, Upload
    <3>5. \A c \in Builds \ {b} : Elsewhere(c)
      BY <1>1, <1>2, <3>2, <3>3, OneUpload
    <3>6. RowOK(b)'
      BY <3>2, <3>3, <3>4 DEF ImageInv, RowOK, Referenced, Refers, Results
    <3>7. \A w \in uploads' : w.build = b => UploadOK(w)'
      BY <3>2 DEF ImageInv, UploadOK
    <3>8. ArchiveOK(b)'
      <4>1. SUFFICES ASSUME b \notin raced
                     PROVE  (Alone(b) /\ Published(b) /\ Publishing(b) /\ Unpublished(b))'
        BY <3>2 DEF ArchiveOK
      <4>2. /\ Published(b) /\ Publishing(b) /\ \A w \in uploads' : w.build # b
        BY <1>2, <3>2, <4>1 DEF ImageInv, ArchiveOK, Alone
      <4>3. file[b] = u.sha /\ u.sha = u.digest
        BY <1>2, <3>2, <3>4, <4>2 DEF Published, Publishing
      <4>4. row'[b] # NoRow
        BY <3>3, <3>4, NamesAssumption DEF NoRow
      <4>. QED BY <3>2, <3>3, <3>4, <4>2, <4>3, <4>4
              DEF Alone, Published, Publishing, Unpublished
    <3>. QED BY <3>5, <3>6, <3>7, <3>8, OneImage
  <2>. QED BY <1>5, <2>1, LeaveImages, UndoBegins DEF Save
<1>6. CASE Undo(u)
  <2>1. /\ uploads' = uploads \ {u} /\ UNCHANGED <<build, row, doomed, job, raced>>
        /\ file' = [file EXCEPT ![b] = None] /\ u.at = "undo"
    BY <1>2, <1>6 DEF Undo, Leave
  <2>2. file'[b] = None /\ \A c \in Builds \ {b} : file'[c] = file[c]
    BY <2>1 DEF TypeOK
  <2>3. \A c \in Builds \ {b} : Elsewhere(c)
    BY <1>1, <1>2, <2>1, <2>2, OneUpload
  <2>4. RowOK(b)'
    BY <2>1 DEF ImageInv, RowOK, Referenced, Refers
  <2>5. \A w \in uploads' : w.build = b => UploadOK(w)'
    BY <2>1 DEF ImageInv, UploadOK
  <2>6. ArchiveOK(b)'
    <3>1. SUFFICES ASSUME b \notin raced
                   PROVE  (Alone(b) /\ Published(b) /\ Publishing(b) /\ Unpublished(b))'
      BY <2>1 DEF ArchiveOK
    <3>2. Published(b) /\ \A w \in uploads' : w.build # b
      BY <1>2, <2>1, <3>1 DEF ImageInv, ArchiveOK, Alone
    <3>3. row[b] = NoRow
      BY <1>2, <2>1, <3>2 DEF Published
    <3>. QED BY <2>1, <2>2, <3>2, <3>3 DEF Alone, Published, Publishing, Unpublished
  <2>. QED BY <2>3, <2>4, <2>5, <2>6, OneImage
<1>7. CASE UploadFails(u)
  BY <1>7, LeaveImages, UndoBegins DEF UploadFails, server
<1>. QED BY <1>3, <1>4, <1>5, <1>6, <1>7 DEF Serve

LEMMA DeathImages ==
  ASSUME TypeOK, TypeOK', ImageInv, ServerDies
  PROVE  ImageInv'
<1>1. /\ UNCHANGED <<build, row, file, job>> /\ uploads' = {} /\ doomed' = {}
      /\ raced' = raced \cup {b \in Builds : \E u \in uploads : u.build = b /\ u.created}
  BY DEF ServerDies
<1>2. ASSUME NEW b \in Builds PROVE RowOK(b)'
  BY <1>1, <1>2 DEF ImageInv, RowOK, Referenced, Refers
<1>3. ASSUME NEW b \in Builds PROVE ArchiveOK(b)'
  <2>1. SUFFICES ASSUME b \notin raced'
                 PROVE  (Alone(b) /\ Published(b) /\ Publishing(b) /\ Unpublished(b))'
    BY DEF ArchiveOK
  <2>2. /\ Published(b) /\ Unpublished(b) /\ ~\E u \in uploads : u.build = b /\ u.created
    BY <1>1, <1>3, <2>1 DEF ImageInv, ArchiveOK
  <2>. QED BY <1>1, <2>2 DEF Alone, Published, Publishing, Unpublished
<1>. QED BY <1>1, <1>2, <1>3 DEF ImageInv

LEMMA NextImages ==
  ASSUME TypeOK, TypeOK', \A d \in Builders : BuilderOK(d), AssignmentInv, ImageInv, [Next]_vars
  PROVE  ImageInv'
<1>1. ASSUME NEW b \in Builds, LeaseExpires(b) \/ LogLimit(b)
      PROVE  UNCHANGED <<build, row, file, doomed, job, uploads, raced>>
  BY <1>1 DEF LeaseExpires, LogLimit
<1>2. ASSUME NEW d \in Builders, BuilderDies(d) \/ \E b \in Builds : Poll(d, b) \/ PollLost(d, b)
      PROVE  UNCHANGED <<build, row, file, doomed, job, uploads, raced>>
  BY <1>2 DEF BuilderDies, Poll, PollLost, server
<1>3. CASE UNCHANGED vars
  BY <1>3, SameImages DEF vars, server
<1>. QED BY <1>1, <1>2, <1>3, SameImages, RequestImages, JobImages, BuilderImages, UploadImages,
            DeathImages DEF Next

-----------------------------------------------------------------------------
LEMMA InitInv == Init => IInv
<1>. SUFFICES ASSUME Init PROVE IInv
  OBVIOUS
<1>1. TypeOK
  <2>1. /\ [mode |-> "DOCKERFILE", status |-> "absent", oci |-> None] \in BuildRow
        /\ NoAssignment \in Assignment /\ NoRow \in ArtifactRow /\ Free \in Builder
    BY DEF BuildRow, NoAssignment, Assignment, NoRow, ArtifactRow, Free, Builder
  <2>. QED BY <2>1, BoundsAssumption DEF Init, TypeOK
<1>2. /\ \A b \in Builds : build[b].status = "absent" /\ asg[b] = NoAssignment /\ row[b] = NoRow
      /\ \A b \in Builds : file[b] = None /\ analysis[b] = "no" /\ b \notin plans /\ ~Referenced(b)
      /\ \A d \in Builders : builder[d].at = "idle"
      /\ uploads = {} /\ doomed = {}
  BY DEF Init, Free, Referenced, Refers
<1>3. BuildAgreesWithAssignment
  BY <1>2, NoAssignmentOpen DEF BuildAgreesWithAssignment, Results
<1>4. \A b \in Builds : AnalysisOK(b) /\ AssignmentOK(b)
  BY <1>2, NoAssignmentOpen DEF AnalysisOK, AssignmentOK
<1>5. \A b \in Builds : RowOK(b) /\ ArchiveOK(b)
  BY <1>2 DEF RowOK, ArchiveOK, Alone, Published, Publishing, Unpublished
<1>6. \A d \in Builders : BuilderOK(d)
  BY <1>2 DEF BuilderOK
<1>. QED BY <1>1, <1>2, <1>3, <1>4, <1>5, <1>6 DEF IInv

LEMMA NextInv == IInv /\ [Next]_vars => IInv'
<1>. SUFFICES ASSUME IInv, [Next]_vars PROVE IInv'
  OBVIOUS
<1>1. TypeOK /\ AssignmentInv /\ ImageInv /\ \A d \in Builders : BuilderOK(d)
  BY DEF IInv, AssignmentInv, ImageInv
<1>2. TypeOK'
  BY <1>1, NextType
<1>3. \A d \in Builders : BuilderOK(d)'
  BY <1>1, NextBuilders
<1>4. AssignmentInv'
  BY <1>1, NextAssignments
<1>5. ImageInv'
  BY <1>1, <1>2, NextImages
<1>. QED BY <1>2, <1>3, <1>4, <1>5 DEF IInv, AssignmentInv, ImageInv

(* What the builders, handlers and the collector keep together, for any    *)
(* number of them.                                                         *)
THEOREM Invariance == Spec => []IInv
BY InitInv, NextInv, PTL DEF Spec

(* The tables, files and processes keep their types.                       *)
THEOREM PipelineTypes == Spec => []TypeOK
<1>1. IInv => TypeOK
  BY DEF IInv
<1>. QED BY <1>1, Invariance, PTL

(* builds and build_assignments agree, though QueueBuild, NextBuildWork,   *)
(* RequestBuildCancellation, UpdateBuildStatus and CompleteBuildAssignment *)
(* write them in transactions of their own.                                *)
THEOREM AssignmentsAgree == Spec => []BuildAgreesWithAssignment
<1>1. IInv => BuildAgreesWithAssignment
  BY DEF IInv
<1>. QED BY <1>1, Invariance, PTL

(* A Railpack build is confirmed and solved from its plan (QueueBuild,     *)
(* SaveBuildPlan).                                                         *)
THEOREM PlansAreThere == Spec => []RailpackHasPlan
<1>1. IInv => RailpackHasPlan
  <2>. SUFFICES ASSUME IInv, NEW b \in Builds, Railpack(b)
                PROVE  /\ build[b].status \in {"BUILDING", "SUCCEEDED"} => b \in plans
                       /\ \A d \in Builders : builder[d].at = "solve" /\ builder[d].build = b
                            /\ Holds(d) => b \in plans
    BY DEF RailpackHasPlan
  <2>1. AssignmentOK(b) /\ BuildAgreesWithAssignment
    BY DEF IInv
  <2>2. ASSUME build[b].status \in {"BUILDING", "SUCCEEDED"} PROVE b \in plans
    BY <2>1, <2>2, NoAssignmentOpen DEF BuildAgreesWithAssignment, AssignmentOK, Results
  <2>3. ASSUME NEW d \in Builders, builder[d].build = b, Holds(d) PROVE b \in plans
    BY <2>1, <2>3, NamesAssumption DEF AssignmentOK, Holds, NoAssignment
  <2>. QED BY <2>2, <2>3
<1>. QED BY <1>1, Invariance, PTL

(* The image of a live job is there under the digest of its build, and, as *)
(* long as no two publications of the build overlapped and none was cut    *)
(* off, so are its bytes (SaveManagedArtifact, DeleteBuild, the collector  *)
(* and StoreBuildArtifact).                                                *)
THEOREM ImagesAreThere == Spec => []JobImageIsThere
<1>1. IInv => JobImageIsThere
  <2>. SUFFICES ASSUME IInv, NEW j \in Jobs, NEW b \in Builds, Refers(j, b)
                PROVE  /\ row[b].digest = build[b].oci /\ build[b].oci # None
                       /\ b \notin raced => file[b] = row[b].sha /\ row[b].sha = row[b].digest
    BY DEF JobImageIsThere
  <2>1. RowOK(b) /\ ArchiveOK(b) /\ Referenced(b)
    BY DEF IInv, Referenced
  <2>. QED BY <2>1, NamesAssumption DEF RowOK, ArchiveOK, Published
<1>. QED BY <1>1, Invariance, PTL

LEMMA ResultStep ==
  ASSUME IInv, [Next]_vars, NEW b \in Builds, build[b].status \in Results
  PROVE  build'[b] = build[b] \/ build'[b].status = "deleted"
<1>1. build \in [Builds -> BuildRow] /\ build[b] \in BuildRow /\ TypeOK
  BY DEF IInv, TypeOK
<1>2. ASSUME NEW c \in Builds, NEW s \in {"ANALYZING", "FAILED", "CANCELLED"}, CanUpdate(c, s),
             build' = [build EXCEPT ![c].status = s]
      PROVE  build'[b] = build[b]
  <2>1. CASE c = b
    <3>1. build[b].status = s
      BY <1>2, <2>1 DEF CanUpdate, CanBuildTransition, Allowed, Results, BuildStatus
    <3>. QED BY <1>1, <1>2, <2>1, <3>1 DEF BuildRow
  <2>. QED BY <1>1, <1>2, <2>1
<1>3. ASSUME NEW c \in Builds, Creation(c) PROVE build'[b] = build[b]
  BY <1>1, <1>2, <1>3, CreateWrite
     DEF Creation, AnalysisStarts, AnalysisFails, AnalysisSucceeds, Results
<1>4. ASSUME NEW c \in Builds, Request(c) \/ CancelEnds(c)
      PROVE  build'[b] = build[b] \/ build'[b].status = "deleted"
  <2>1. CASE ConfirmBuild(c)
    <3>1. c # b
      BY <2>1 DEF ConfirmBuild, QueueBuild, Results
    <3>. QED BY <1>1, <2>1, <3>1, ConfirmWrite
  <2>2. CASE DeleteBuildRows(c)
    BY <1>1, <2>2, DeleteWrite
  <2>3. CASE CancelBuilding(c)
    <3>1. CASE RequestBuildCancellation(c) /\ build[c].status = "BUILDING"
      BY <1>1, <3>1, CancellationWrite DEF Results
    <3>. QED BY <2>3, <3>1 DEF CancelBuilding
  <2>4. CASE CancelOther(c)
    BY <1>2, <2>4 DEF CancelOther
  <2>. QED BY <1>4, <2>1, <2>2, <2>3, <2>4 DEF Request, CancelEnds, BeginCancel, Collect, server
<1>5. ASSUME NEW d \in Builders, Finish(d) PROVE build'[b] = build[b]
  <2>1. BuilderOK(d)
    BY DEF IInv
  <2>. QED BY <1>1, <1>5, <2>1, FinishWrite DEF Results
<1>6. ASSUME NEW d \in Builders,
             Heartbeat(d) \/ Solved(d) \/ Publish(d) \/ FlushLog(d) \/ BuilderDies(d)
               \/ \E c \in Builds : Poll(d, c) \/ PollLost(d, c)
      PROVE  build' = build
  BY <1>6 DEF Heartbeat, Solved, Publish, FlushLog, BuilderDies, Poll, PollLost, server
<1>7. ASSUME NEW u \in uploads, Serve(u) \/ UploadFails(u) PROVE build' = build
  BY <1>7 DEF Serve, Look, Write, Save, Undo, UploadFails, server
<1>8. ASSUME NEW c \in Builds, RemoveFiles(c) \/ LeaseExpires(c) \/ LogLimit(c)
      PROVE  build' = build
  BY <1>8 DEF RemoveFiles, LeaseExpires, LogLimit
<1>9. ASSUME NEW j \in Jobs, DeleteJob(j) \/ \E c \in Builds : CreateJobWithManagedArtifact(j, c)
      PROVE  build' = build
  BY <1>9 DEF DeleteJob, CreateJobWithManagedArtifact
<1>10. ASSUME ServerDies \/ UNCHANGED vars PROVE build' = build
  BY <1>10 DEF ServerDies, vars, server
<1>. QED BY <1>3, <1>4, <1>5, <1>6, <1>7, <1>8, <1>9, <1>10 DEF Next, Build

(* A stored result is never changed, whatever builders report and users    *)
(* cancel afterwards (CompleteBuildAssignment, UpdateBuildStatus).         *)
THEOREM ResultsAreFinal == Spec => ResultIsFinal
<1>1. IInv /\ [Next]_vars =>
        [\A b \in Builds : build[b].status \in Results
           => build'[b] = build[b] \/ build'[b].status = "deleted"]_vars
  BY ResultStep
<1>. QED BY <1>1, Invariance, PTL DEF Spec, ResultIsFinal

=============================================================================
