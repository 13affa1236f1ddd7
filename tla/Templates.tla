------------------------------ MODULE Templates ------------------------------
(***************************************************************************)
(* The resolution of a dashboard template against the sources an attempt   *)
(* has so far: internal/httpapi/dashboard_templates.go and the validation  *)
(* of what comes out of it, internal/httpapi/dashboards.go.                *)
(*                                                                         *)
(* The catalog grows while the attempt runs; a template can be resolved at *)
(* any time, with an override of one slot.                                 *)
(***************************************************************************)
EXTENDS Integers, FiniteSets, Sequences, FiniteSetsExt, Folds

CONSTANTS
  Sources,    \* what an attempt can observe: records of name, kind and tags
  Definitions,\* templates: sequences of widgets
  Width,      \* columns of the grid, 12
  MaxResolves \* bound: resolutions of one run

VARIABLES
  template,  \* the definition the user picked
  catalog,   \* the sources observed so far
  result,    \* the last resolution
  resolves
vars == <<template, catalog, result, resolves>>

Plots == {"lineplot"}   \* take any number of sources, "kpi" at most one
NoOverride == [widget |-> 0, slot |-> 0, sources |-> {}]
NoResult == [compatibility |-> "none", widgets |-> <<>>, slots |-> <<>>, override |-> NoOverride]

TypeOK ==
  /\ catalog \subseteq Sources /\ resolves \in 0 .. MaxResolves
  /\ result.compatibility \in {"none", "compatible", "partially_compatible", "incompatible"}
  /\ \A w \in DOMAIN result.slots : \A s \in DOMAIN result.slots[w] :
       result.slots[w][s].status \in {"resolved", "missing", "ambiguous", "incompatible"}

(* observableSources: the resources are there from the start.              *)
Init ==
  /\ template \in Definitions /\ result = NoResult /\ resolves = 0
  /\ catalog = {source \in Sources : source.kind = "resource"}

Observe(source) ==
  /\ source \notin catalog
  /\ catalog' = catalog \cup {source}
  /\ UNCHANGED <<template, result, resolves>>

(* resolveDashboardTemplateSlot: of the sources with every required tag    *)
(* and an eligible kind, those with the most optional tags.                *)
TagMatches(slot) == {source \in catalog : slot.required \subseteq source.tags}
Eligible(slot) == {source \in TagMatches(slot) : source.kind \in slot.kinds}
Score(slot, source) == Cardinality(slot.optional \cap source.tags)
Candidates_First(slot) ==
  IF Eligible(slot) = {} THEN {}
  ELSE {CHOOSE source \in Eligible(slot) :
          \A other \in Eligible(slot) : Score(slot, source) >= Score(slot, other)}
Candidates(slot) ==
  {source \in Eligible(slot) :
     \A other \in Eligible(slot) : Score(slot, source) >= Score(slot, other)}
Status(slot) ==
  LET n == Cardinality(Candidates(slot)) IN
  IF slot.required # {} /\ TagMatches(slot) # {} /\ n = 0 THEN "incompatible"
  ELSE IF n < slot.min \/ n = 0 THEN "missing"
  ELSE IF n > slot.max THEN "ambiguous" ELSE "resolved"
resolveDashboardTemplateSlot(slot) ==
  [status |-> Status(slot), selected |-> IF Status(slot) = "resolved" THEN Candidates(slot) ELSE {}]

(* validateDashboardTemplateOverride.                                      *)
Overrides(w, s) ==
  LET slot == template[w].slots[s] IN
  {sources \in SUBSET Candidates(slot) : Cardinality(sources) \in Max({1, slot.min}) .. slot.max}
Resolution(w, s, override) ==
  IF override.widget = w /\ override.slot = s
  THEN [status |-> "resolved", selected |-> override.sources]
  ELSE resolveDashboardTemplateSlot(template[w].slots[s])

Behavior(slot, status) ==
  LET asked == IF status = "ambiguous" THEN slot.onAmbiguous ELSE slot.onMissing IN
  IF asked # "" THEN asked ELSE IF status # "ambiguous" /\ slot.min = 0 THEN "omit_slot" ELSE "error"
Behaviors(w, slots) ==
  {Behavior(template[w].slots[s], slots[s].status) :
     s \in {t \in DOMAIN slots : slots[t].status # "resolved"}}
(* The verdict on a widget, from those on its slots.                       *)
WidgetStatus(w, slots) ==
  IF "error" \in Behaviors(w, slots) THEN "unresolved"
  ELSE IF "omit_widget" \in Behaviors(w, slots) \/ \A s \in DOMAIN slots : slots[s].selected = {}
       THEN "omitted"
  ELSE IF "omit_slot" \in Behaviors(w, slots) THEN "partial" ELSE "resolved"
Compatibility_LastWord(statuses) ==
  IF statuses[Len(statuses)] = "unresolved" THEN "incompatible"
  ELSE IF statuses[Len(statuses)] # "resolved" THEN "partially_compatible" ELSE "compatible"
Compatibility(statuses) ==
  IF \E w \in DOMAIN statuses : statuses[w] = "unresolved" THEN "incompatible"
  ELSE IF \E w \in DOMAIN statuses : statuses[w] # "resolved" THEN "partially_compatible" ELSE "compatible"

(* compactDashboardWidgets: in reading order, each at the first free place. *)
Cells(x, y, size) == (x .. x + size.columns - 1) \X (y .. y + size.rows - 1)
Above(w, v) == LET p == template[w].position  q == template[v].position
               IN  p.y < q.y \/ (p.y = q.y /\ p.x < q.x) \/ (p = q /\ w < v)
Occupied_Corners(placed) ==
  UNION {Cells(placed[i].x, placed[i].y, [columns |-> 1, rows |-> 1]) : i \in DOMAIN placed}
Occupied(placed) == UNION {Cells(placed[i].x, placed[i].y, placed[i].size) : i \in DOMAIN placed}
Bottom(placed) == Max({0} \cup {placed[i].y + placed[i].size.rows : i \in DOMAIN placed})
Place(w, placed) ==
  LET size == template[w].size
      free == {c \in (0 .. Width - size.columns) \X (0 .. Bottom(placed)) :
                 Cells(c[1], c[2], size) \cap Occupied(placed) = {}}
      first == CHOOSE c \in free : \A d \in free : c[2] < d[2] \/ (c[2] = d[2] /\ c[1] <= d[1])
  IN  Append(placed, [widget |-> w, x |-> first[1], y |-> first[2], size |-> size])
LowestOf(some) == CHOOSE w \in some : \A v \in some \ {w} : Above(v, w)
compactDashboardWidgets(kept) == MapThenFoldSet(Place, <<>>, LAMBDA w : w, LowestOf, kept)

ResolveDashboardTemplate(override) ==
  /\ resolves < MaxResolves /\ resolves' = resolves + 1
  /\ LET slots == [w \in DOMAIN template |->
                     [s \in DOMAIN template[w].slots |-> Resolution(w, s, override)]]
         statuses == [w \in DOMAIN template |-> WidgetStatus(w, slots[w])]
         kept == {w \in DOMAIN template : statuses[w] \in {"resolved", "partial"}}
     IN  result' = [compatibility |-> Compatibility(statuses), slots |-> slots, override |-> override,
                    widgets |-> compactDashboardWidgets(kept)]
  /\ UNCHANGED <<template, catalog>>

Next ==
  \/ \E source \in Sources : Observe(source)
  \/ ResolveDashboardTemplate(NoOverride)
  \/ \E w \in DOMAIN template : \E s \in DOMAIN template[w].slots : \E sources \in Overrides(w, s) :
       ResolveDashboardTemplate([widget |-> w, slot |-> s, sources |-> sources])
Spec == Init /\ [][Next]_vars

-----------------------------------------------------------------------------
(* Properties. *)

Kept == {result.widgets[i].widget : i \in DOMAIN result.widgets}
SourceCount(w) ==
  MapThenSumSet(LAMBDA s : Cardinality(result.slots[w][s].selected), DOMAIN result.slots[w])

(* The compacted layout: every widget once, inside the grid, no two on the *)
(* same cell.                                                              *)
LayoutIsLegal ==
  LET placed == result.widgets IN
  /\ \A i \in DOMAIN placed : placed[i].x >= 0 /\ placed[i].x + placed[i].size.columns <= Width
  /\ \A i, j \in DOMAIN placed : i # j =>
       /\ placed[i].widget # placed[j].widget
       /\ Cells(placed[i].x, placed[i].y, placed[i].size)
            \cap Cells(placed[j].x, placed[j].y, placed[j].size) = {}

(* docs/dashboard-templates.md on "compatible": every declared widget is   *)
(* there, with a source in every slot; with less, it says so.              *)
CompatibleMeansWhole ==
  result # NoResult =>
    (result.compatibility = "compatible" <=>
       /\ Kept = DOMAIN template
       /\ \A w \in DOMAIN template : \A s \in DOMAIN result.slots[w] : result.slots[w][s].selected # {})

(* "The resolver never silently chooses one of multiple equally valid      *)
(* sources": without an override, all that are equally specific are taken  *)
(* or none, and never more than the slot has room for.                     *)
NothingSilentlyChosen ==
  [][resolves' # resolves /\ result'.override = NoOverride =>
       \A w \in DOMAIN template : \A s \in DOMAIN template[w].slots :
         LET slot == template[w].slots[s]  selected == result'.slots[w][s].selected IN
         /\ Cardinality(selected) <= slot.max
         /\ \A source \in selected, other \in catalog :
              (slot.required \subseteq other.tags /\ other.kind \in slot.kinds
                /\ Score(slot, other) >= Score(slot, source)) => other \in selected]_vars

(* docs/dashboard-templates.md:6: what comes out can be saved like any     *)
(* other dashboard.  Not a widget of one source whose slots select more.   *)
ResolvedCanBeSaved ==
  \A w \in Kept : template[w].type \notin Plots => SourceCount(w) <= 1

(* An attempt that observes more does not lose a widget it had.  It does:  *)
(* a source with an optional tag displaces the ones without, and a slot    *)
(* that needs two, or one that is now full, resolves no more.              *)
MoreIsNotLess ==
  [][resolves' > resolves /\ resolves > 0 /\ result'.override = NoOverride
       => Kept \subseteq {result'.widgets[i].widget : i \in DOMAIN result'.widgets}]_vars

=============================================================================
