------------------------------- MODULE Tables -------------------------------
(***************************************************************************)
(* A table a job fills through the SDK while somebody pages through it:    *)
(* sdkTable, validSpecialTable and jobTable in internal/httpapi/tables.go, *)
(* AppendTable and Table in internal/store/tables.go.  Rows are numbered   *)
(* by an autoincremented id, the cursor of a page is the id of its last    *)
(* row, and an upload may replace all rows there are.                      *)
(***************************************************************************)
EXTENDS Integers, FiniteSets, FiniteSetsExt

CONSTANTS
  Nodes,   \* identifiers a hierarchy uses
  Root,    \* the parent "" of a top node
  Scattered, \* what a sample orders the ids by
  MaxRows, \* bound: ids of job_table_rows
  Page     \* rows of a page

VARIABLES
  subtype, \* of the table's descriptor: fixed by the first upload
  rows,    \* ids in the table
  last,    \* the last id given
  verdict, \* the last hierarchy sent, and whether it was taken
  reader   \* somebody who asks for page after page
vars == <<subtype, rows, last, verdict, reader>>

Hierarchies == UNION {[some -> Nodes \cup {Root}] : some \in (SUBSET Nodes) \ {{}}}
NoVerdict == [parents |-> [n \in {} |-> Root], taken |-> TRUE]
TypeOK ==
  /\ subtype \in {"none", "table", "hierarchy"}
  /\ last \in 0 .. MaxRows /\ rows \subseteq 1 .. last
  /\ verdict \in [parents : Hierarchies, taken : BOOLEAN] \cup {NoVerdict}
  /\ reader \in [at : {"off", "on", "end"}, sample : BOOLEAN, after : 0 .. MaxRows,
                 got : SUBSET (1 .. MaxRows), twice : BOOLEAN, upTo : 0 .. MaxRows]

Init ==
  /\ subtype = "none" /\ rows = {} /\ last = 0 /\ verdict = NoVerdict
  /\ reader = [at |-> "off", sample |-> FALSE, after |-> 0, got |-> {}, twice |-> FALSE, upTo |-> 0]

-----------------------------------------------------------------------------
(* validSpecialTable of a hierarchy: unique ids (a function here), known   *)
(* parents, a root, and no cycle, by a search that marks what is being     *)
(* visited 1 and what is done 2.                                           *)
Mark_Done(state, id) == [state EXCEPT ![id] = 2]
Mark(state, id) == [state EXCEPT ![id] = 1]
Visit(parents) ==
  LET visit[state \in [DOMAIN parents -> 0 .. 2]] == [id \in DOMAIN parents |->
        IF state[id] # 0 THEN [cyclic |-> state[id] = 1, state |-> state]
        ELSE LET up == IF parents[id] = Root THEN [cyclic |-> FALSE, state |-> Mark(state, id)]
                       ELSE visit[Mark(state, id)][parents[id]]
             IN  IF up.cyclic THEN up ELSE [up EXCEPT !.state[id] = 2]]
  IN  visit

Unvisited(parents) == [cyclic |-> FALSE, state |-> [n \in DOMAIN parents |-> 0]]
IsCyclic(parents) ==
  FoldSet(LAMBDA id, found : IF found.cyclic THEN found ELSE Visit(parents)[found.state][id],
          Unvisited(parents), DOMAIN parents).cyclic
validSpecialTable(parents) ==
  /\ \A n \in DOMAIN parents : parents[n] \in DOMAIN parents \cup {Root}
  /\ \E n \in DOMAIN parents : parents[n] = Root
  /\ ~IsCyclic(parents)

-----------------------------------------------------------------------------
(* AppendTable: one transaction; ids are never given again. *)
FirstId_Reused(kept) == IF kept = {} THEN 1 ELSE last + 1
FirstId(kept) == last + 1
AppendTable(kind, count, replace) ==
  LET kept == IF replace \/ kind = "hierarchy" THEN {} ELSE rows
      first == FirstId(kept)
  IN  /\ subtype \in {"none", kind} /\ subtype' = kind
      /\ first + count - 1 <= MaxRows
      /\ last' = Max({last, first + count - 1})
      /\ rows' = kept \cup first .. first + count - 1

SdkTable(count, replace) ==
  AppendTable("table", count, replace) /\ UNCHANGED <<verdict, reader>>

SdkHierarchy(parents) ==
  /\ subtype # "table"
  /\ verdict' = [parents |-> parents, taken |-> validSpecialTable(parents)]
  /\ IF validSpecialTable(parents) THEN AppendTable("hierarchy", Cardinality(DOMAIN parents), TRUE)
     ELSE UNCHANGED <<subtype, rows, last>>
  /\ UNCHANGED reader

-----------------------------------------------------------------------------
(* jobTable: a page of the rows behind the cursor, in the order of their   *)
(* ids, or, for a sample, in an order that scatters them.                  *)
Before(i, j) == IF reader.sample THEN Scattered[i] < Scattered[j] ELSE i < j
Behind_From(id) == id >= reader.after
Behind(id) == id > reader.after

(* The query's ORDER BY and LIMIT: the first rows behind the cursor.       *)
Found == {id \in rows : Behind(id)}
IsPage(items) ==
  /\ items = Found \/ Cardinality(items) = Page
  /\ Cardinality(items) <= Page
  /\ \A i \in items, j \in Found \ items : Before(i, j)
LastOf(items) == CHOOSE i \in items : \A j \in items \ {i} : Before(j, i)

Open(sample) ==
  /\ reader.at = "off" /\ subtype # "none"
  /\ reader' = [reader EXCEPT !.at = "on", !.sample = sample]
  /\ UNCHANGED <<subtype, rows, last, verdict>>

NextPage ==
  /\ reader.at = "on"
  /\ \E items \in SUBSET Found :
       /\ IsPage(items)
       /\ LET more == Cardinality(items) = Page IN
          reader' = [reader EXCEPT !.at = IF more THEN "on" ELSE "end",
                                   !.after = IF more THEN LastOf(items) ELSE @,
                                   !.got = @ \cup items,
                                   !.twice = @ \/ items \cap reader.got # {},
                                   !.upTo = last]
  /\ UNCHANGED <<subtype, rows, last, verdict>>

Next ==
  \/ \E count \in 1 .. 2, replace \in BOOLEAN : SdkTable(count, replace)
  \/ \E parents \in Hierarchies : SdkHierarchy(parents)
  \/ \E sample \in BOOLEAN : Open(sample)
  \/ NextPage
Spec == Init /\ [][Next]_vars

-----------------------------------------------------------------------------
(* Properties. *)

(* What a reader in the order of the ids holds: all rows up to its cursor  *)
(* and no others, whatever is added behind it or replaced.                 *)
IInv ==
  /\ TypeOK
  /\ reader.after <= last /\ reader.upTo <= last
  /\ reader.at = "off" => reader.got = {} /\ ~reader.twice /\ reader.after = 0
  /\ ~reader.sample =>
       /\ ~reader.twice
       /\ reader.at = "on" => \A id \in reader.got : id <= reader.after
       /\ reader.at = "on" => \A id \in rows : id <= reader.after => id \in reader.got
       /\ reader.at = "end" => \A id \in rows : id <= reader.upTo => id \in reader.got

(* The search finds a cycle exactly when there is one, in whatever order   *)
(* it visits: a hierarchy is taken if and only if its parents are known    *)
(* and no set of its nodes has all its parents in itself.                  *)
HierarchyTakenIffForest ==
  LET parents == verdict.parents IN
  verdict.taken <=>
    /\ \A n \in DOMAIN parents : parents[n] \in DOMAIN parents \cup {Root}
    /\ \A some \in (SUBSET DOMAIN parents) \ {{}} : \E n \in some : parents[n] \notin some

(* Uploads that add rows or replace them all fall between the pages: a     *)
(* reader is given no row twice...                                         *)
NoRowTwice == ~reader.sample => ~reader.twice

(* ...and, at the end, has been given every row of the table.              *)
PagesAreComplete ==
  reader.at = "end" /\ ~reader.sample =>
    \A id \in rows : id <= reader.upTo => id \in reader.got

(* The same of a sample.  Not so: its rows are in another order than the   *)
(* cursor its pages go on from.                                            *)
SampledPagesAreComplete ==
  reader.at = "end" /\ reader.sample =>
    \A id \in rows : id <= reader.upTo => id \in reader.got

=============================================================================
