--------------------------- MODULE MCObservations ---------------------------
(***************************************************************************)
(* The instance of Observations for model checking.                        *)
(***************************************************************************)
EXTENDS Observations, TLC

(* Requests and threads that report are interchangeable.                   *)
Symmetry == Permutations(Reporters \cup BoardRequests)

(* What a sample orders five ids by.                                       *)
MCScattered == [id \in 1 .. 5 |-> (id * 3) % 5]

(* The observed sources, and templates over them: slots that none, one or  *)
(* several of the sources satisfy, and layouts of widgets of many sizes.   *)
MCObserved == {
  [name |-> "cpu", kind |-> "resource", tags |-> {}],
  [name |-> "a", kind |-> "metric", tags |-> {"loss"}],
  [name |-> "b", kind |-> "metric", tags |-> {"loss"}],
  [name |-> "c", kind |-> "metric", tags |-> {"loss", "train"}],
  [name |-> "d", kind |-> "matrix", tags |-> {"loss", "train"}]}

ResourceSlot ==
  [required |-> {}, optional |-> {}, kinds |-> {"resource"}, min |-> 1, max |-> 1,
   onMissing |-> "", onAmbiguous |-> ""]
Slot(required, optional, min, max, missing, ambiguous) ==
  [required |-> {required}, optional |-> optional, kinds |-> {"metric"},
   min |-> min, max |-> max, onMissing |-> missing, onAmbiguous |-> ambiguous]
Slots == {
  Slot("loss", {}, 1, 1, "", "omit_slot"), Slot("loss", {"train"}, 0, 1, "", ""),
  Slot("loss", {"train"}, 2, 2, "omit_widget", ""),
  Slot("loss", {}, 1, 3, "omit_slot", ""),
  Slot("train", {}, 0, 1, "", ""), Slot("train", {}, 1, 1, "", "")}
LastSlots == {ResourceSlot, Slot("loss", {}, 1, 2, "omit_widget", "omit_widget")}

Widget(type, columns, height, y, slots) ==
  [type |-> type, size |-> [columns |-> columns, rows |-> height],
   position |-> [x |-> 0, y |-> y], slots |-> slots]
MCDefinitions ==
  {<<Widget("lineplot", i, j, y, <<ResourceSlot>>),
     Widget("lineplot", k, l, 1, <<ResourceSlot>>),
     Widget("lineplot", m, 2, 2, <<ResourceSlot>>)>> :
      i \in 1 .. 3, j, k, l, m \in 1 .. 2, y \in {0, 2}}
  \cup {<<Widget("kpi", 1, 1, 0, <<s, t>>), Widget("lineplot", 1, 1, 1, <<v>>)>> :
          s, t \in Slots, v \in LastSlots}

=============================================================================
