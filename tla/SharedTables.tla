---------------------------- MODULE SharedTables ----------------------------
(***************************************************************************)
(* The tables this module hands out to its callers: the CRD manifests of   *)
(* config/crd/embed.go, the allow-sets of artifact/v1/allowset.go, and the *)
(* vocabulary lists.  Each is process-global; what an accessor returns is  *)
(* a slice its caller may write to.                                        *)
(*                                                                         *)
(* A slice is a cell of the heap, a set of entries; a global is the cell   *)
(* that holds it.  The embedded manifests are Go strings: they have no     *)
(* cell that a caller could get hold of, and each call builds one.         *)
(***************************************************************************)
EXTENDS Integers, FiniteSets, Sequences, TLC

CONSTANT MaxCells   \* how many slices a run may make

CRDs == {"mlxmodels.mlx.k3sm.io", "meshpeers.net.k3sm.io", "interconnects.net.k3sm.io", "helmcharts.helm.k3sm.io",
         "helmchartconfigs.helm.k3sm.io", "updates.updates.k3sm.io", "updatepolicies.updates.k3sm.io",
         "nodebudgets.budget.k3sm.io", "nodebudgetpolicies.budget.k3sm.io"}

ModelLayers == {"model.weight", "model.weight.config", "model.doc"}
GuestLayers == {"guest.kernel", "guest.initramfs"}
MediaTypes == ModelLayers \cup GuestLayers \cup {"model.code", "wasm.layer", "oci.image.config"}

\* The package variables that hold a slice.
Globals == [modelLayers |-> ModelLayers,
            signalCodes |-> {"memory.available", "memory.swap"},
            capabilities |-> {"dev-mac", "root"}]

ArtifactTypes == {"model", "wasm.config", "guest", "oci.image.config", ""}
Policies == {"UNSPECIFIED", "IMAGE_VOLUME", "7"}

VARIABLES
    heap,     \* cell -> its entries
    global,   \* package variable -> its cell
    sets,     \* the allow-sets in hand: each a function from artifact type to a cell
    held,     \* the cells a caller may write to
    answers   \* what the accessors returned: <<accessor, entries>>
vars == <<heap, global, sets, held, answers>>

Init ==
    /\ heap = <<ModelLayers, Globals.signalCodes, Globals.capabilities>>
    /\ global = [modelLayers |-> 1, signalCodes |-> 2, capabilities |-> 3]
    /\ sets = {} /\ held = {} /\ answers = {}

Room(n) == Len(heap) + n <= MaxCells
Fresh == Len(heap) + 1

\* A call that answers with a new slice of these entries.
Return(accessor, entries) ==
    /\ Room(1)
    /\ heap' = Append(heap, entries)
    /\ held' = held \cup {Fresh}
    /\ answers' = answers \cup {<<accessor, entries>>}
    /\ UNCHANGED <<global, sets>>

\* MLXModelCRD and the eight accessors beside it.
CRD(name) == Return("crd", {name})

\* Signals() and k3smtest.All() copy their package variable.
Signals == Return("Signals", heap[global.signalCodes])
All == Return("All", heap[global.capabilities])

ImageVolumeAllowSet ==
    /\ Room(2)
    /\ heap' = heap \o <<heap[global.modelLayers], {"wasm.layer"}>>
    /\ sets' = sets \cup {"model" :> Fresh @@ "wasm.config" :> Fresh + 1}
    /\ UNCHANGED <<global, held, answers>>

\* Every policy but IMAGE_VOLUME gets the zero AllowSet and an error.
AllowSetFor(policy) == policy = "IMAGE_VOLUME" /\ ImageVolumeAllowSet

AllowsLayer(set, artifactType, layer) == artifactType \in DOMAIN set /\ layer \in heap[set[artifactType]]

\* LayerMediaTypes answers with the rule's own slice.
LayerMediaTypes_Aliased(set, artifactType) ==
    /\ artifactType \in DOMAIN set
    /\ held' = held \cup {set[artifactType]}
    /\ UNCHANGED <<heap, global, sets, answers>>

LayerMediaTypes(set, artifactType) ==
    /\ artifactType \in DOMAIN set
    /\ Return("LayerMediaTypes", heap[set[artifactType]])

\* A caller writes an entry over what it was handed.
Scribble(cell, entry) ==
    /\ heap' = [heap EXCEPT ![cell] = @ \cup {entry}]
    /\ UNCHANGED <<global, sets, held, answers>>

Next ==
    \/ \E name \in CRDs : CRD(name)
    \/ Signals \/ All
    \/ \E policy \in Policies : AllowSetFor(policy)
    \/ \E set \in sets, type \in ArtifactTypes : LayerMediaTypes(set, type)
    \/ \E cell \in held, entry \in {"guest.kernel", "model.code"} : Scribble(cell, entry)

Spec == Init /\ [][Next]_vars

-----------------------------------------------------------------------------
\* ArtifactType: the manifest's artifactType, else its config media type.
ArtifactType(manifestType, configType) == IF manifestType # "" THEN manifestType ELSE configType

(* Every call of an accessor answers with what the module ships, whatever    *)
(* earlier callers wrote over their answers (Signals, All, LayerMediaTypes,  *)
(* the CRD accessors).                                                       *)
AccessorsAnswerWhatShips ==
    \A a \in answers :
       \/ a[1] = "crd" /\ a[2] \in {{name} : name \in CRDs}
       \/ a[1] = "Signals" /\ a[2] = Globals.signalCodes
       \/ a[1] = "All" /\ a[2] = Globals.capabilities
       \/ a[1] = "LayerMediaTypes" /\ a[2] \in {ModelLayers, {"wasm.layer"}}

(* No allow-set in a caller's hands admits a guest layer, a code layer or an *)
(* image, however the manifest states its type: "a caller cannot widen what  *)
(* the runtime accepts" (AllowSetFor, AllowsLayer, ArtifactType).            *)
NoCallerWidensAnAllowSet ==
    \A set \in sets, mt, ct \in ArtifactTypes, layer \in MediaTypes :
       AllowsLayer(set, ArtifactType(mt, ct), layer) =>
          \/ ArtifactType(mt, ct) = "model" /\ layer \in ModelLayers
          \/ ArtifactType(mt, ct) = "wasm.config" /\ layer = "wasm.layer"
=============================================================================
