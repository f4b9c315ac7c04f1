--------------------------- MODULE SharedObjects ----------------------------
(***************************************************************************)
(* The served object types, their hand-written deep copies, and an         *)
(* informer's cached object with the controllers that work on copies of    *)
(* it.                                                                     *)
(*                                                                         *)
(* A type is the set of its reference paths: the fields (from the outside  *)
(* inwards) that hold a pointer, a slice or a map, each a piece of memory   *)
(* of its own.  One element stands for every element of a slice, which the *)
(* loops treat alike.  A field of plain values is not listed: it lies in    *)
(* the memory of the struct around it.                                      *)
(*                                                                         *)
(* A copy says what became of each reference: "new" ones point at memory   *)
(* of their own, "kept" ones at the memory the original points at, and the  *)
(* rest are nil.  `*out = *in` keeps everything, a composite literal keeps   *)
(* nothing, and each later assignment replaces one field.                   *)
(*                                                                         *)
(* The watch puts what the API server sent into the cache, a lister hands  *)
(* the cached object to every consumer, and a consumer copies it before it *)
(* edits it.                                                               *)
(***************************************************************************)
EXTENDS Integers, Sequences, FiniteSets, TLC

In(f, S) == {<<f>> \o p : p \in S}

\* A struct, by the types of its fields that hold a reference.
Struct(fields) == UNION {In(f, fields[f]) : f \in DOMAIN fields}

\* A pointer to, or a slice or map of, T.
Ref(T) == {<<>>} \cup T

\* Fields that point at plain values.
Pointers(F) == [f \in F |-> Ref({})]

\* `*out = *in`, and `*out = T{}`.
Value(T) == [new |-> {}, kept |-> T]
Zero == Value({})

\* Memory of its own, filled by the copy c; clonePtr and cloneSlice of plain
\* values.
New(c) == [c EXCEPT !.new = {<<>>} \cup c.new]
Clones(F) == [f \in F |-> New(Zero)]

\* The copy c after its fields in the domain of `assigned` were assigned.
Assign(c, assigned) ==
  LET Others(S) == {p \in S : Head(p) \notin DOMAIN assigned}
      Assigned(part) == UNION {In(f, part[f]) : f \in DOMAIN assigned}
  IN [new  |-> Others(c.new) \cup Assigned([f \in DOMAIN assigned |-> assigned[f].new]),
      kept |-> Others(c.kept) \cup Assigned([f \in DOMAIN assigned |-> assigned[f].kept])]

(***************************************************************************)
(* apimachinery's types and their own deep copies, as this code uses them. *)
(* A metav1.Time and a metav1.Condition hold plain values.                  *)
(***************************************************************************)

ObjectMeta == Struct(Pointers({"Labels", "Annotations", "Finalizers"}))
ListMeta == Struct(Pointers({"RemainingItemCount"}))
Quantity == Struct(Pointers({"d"}))
ObjectMeta_DeepCopyInto == Assign(Value(ObjectMeta), Clones({"Labels", "Annotations", "Finalizers"}))
ListMeta_DeepCopyInto == Assign(Value(ListMeta), Clones({"RemainingItemCount"}))
Quantity_DeepCopy == Assign(Value(Quantity), Clones({"d"}))

\* What every list's DeepCopyInto does, given its items' type and copy.
List(T) == Struct([ListMeta |-> ListMeta, Items |-> Ref(T)])
ListCopy(T, item) ==
  Assign(Value(List(T)), [ListMeta |-> ListMeta_DeepCopyInto, Items |-> New(item)])

(***************************************************************************)
(* helm.k3sm.io/v1                                                          *)
(***************************************************************************)

HelmChartSpec == Struct(Pointers({"Set", "Timeout", "BackOffLimit"}))
HelmChartSpec_DeepCopy == Assign(Value(HelmChartSpec), Clones({"Set", "Timeout", "BackOffLimit"}))

HelmChartCondition == {}
HelmChartCondition_DeepCopy == Value(HelmChartCondition)

HelmChartStatus == Struct([Conditions |-> Ref(HelmChartCondition)])
HelmChartStatus_DeepCopy ==
  Assign(Value(HelmChartStatus), [Conditions |-> New(HelmChartCondition_DeepCopy)])

HelmChart == Struct([ObjectMeta |-> ObjectMeta, Spec |-> HelmChartSpec, Status |-> HelmChartStatus])
HelmChart_DeepCopy ==
  Assign(Value(HelmChart),
         [ObjectMeta |-> ObjectMeta_DeepCopyInto, Spec |-> HelmChartSpec_DeepCopy,
          Status |-> HelmChartStatus_DeepCopy])
HelmChartList == List(HelmChart)
HelmChartList_DeepCopy == ListCopy(HelmChart, HelmChart_DeepCopy)

HelmChartConfigSpec == {}
HelmChartConfigSpec_DeepCopy == Value(HelmChartConfigSpec)
HelmChartConfig == Struct([ObjectMeta |-> ObjectMeta, Spec |-> HelmChartConfigSpec])
HelmChartConfig_DeepCopy ==
  Assign(Value(HelmChartConfig),
         [ObjectMeta |-> ObjectMeta_DeepCopyInto, Spec |-> HelmChartConfigSpec_DeepCopy])
HelmChartConfigList == List(HelmChartConfig)
HelmChartConfigList_DeepCopy == ListCopy(HelmChartConfig, HelmChartConfig_DeepCopy)

(***************************************************************************)
(* mlx.k3sm.io/v1alpha1.  A resource.Quantity holds a pointer of its own.   *)
(***************************************************************************)

MLXRuntime == Struct(Pointers({"Args"}))
MLXRuntime_DeepCopy == Assign(Value(MLXRuntime), Clones({"Args"}))

MLXCache == Struct([Size |-> Quantity])
MLXCache_DeepCopy == Assign(Value(MLXCache), [Size |-> Quantity_DeepCopy])

MLXDistributed == {}
MLXDistributed_DeepCopy == Value(MLXDistributed)

MLXModelSpec ==
  Struct([Memory |-> Quantity, Runtime |-> MLXRuntime, Cache |-> Ref(MLXCache),
          Distributed |-> Ref(MLXDistributed)]
         @@ Pointers({"Artifact", "Replicas", "NodeSelector"}))
MLXModelSpec_DeepCopy ==
  Assign(Value(MLXModelSpec),
         [Memory |-> Quantity_DeepCopy, Runtime |-> MLXRuntime_DeepCopy,
          Cache |-> New(MLXCache_DeepCopy), Distributed |-> New(MLXDistributed_DeepCopy)]
         @@ Clones({"Artifact", "Replicas", "NodeSelector"}))

MLXModelStatus == Struct(Pointers({"Conditions"}))
MLXModelStatus_DeepCopy == Assign(Value(MLXModelStatus), Clones({"Conditions"}))

MLXModel == Struct([ObjectMeta |-> ObjectMeta, Spec |-> MLXModelSpec, Status |-> MLXModelStatus])
MLXModel_DeepCopy ==
  Assign(Value(MLXModel),
         [ObjectMeta |-> ObjectMeta_DeepCopyInto, Spec |-> MLXModelSpec_DeepCopy,
          Status |-> MLXModelStatus_DeepCopy])
MLXModelList == List(MLXModel)
MLXModelList_DeepCopy == ListCopy(MLXModel, MLXModel_DeepCopy)

(***************************************************************************)
(* updates.k3sm.io/v1alpha1                                                 *)
(***************************************************************************)

UpdateSpec == {}
UpdateSpec_DeepCopy == Value(UpdateSpec)
UpdateNodeStatus == Struct(Pointers({"StartedAt", "FinishedAt"}))
UpdateNodeStatus_DeepCopy == Assign(Value(UpdateNodeStatus), Clones({"StartedAt", "FinishedAt"}))

UpdateStatus ==
  Struct([Nodes |-> Ref(UpdateNodeStatus)] @@ Pointers({"Resolved", "Conditions"}))
UpdateStatus_DeepCopy ==
  Assign(Value(UpdateStatus),
         [Nodes |-> New(UpdateNodeStatus_DeepCopy)] @@ Clones({"Resolved", "Conditions"}))

Update == Struct([ObjectMeta |-> ObjectMeta, Spec |-> UpdateSpec, Status |-> UpdateStatus])
Update_DeepCopy ==
  Assign(Value(Update),
         [ObjectMeta |-> ObjectMeta_DeepCopyInto, Spec |-> UpdateSpec_DeepCopy,
          Status |-> UpdateStatus_DeepCopy])
UpdateList == List(Update)
UpdateList_DeepCopy == ListCopy(Update, Update_DeepCopy)

UpdatePolicySpec == {}
UpdatePolicySpec_DeepCopy == Value(UpdatePolicySpec)
UpdatePolicy == Struct([ObjectMeta |-> ObjectMeta, Spec |-> UpdatePolicySpec])
UpdatePolicy_DeepCopy ==
  Assign(Value(UpdatePolicy),
         [ObjectMeta |-> ObjectMeta_DeepCopyInto, Spec |-> UpdatePolicySpec_DeepCopy])
UpdatePolicyList == List(UpdatePolicy)
UpdatePolicyList_DeepCopy == ListCopy(UpdatePolicy, UpdatePolicy_DeepCopy)

(***************************************************************************)
(* net.k3sm.io: MeshPeer (v1), with the WithDefaults of the join payloads,  *)
(* and Interconnect (v1alpha1).                                             *)
(***************************************************************************)

MeshPeerSpec == Struct(Pointers({"AllowedIPs", "Endpoints"}))
MeshPeerSpec_WithDefaults == Assign(Value(MeshPeerSpec), Clones({"AllowedIPs", "Endpoints"}))
MeshPeerSpec_DeepCopy == Assign(Value(MeshPeerSpec), Clones({"AllowedIPs", "Endpoints"}))

MeshPeerStatus == Struct(Pointers({"LastHandshakeTime"}))
MeshPeerStatus_DeepCopy == Assign(Value(MeshPeerStatus), Clones({"LastHandshakeTime"}))

MeshPeer == Struct([ObjectMeta |-> ObjectMeta, Spec |-> MeshPeerSpec, Status |-> MeshPeerStatus])
MeshPeer_DeepCopy ==
  Assign(Value(MeshPeer),
         [ObjectMeta |-> ObjectMeta_DeepCopyInto, Spec |-> MeshPeerSpec_DeepCopy,
          Status |-> MeshPeerStatus_DeepCopy])
MeshPeerList == List(MeshPeer)
MeshPeerList_DeepCopy == ListCopy(MeshPeer, MeshPeer_DeepCopy)

MeshEnrollResponse == Struct([Peers |-> Ref(MeshPeerSpec)])
\* Mutant: the Peers slice is copied and the slices its elements hold are not.
MeshEnrollResponse_WithDefaults_ShallowPeers ==
  Assign(Value(MeshEnrollResponse), [Peers |-> New(Value(MeshPeerSpec))])
MeshEnrollResponse_WithDefaults ==
  Assign(Value(MeshEnrollResponse), [Peers |-> New(MeshPeerSpec_DeepCopy)])

ServiceVIP == Struct(Pointers({"Ports"}))
ServiceVIP_WithDefaults == Assign(Value(ServiceVIP), Clones({"Ports"}))

InterconnectSpec == Struct(Pointers({"ExcludedNodes", "AllowedNamespaces"}))
InterconnectSpec_DeepCopy ==
  Assign(Value(InterconnectSpec), Clones({"ExcludedNodes", "AllowedNamespaces"}))
InterconnectMember == Struct(Pointers({"ReachablePeers", "LastTransition"}))
InterconnectMember_DeepCopy ==
  Assign(Value(InterconnectMember), Clones({"ReachablePeers", "LastTransition"}))
InterconnectSegment == Struct(Pointers({"Nodes"}))
InterconnectSegment_DeepCopy == Assign(Value(InterconnectSegment), Clones({"Nodes"}))

InterconnectStatus ==
  Struct([Members |-> Ref(InterconnectMember), Segments |-> Ref(InterconnectSegment)]
         @@ Pointers({"ArmedAt", "Conditions"}))
InterconnectStatus_DeepCopy ==
  Assign(Value(InterconnectStatus),
         [Members |-> New(InterconnectMember_DeepCopy), Segments |-> New(InterconnectSegment_DeepCopy)]
         @@ Clones({"ArmedAt", "Conditions"}))

Interconnect ==
  Struct([ObjectMeta |-> ObjectMeta, Spec |-> InterconnectSpec, Status |-> InterconnectStatus])
Interconnect_DeepCopy ==
  Assign(Value(Interconnect),
         [ObjectMeta |-> ObjectMeta_DeepCopyInto, Spec |-> InterconnectSpec_DeepCopy,
          Status |-> InterconnectStatus_DeepCopy])
InterconnectList == List(Interconnect)
InterconnectList_DeepCopy == ListCopy(Interconnect, Interconnect_DeepCopy)

(***************************************************************************)
(* budget.k3sm.io/v1alpha1.  The capacity and platform blocks are rebuilt    *)
(* from composite literals, where a field left out is lost, not shared.      *)
(***************************************************************************)

LadderPointers ==
  {"WarnThreshold", "AdmitStopThreshold", "CriticalThreshold", "EvictSoftThreshold",
   "EvictHardThreshold", "WarnRelease", "AdmitStopRelease", "CriticalRelease",
   "EvictSoftRelease", "EvictHardRelease", "GraceSeconds", "MinReclaimBytes", "WindowSeconds"}

SignalThresholds == Struct(Pointers(LadderPointers \cup {"DwellSeconds"}))
SignalThresholds_DeepCopyInto ==
  Assign(Value(SignalThresholds), Clones(LadderPointers \cup {"DwellSeconds"}))

ReservePointers == {"CPUSystemReserveMilli", "MemSystemReserveBytes", "MemEvictionReserveBytes"}
HistoryPointers == {"MemoryHalfLifeSeconds", "CPUHalfLifeSeconds", "MarginPermille"}
Tier1Pointers ==
  {"Tier1GraceSeconds", "Tier1HeldSeconds", "Tier1MaxDeliveriesPerHour",
   "Tier1CooloffSeconds", "PSIHeldPermille"}

NodeBudgetPolicySpec ==
  Struct([Thresholds |-> Ref(SignalThresholds), Reserves |-> Ref(Struct(Pointers(ReservePointers))),
          History |-> Ref(Struct(Pointers(HistoryPointers)))]
         @@ Pointers({"NodeSelector"} \cup Tier1Pointers))
NodeBudgetPolicySpec_DeepCopy ==
  Assign(Value(NodeBudgetPolicySpec),
         [Thresholds |-> New(SignalThresholds_DeepCopyInto),
          Reserves |-> New(Assign(Zero, Clones(ReservePointers))),
          History |-> New(Assign(Zero, Clones(HistoryPointers)))]
         @@ Clones({"NodeSelector"} \cup Tier1Pointers))

NodeBudgetPolicy == Struct([ObjectMeta |-> ObjectMeta, Spec |-> NodeBudgetPolicySpec])
NodeBudgetPolicy_DeepCopy ==
  Assign(Value(NodeBudgetPolicy),
         [ObjectMeta |-> ObjectMeta_DeepCopyInto, Spec |-> NodeBudgetPolicySpec_DeepCopy])
NodeBudgetPolicyList == List(NodeBudgetPolicy)
NodeBudgetPolicyList_DeepCopy == ListCopy(NodeBudgetPolicy, NodeBudgetPolicy_DeepCopy)

CapacityPointers ==
  {"CPUCapacityMilli", "CPUSystemReserveMilli", "MemCapacityBytes", "MemSystemReserveBytes",
   "MemEvictionReserveBytes", "MemAllocatableBytes", "SwapTotalBytes", "SwapUsedBytes",
   "CPUPerformanceCores", "CPUEfficiencyCores", "GPUPresent", "GPUCount"}
BudgetCapacity_DeepCopyInto == Assign(Zero, Clones(CapacityPointers))

SignalPointers == LadderPointers \cup {"Value", "EtaToNextRungSeconds"}
BudgetSignal_DeepCopyInto == Assign(Value(Struct(Pointers(SignalPointers))), Clones(SignalPointers))

BandCounters == Struct(Pointers({"Windows"}))
BandCounters_DeepCopyInto == Assign(Value(BandCounters), Clones({"Windows"}))

DarwinPointers ==
  {"VMPressureLevel", "MemorystatusLevelPermille", "SwapinsTotal", "SwapoutsTotal"}
CompressorPointers == {"BytesUsed", "BytesStored", "SegmentLimitBytes"}
DarwinSignals ==
  Struct([Compressor |-> Ref(Struct(Pointers(CompressorPointers)))] @@ Pointers(DarwinPointers))
DarwinSignals_DeepCopyInto ==
  Assign(Zero, [Compressor |-> New(Assign(Zero, Clones(CompressorPointers)))] @@ Clones(DarwinPointers))

LinePointers == {"Avg10Permille", "Avg60Permille", "TotalUs"}
PSILine_deepCopy == New(Assign(Zero, Clones(LinePointers)))
PSIResource == Struct([f \in {"Some", "Full"} |-> Ref(Struct(Pointers(LinePointers)))])
PSIResource_deepCopy == New(Assign(Zero, [f \in {"Some", "Full"} |-> PSILine_deepCopy]))

EventPointers == {"High", "Max", "OOM", "OOMKill"}
LinuxSignals ==
  Struct([PSI |-> Ref(Struct([f \in {"CPU", "Memory", "IO"} |-> Ref(PSIResource)])),
          MemoryEvents |-> Ref(Struct(Pointers(EventPointers)))])
LinuxSignals_DeepCopyInto ==
  Assign(Zero, [PSI |-> New(Assign(Zero, [f \in {"CPU", "Memory", "IO"} |-> PSIResource_deepCopy])),
                MemoryEvents |-> New(Assign(Zero, Clones(EventPointers)))])

NodeBudgetObservation ==
  Struct([Capacity |-> Struct(Pointers(CapacityPointers)),
          Signals |-> Ref(Struct(Pointers(SignalPointers))),
          Recommendation |-> Struct(Pointers({"SafeAdditionalBytes"})),
          Counters |-> Ref(BandCounters), Policy |-> Ref(Struct(Pointers({"ClampedFields"}))),
          Darwin |-> Ref(DarwinSignals), Linux |-> Ref(LinuxSignals)]
         @@ Pointers({"EvictDeadline", "WouldKill", "InForce"}))
NodeBudgetObservation_DeepCopy ==
  Assign(Value(NodeBudgetObservation),
         [Capacity |-> BudgetCapacity_DeepCopyInto, Signals |-> New(BudgetSignal_DeepCopyInto),
          Recommendation |-> Assign(Value(Struct(Pointers({"SafeAdditionalBytes"}))),
                                    Clones({"SafeAdditionalBytes"})),
          Counters |-> New(BandCounters_DeepCopyInto),
          Policy |-> New(Assign(Value(Struct(Pointers({"ClampedFields"}))), Clones({"ClampedFields"}))),
          Darwin |-> New(DarwinSignals_DeepCopyInto), Linux |-> New(LinuxSignals_DeepCopyInto)]
         @@ Clones({"EvictDeadline", "WouldKill", "InForce"}))

NodeBudgetStatus ==
  Struct([Observation |-> NodeBudgetObservation] @@ Pointers({"Writer", "Conditions"}))
NodeBudgetStatus_DeepCopy ==
  Assign(Value(NodeBudgetStatus),
         [Observation |-> NodeBudgetObservation_DeepCopy] @@ Clones({"Writer", "Conditions"}))
NodeBudget == Struct([ObjectMeta |-> ObjectMeta, Status |-> NodeBudgetStatus])
NodeBudget_DeepCopy ==
  Assign(Value(NodeBudget),
         [ObjectMeta |-> ObjectMeta_DeepCopyInto, Status |-> NodeBudgetStatus_DeepCopy])
NodeBudgetList == List(NodeBudget)
NodeBudgetList_DeepCopy == ListCopy(NodeBudget, NodeBudget_DeepCopy)

\* The types whose objects are handed out, each with its copy: DeepCopy, or
\* the WithDefaults of a join payload or a Service, which promises the same
\* independence of its receiver.
Kinds ==
  {"HelmChart", "HelmChartList", "HelmChartConfig", "HelmChartConfigList", "MLXModel",
   "MLXModelList", "Update", "UpdateList", "UpdatePolicy", "UpdatePolicyList", "MeshPeer",
   "MeshPeerList", "MeshPeerSpec", "MeshEnrollResponse", "ServiceVIP", "Interconnect",
   "InterconnectList", "NodeBudgetPolicy", "NodeBudgetPolicyList", "NodeBudget",
   "NodeBudgetList"}

Kind(k) ==
  CASE k = "HelmChart" -> <<HelmChart, HelmChart_DeepCopy>>
    [] k = "HelmChartList" -> <<HelmChartList, HelmChartList_DeepCopy>>
    [] k = "HelmChartConfig" -> <<HelmChartConfig, HelmChartConfig_DeepCopy>>
    [] k = "HelmChartConfigList" -> <<HelmChartConfigList, HelmChartConfigList_DeepCopy>>
    [] k = "MLXModel" -> <<MLXModel, MLXModel_DeepCopy>>
    [] k = "MLXModelList" -> <<MLXModelList, MLXModelList_DeepCopy>>
    [] k = "Update" -> <<Update, Update_DeepCopy>>
    [] k = "UpdateList" -> <<UpdateList, UpdateList_DeepCopy>>
    [] k = "UpdatePolicy" -> <<UpdatePolicy, UpdatePolicy_DeepCopy>>
    [] k = "UpdatePolicyList" -> <<UpdatePolicyList, UpdatePolicyList_DeepCopy>>
    [] k = "MeshPeer" -> <<MeshPeer, MeshPeer_DeepCopy>>
    [] k = "MeshPeerList" -> <<MeshPeerList, MeshPeerList_DeepCopy>>
    [] k = "MeshPeerSpec" -> <<MeshPeerSpec, MeshPeerSpec_WithDefaults>>
    [] k = "MeshEnrollResponse" -> <<MeshEnrollResponse, MeshEnrollResponse_WithDefaults>>
    [] k = "ServiceVIP" -> <<ServiceVIP, ServiceVIP_WithDefaults>>
    [] k = "Interconnect" -> <<Interconnect, Interconnect_DeepCopy>>
    [] k = "InterconnectList" -> <<InterconnectList, InterconnectList_DeepCopy>>
    [] k = "NodeBudgetPolicy" -> <<NodeBudgetPolicy, NodeBudgetPolicy_DeepCopy>>
    [] k = "NodeBudgetPolicyList" -> <<NodeBudgetPolicyList, NodeBudgetPolicyList_DeepCopy>>
    [] k = "NodeBudget" -> <<NodeBudget, NodeBudget_DeepCopy>>
    [] k = "NodeBudgetList" -> <<NodeBudgetList, NodeBudgetList_DeepCopy>>

-----------------------------------------------------------------------------
CONSTANTS
  Consumers,      \* the controllers
  MaxObjects,     \* bound: objects the watch delivers
  MaxWrites       \* bound: writes of all consumers together

ASSUME BoundsAssumption == MaxObjects \in Nat \ {0} /\ MaxWrites \in Nat

VARIABLES
  kind,       \* what is cached: one of Kinds
  cache,      \* the cached object
  delivered,  \* how many objects the watch has delivered
  held,       \* what each consumer works on
  written     \* the memory consumers have written to
vars == <<kind, cache, delivered, held, written>>

\* An object maps its non-nil reference paths, and <<>> for the struct
\* itself, to the object the memory there was allocated for.  A copy keeps or
\* renews what is at a path and moves nothing to another, so the path and
\* that owner name the memory.
Memory(owner, paths) == [p \in Ref(paths) |-> owner]

Below(p, q) == Len(p) <= Len(q) /\ SubSeq(q, 1, Len(p)) = p

\* The objects of a type: every reference set, or one of them nil, and what
\* would lie below it.
Shapes(T) == {T} \cup {T \ {q \in T : Below(p, q)} : p \in T}

\* The copy of obj into memory of the owner.
CopyOf(obj, copy, owner) ==
  [p \in DOMAIN obj \cap ({<<>>} \cup copy.new \cup copy.kept) |->
     IF p \in copy.kept THEN obj[p] ELSE owner]

NoObject == [p \in {} |-> p]
Idle == [object |-> NoObject, of |-> {}]

Init ==
  /\ kind \in Kinds
  /\ \E shape \in Shapes(Kind(kind)[1]) : cache = Memory(<<"watch", 1>>, shape)
  /\ delivered = 1
  /\ held = [c \in Consumers |-> Idle]
  /\ written = {}

\* The watch delivers a later version and the cache points at it; consumers
\* still hold copies of the earlier one.
Deliver ==
  /\ delivered < MaxObjects
  /\ delivered' = delivered + 1
  /\ cache' = Memory(<<"watch", delivered + 1>>, Kind(kind)[1])
  /\ UNCHANGED <<kind, held, written>>

\* c takes the cached object from the lister and copies it.
Copy(c) ==
  /\ held[c] = Idle
  /\ held' = [held EXCEPT ![c] = [object |-> CopyOf(cache, Kind(kind)[2], <<"copy", c>>), of |-> DOMAIN cache]]
  /\ UNCHANGED <<kind, cache, delivered, written>>

\* c edits its copy: a field, an element or a map entry of one of its parts.
Write(c, p) ==
  /\ written' = written \cup {<<p, held[c].object[p]>>}
  /\ Cardinality(written') <= MaxWrites
  /\ UNCHANGED <<kind, cache, delivered, held>>

Next ==
  \/ Deliver
  \/ \E c \in Consumers : Copy(c)
  \/ \E c \in Consumers : \E p \in DOMAIN held[c].object : Write(c, p)

Spec == Init /\ [][Next]_vars

\* A copy is independent of the cache: whatever its holder writes, and
\* through whichever of its references, the cached object (which every other
\* reader of the lister sees) still is what the API server sent.  The copy
\* functions re-allocate every pointer, slice and map for this.
CacheIsTheServers == \A w \in written : w[1] \in DOMAIN cache => w[2] # cache[w[1]]

\* A copy is whole: it has a value exactly where the object it was made of had
\* one.  The blocks rebuilt from a composite literal would silently lose a
\* field the literal does not name, and nil stays nil.
CopyIsWhole == \A c \in Consumers : DOMAIN held[c].object = held[c].of

\* Two controllers never edit the same memory, also when they copied the same
\* cached object or earlier versions of it.
CopiesAreApart ==
  \A c, d \in Consumers : c # d =>
    \A p \in DOMAIN held[c].object \cap DOMAIN held[d].object : held[c].object[p] # held[d].object[p]

\* An object handed out is its holder's own: a DeepCopy is whole, two copies
\* share no memory, and no edit of one reaches the cache.
CopyIsTheHolders == CacheIsTheServers /\ CopyIsWhole /\ CopiesAreApart
=============================================================================
