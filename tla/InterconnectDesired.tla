------------------------- MODULE InterconnectDesired -------------------------
(***************************************************************************)
(* How a node learns what the admin decided about the cable                *)
(* (net/v1alpha1).  A node never reads the Interconnect: the server copies *)
(* the decision into an annotation of the node, an InterconnectDesired,    *)
(* and the node reports its side in another, an InterconnectReport.  Both  *)
(* are bounded text, both carry a schema, and the two ends may be of       *)
(* different versions.                                                     *)
(*                                                                         *)
(* A name is a model value with a length; a payload on the wire is its     *)
(* size, what the probe makes of its schema, what a decoder of this        *)
(* version makes of its fields, and the payload itself.  The list bound    *)
(* and the byte bound are constants.                                       *)
(***************************************************************************)
EXTENDS Integers, Sequences, SequencesExt

CONSTANTS MaxInterconnectListItems,   \* 64 in the code
          MaxInterconnectReportBytes, \* 4096 in the code
          MaxInterconnectReportPeers, \* 16 in the code
          MaxLocalUUIDs               \* MaxInterconnectSlot + 1, 8 in the code

InterconnectAnnotationSchema == 1
MediumThunderbolt == "thunderbolt"
InterconnectFallbackNetwork == "network"
InterconnectFallbackNone == "none"

(* Two labels, a long one, a dotted name and one of no accepted shape.       *)
isNamespaceName(s) == s \in {"lab1", "lab2", "longlabel"}
isNodeName(s) == isNamespaceName(s) \/ s \in {"dot.ted", MediumThunderbolt}
isPrintableASCII(s) == s # "" /\ s # "control"
Bytes(s) == IF s = "longlabel" THEN 4 ELSE 1

NoRepeats(s) == \A i, j \in 1..Len(s) : s[i] = s[j] => i = j
Each(s, P(_)) == \A i \in 1..Len(s) : P(s[i])

-----------------------------------------------------------------------------
(* The Interconnect. *)
EffectiveFallback(s) == IF s.fallback = "" THEN InterconnectFallbackNetwork ELSE s.fallback

NamespaceAllowed(allowed, ns) == allowed = <<>> \/ \E i \in 1..Len(allowed) : allowed[i] = ns

InterconnectSpec_Validate(s) ==
    /\ s.medium = MediumThunderbolt
    /\ s.fallback \in {"", InterconnectFallbackNetwork, InterconnectFallbackNone}
    /\ Len(s.excludedNodes) <= MaxInterconnectListItems /\ Len(s.allowedNamespaces) <= MaxInterconnectListItems
    /\ Each(s.excludedNodes, isNodeName) /\ NoRepeats(s.excludedNodes)
    /\ Each(s.allowedNamespaces, isNamespaceName) /\ NoRepeats(s.allowedNamespaces)

Interconnect_Validate(in) ==
    /\ in.name # "" => in.name = in.spec.medium
    /\ InterconnectSpec_Validate(in.spec)

-----------------------------------------------------------------------------
(* The payloads.  An error is "schema" (ErrUnknownInterconnectSchema) or     *)
(* "invalid" (ErrInvalidInterconnectAnnotation); no error is "".             *)
Desired_Validate(d) ==
    CASE d.schema # InterconnectAnnotationSchema -> "schema"
      [] /\ isNodeName(d.interconnect)
         /\ d.fallback \in {InterconnectFallbackNetwork, InterconnectFallbackNone}
         /\ Len(d.allowedNamespaces) <= MaxInterconnectListItems
         /\ Len(d.mlxModels) <= MaxInterconnectListItems
         /\ Each(d.allowedNamespaces, isNamespaceName) /\ NoRepeats(d.allowedNamespaces)
         /\ \A i \in 1..Len(d.mlxModels) :
               /\ isNamespaceName(d.mlxModels[i].namespace) /\ isNodeName(d.mlxModels[i].name)
               /\ isPrintableASCII(d.mlxModels[i].uid)
         /\ \A i, j \in 1..Len(d.mlxModels) : i # j =>
               /\ d.mlxModels[i].uid # d.mlxModels[j].uid
               /\ <<d.mlxModels[i].namespace, d.mlxModels[i].name>>
                    # <<d.mlxModels[j].namespace, d.mlxModels[j].name>> -> ""
      [] OTHER -> "invalid"

Report_Validate(r) ==
    CASE r.schema # InterconnectAnnotationSchema -> "schema"
      [] /\ Len(r.reachablePeers) <= MaxInterconnectReportPeers
         /\ Len(r.peerDomainUUIDs) <= MaxInterconnectReportPeers
         /\ Len(r.localDomainUUIDs) <= MaxLocalUUIDs
         /\ Each(r.localDomainUUIDs, isPrintableASCII) /\ Each(r.peerDomainUUIDs, isPrintableASCII)
         /\ r.speedGbps >= 0
         /\ Each(r.reachablePeers, isNodeName) /\ NoRepeats(r.reachablePeers) -> ""
      [] OTHER -> "invalid"

(* A node's rule read as "none" where the list is empty. *)
Desired_NamespaceAllowed_EmptyIsNone(d, ns) == \E i \in 1..Len(d.allowedNamespaces) : d.allowedNamespaces[i] = ns

Desired_NamespaceAllowed(d, ns) == NamespaceAllowed(d.allowedNamespaces, ns)

HasMLXModel(d, namespace, name, uid) ==
    /\ namespace # "" /\ name # "" /\ uid # ""
    /\ \E i \in 1..Len(d.mlxModels) :
          d.mlxModels[i] = [namespace |-> namespace, name |-> name, uid |-> uid]

-----------------------------------------------------------------------------
(* The text.  {} is no value: an error on the way in, no annotation.         *)
SumBytes(s) == FoldLeft(LAMBDA n, name : n + Bytes(name), 0, s)
ModelBytes(s) == FoldLeft(LAMBDA n, m : n + Bytes(m.namespace) + Bytes(m.name) + Bytes(m.uid), 0, s)

DesiredBytes(d) == 1 + SumBytes(d.allowedNamespaces) + ModelBytes(d.mlxModels)
ReportBytes(r) == 1 + SumBytes(r.localDomainUUIDs) + SumBytes(r.peerDomainUUIDs) + SumBytes(r.reachablePeers)

(* schema is {} where the text has none; probes is FALSE where the text is   *)
(* not JSON or its schema not a number.                                      *)
Wire(bytes, probes, schema, decodes, payload) ==
    [bytes |-> bytes, probes |-> probes, schema |-> schema, decodes |-> decodes, payload |-> payload]

encodeInterconnectAnnotation(v, bytes) ==
    IF bytes > MaxInterconnectReportBytes THEN {} ELSE {Wire(bytes, TRUE, {v.schema}, TRUE, v)}

Desired_Encode(d) == IF Desired_Validate(d) # "" THEN {} ELSE encodeInterconnectAnnotation(d, DesiredBytes(d))
Report_Encode(r) == IF Report_Validate(r) # "" THEN {} ELSE encodeInterconnectAnnotation(r, ReportBytes(r))

decodeInterconnectAnnotation(w) ==
    CASE w.bytes > MaxInterconnectReportBytes \/ ~w.probes -> "invalid"
      [] w.bytes <= MaxInterconnectReportBytes /\ w.probes
           /\ w.schema # {InterconnectAnnotationSchema} -> "schema"
      [] OTHER -> IF w.decodes THEN "" ELSE "invalid"

ParseInterconnectDesired(w) ==
    IF decodeInterconnectAnnotation(w) # "" THEN decodeInterconnectAnnotation(w) ELSE Desired_Validate(w.payload)
ParseInterconnectReport(w) ==
    IF decodeInterconnectAnnotation(w) # "" THEN decodeInterconnectAnnotation(w) ELSE Report_Validate(w.payload)

-----------------------------------------------------------------------------
(* The decision on its way to one node.  object is the Interconnect as the   *)
(* API server holds it; desired the node's annotation ({} is none), with the *)
(* object and the models it was written from; report the node's own.         *)
VARIABLES object, models, desired, report
vars == <<object, models, desired, report>>

NodeName == "lab1"
NameLists == {<<>>, <<"lab1">>, <<"lab1", "longlabel">>, <<"longlabel", "longlabel">>, <<"dot.ted">>,
              <<"lab1", "lab2", "longlabel">>}
Candidates ==
    {[name |-> n, spec |-> [medium |-> MediumThunderbolt, fallback |-> f, enabled |-> e,
                            excludedNodes |-> x, allowedNamespaces |-> a]] :
       n \in {MediumThunderbolt, "lab1"}, f \in {"", InterconnectFallbackNone, "both"}, e \in BOOLEAN,
       x \in {<<>>, <<NodeName>>}, a \in NameLists}
Model(ns, uid) == [namespace |-> ns, name |-> "dot.ted", uid |-> uid]
ModelLists == {<<>>, <<Model("lab1", "u1")>>, <<Model("lab1", "u2")>>, <<Model("lab1", "u1"), Model("lab2", "u1")>>}
Reports ==
    {[schema |-> InterconnectAnnotationSchema, localDomainUUIDs |-> l, peerDomainUUIDs |-> <<"u1">>,
      speedGbps |-> g, reachablePeers |-> r] :
       l \in {<<"u1">>, <<"control">>, <<"u1", "u2">>}, g \in {-1, 0}, r \in NameLists}

DesiredFor(o, ms) ==
    [schema |-> InterconnectAnnotationSchema, interconnect |-> o.spec.medium, fallback |-> EffectiveFallback(o.spec),
     allowedNamespaces |-> o.spec.allowedNamespaces, mlxModels |-> ms]

Init ==
    /\ object = [name |-> MediumThunderbolt,
                 spec |-> [medium |-> MediumThunderbolt, fallback |-> "", enabled |-> FALSE,
                           excludedNodes |-> <<>>, allowedNamespaces |-> <<>>]]
    /\ models = <<>> /\ desired = {} /\ report = {}

(* The admin applies an Interconnect; one that does not validate is refused. *)
Apply(o) ==
    /\ object' = IF Interconnect_Validate(o) THEN o ELSE object
    /\ UNCHANGED <<models, desired, report>>

ModelsChange(ms) ==
    /\ models' = ms
    /\ UNCHANGED <<object, desired, report>>

(* The server arms the node or withdraws it; a decision that does not encode *)
(* leaves the annotation as it was.                                          *)
Arm ==
    LET member == object.spec.enabled /\ ~(\E i \in 1..Len(object.spec.excludedNodes) :
                                              object.spec.excludedNodes[i] = NodeName)
        text == Desired_Encode(DesiredFor(object, models))
    IN /\ desired' = IF ~member THEN {}
                     ELSE IF text = {} THEN desired
                     ELSE {[wire |-> w, object |-> object, models |-> models] : w \in text}
       /\ UNCHANGED <<object, models, report>>

(* Another writer, a newer server among them: the text may be too long, its  *)
(* schema missing, newer or of another type, its fields of other types.      *)
ArmOther(w) ==
    /\ desired' = {[wire |-> w, object |-> {}, models |-> <<>>]}
    /\ UNCHANGED <<object, models, report>>

OtherWires == {Wire(bytes, probes, schema, FALSE, {}) :
                 bytes \in {1, MaxInterconnectReportBytes, MaxInterconnectReportBytes + 1},
                 probes \in BOOLEAN, schema \in {{}, {1}, {2}}}

(* The node reports its cable side, in text the server then reads. *)
NodeReports(r) ==
    /\ report' = IF Report_Encode(r) = {} THEN report ELSE Report_Encode(r)
    /\ UNCHANGED <<object, models, desired>>

Next ==
    \/ \E o \in Candidates : Apply(o)
    \/ \E ms \in ModelLists : ModelsChange(ms)
    \/ Arm
    \/ \E w \in OtherWires : ArmOther(w)
    \/ \E r \in Reports : NodeReports(r)

Spec == Init /\ [][Next]_vars

-----------------------------------------------------------------------------
(* An Interconnect the API admits can be sent: with models that are told     *)
(* apart, Encode refuses the payload made from it only where the text is too *)
(* long, so the two validators agree on names, lists and the fallback that   *)
(* was left out (Interconnect.Validate, EffectiveFallback,                   *)
(* InterconnectDesired.Validate).                                            *)
ToldApart(ms) == \A i, j \in 1..Len(ms) : i # j => ms[i].uid # ms[j].uid

AdmittedIsSent ==
    LET d == DesiredFor(object, models) IN
    ToldApart(models) => (Desired_Encode(d) = {} <=> DesiredBytes(d) > MaxInterconnectReportBytes)

(* What the node reads decides as the Interconnect it was written from: the  *)
(* same fallback, namespaces and models, whatever became of the object since *)
(* (InterconnectDesired.NamespaceAllowed, HasMLXModel).                      *)
NodeDecidesAsTheObject ==
    \A d \in desired : ParseInterconnectDesired(d.wire) = "" =>
       /\ d.wire.payload.fallback = EffectiveFallback(d.object.spec)
       /\ \A ns \in {"lab1", "lab2", "longlabel"} :
             Desired_NamespaceAllowed(d.wire.payload, ns) <=> NamespaceAllowed(d.object.spec.allowedNamespaces, ns)
       /\ \A ns \in {"", "lab1", "lab2"}, uid \in {"", "u1", "u2"} :
             HasMLXModel(d.wire.payload, ns, "dot.ted", uid)
               <=> [namespace |-> ns, name |-> "dot.ted", uid |-> uid] \in ToSet(d.models)

(* A writer never produces a value its reader rejects: what Encode returned, *)
(* of either payload, Parse accepts (InterconnectReport.Encode).             *)
WrittenIsReadable ==
    /\ \A r \in report : ParseInterconnectReport(r) = ""
    /\ \A d \in desired : d.wire.decodes => ParseInterconnectDesired(d.wire) = ""

(* "a future schema whose fields changed type is reported as                 *)
(* ErrUnknownInterconnectSchema, not as malformed"                           *)
(* (decodeInterconnectAnnotation), as far as the text is within the bound    *)
(* and its schema a number; otherwise it counts as malformed.  Either way    *)
(* the node is given no rule.                                                *)
NewerIsNotMalformed ==
    \A d \in desired :
       /\ d.wire.schema = {2} /\ d.wire.probes /\ d.wire.bytes <= MaxInterconnectReportBytes
            => ParseInterconnectDesired(d.wire) = "schema"
       /\ d.wire.schema = {2} => ParseInterconnectDesired(d.wire) # ""
=============================================================================
